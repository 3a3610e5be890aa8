------------------------------- MODULE Emby -------------------------------
(***************************************************************************)
(* The Emby backend: the calls of OnBookOrganized and of ReconcileLibrary. *)
(* Source: internal/mediaserver/emby.go.  Images are left out, and so are  *)
(* the tags a reconcile writes.                                            *)
(***************************************************************************)
EXTENDS MediaServer

(* findItemByPath: the item at the book's folder, none while the folder is *)
(* not indexed; before it is an album, the item is a plain folder.         *)
EmbyFindItemByPath(d, b) ==
    IF b \in indexed[d] THEN {b} ELSE {Folder, NoItem}

(* scan_trigger: the book's folder is refreshed, or the whole library if   *)
(* the folder is not known; the folder's item is part of the outcome.      *)
EmbyScan(v, d) ==
    /\ At(v, d, "scan", "emby")
    /\ \/ /\ Ok(v, d)
          /\ \E i \in EmbyFindItemByPath(d, Me(v, d).book) :
                SayOf(v, d, i, [scan |-> "ok"])
       \/ Err(v, d, "net") /\ Say(v, d, [scan |-> "failed"])
    /\ Goto(v, d, AfterScan(v, d))
    /\ UNCHANGED serverVars

EmbyFindItemByTitle(d, b) == TitleMatches(d, b)

(* waitForItem                                                             *)
EmbyWaitForItem(v, d) ==
    /\ At(v, d, "match", "emby")
    /\ \/ /\ Ok(v, d)
          /\ \E i \in EmbyFindItemByTitle(d, Me(v, d).book) :
                SayOf(v, d, i, [match |-> "ok"])
          /\ Goto(v, d, "look")
       \/ /\ \/ Ok(v, d) /\ EmbyFindItemByTitle(d, Me(v, d).book) = {}
             \/ Err(v, d, "net")
          /\ Say(v, d, [match |-> "failed", group |-> "deferred", tag |-> "deferred"])
          /\ Goto(v, d, "read")
    /\ UNCHANGED serverVars

(* The collection cannot be found or made.                                 *)
EmbyNoGroup(v, d) ==
    /\ Err(v, d, "net")
    /\ IF v = Sweep THEN Set(v, d, [todo |-> {}]) /\ Goto(v, d, "add")
       ELSE /\ Say(v, d, [group |-> "failed", tag |-> "deferred"])
            /\ Goto(v, d, "read")

(* findCollectionByName: a lookup that fails is not taken for none found.  *)
EmbyFindCollection(v, d) ==
    /\ At(v, d, "look", "emby")
    /\ \/ /\ Ok(v, d)
          /\ IF boxes[d] = <<>> THEN Goto(v, d, "create") /\ UNCHANGED loc
             ELSE Goto(v, d, "add") /\ Set(v, d, [box |-> 1])
       \/ EmbyNoGroup(v, d)
    /\ UNCHANGED serverVars

(* findOrCreateCollection, none found: the new collection holds the item   *)
(* of the visit, or of the first book of the series in a reconcile.        *)
EmbySeeds(v, d) ==
    IF v = Sweep THEN {Me(v, d).ids[b] : b \in Me(v, d).todo} ELSE {Me(v, d).item}
EmbyCreateCollection(v, d) ==
    /\ At(v, d, "create", "emby")
    /\ \E seed \in EmbySeeds(v, d) :
          \/ /\ Ok(v, d)
             /\ NewBox(d, {seed})
             /\ Set(v, d, [box |-> Len(boxes[d]) + 1])
             /\ Goto(v, d, "add")
          \/ /\ EmbyNoGroup(v, d)
             /\ \E done \in Perhaps(v, d) :
                   IF done THEN NewBox(d, {seed}) ELSE UNCHANGED boxes
    /\ UNCHANGED <<indexed, tagged>>

(* addToCollection; the tag is written even if this fails.                 *)
EmbyAdd(v, d) ==
    /\ At(v, d, "add", "emby") /\ v # Sweep
    /\ \/ /\ Ok(v, d)
          /\ PutInBox(d, Me(v, d).box, Me(v, d).item)
          /\ Say(v, d, [group |-> "ok"])
       \/ /\ Err(v, d, "net")
          /\ UNCHANGED boxes
          /\ Say(v, d, [group |-> "failed"])
    /\ Goto(v, d, "tag")
    /\ UNCHANGED <<indexed, tagged>>

(* resolveAdminUserID, then applyTags                                      *)
EmbyTag(v, d) ==
    /\ At(v, d, "tag", "emby") /\ v # Sweep
    /\ \/ Ok(v, d) /\ Say(v, d, [tag |-> "ok"])
       \/ Err(v, d, "net") /\ Say(v, d, [tag |-> "failed"])
    /\ Goto(v, d, "read")
    /\ UNCHANGED serverVars

EmbyVisit(v, d) ==
    \/ EmbyScan(v, d) \/ EmbyWaitForItem(v, d) \/ EmbyFindCollection(v, d)
    \/ EmbyCreateCollection(v, d) \/ EmbyAdd(v, d) \/ EmbyTag(v, d)

-----------------------------------------------------------------------------
(* ReconcileLibrary *)

(* listAllItems, and the complete books whose titles match an item         *)
EmbyListItems(d) ==
    /\ At(Sweep, d, "list", "emby")
    /\ \/ /\ Ok(Sweep, d)
          /\ Set(Sweep, d, [list |-> indexed[d], pairs |-> ByTitle(indexed[d])])
          /\ Goto(Sweep, d, "matching")
       \/ Err(Sweep, d, "net") /\ Stop(Sweep, d, "failed")
    /\ UNCHANGED serverVars

(* The rows are read again for the item ids, whatever item they name.      *)
EmbyIDs(d) == ItemIDs(d)
EmbySeries(d) ==
    /\ At(Sweep, d, "load", "emby")
    /\ \/ /\ Ok(Sweep, d)
          /\ LET some == {b \in complete \cap InSeries : EmbyIDs(d)[b] # NoItem}
             IN  /\ Set(Sweep, d, [todo |-> some, ids |-> EmbyIDs(d)])
                 /\ Goto(Sweep, d, IF some = {} THEN "add" ELSE "look")
       \/ Err(Sweep, d, "db") /\ Stop(Sweep, d, "failed")
    /\ UNCHANGED serverVars

(* Each book is added, and tagged if there is an admin; what fails is      *)
(* logged and passed over.                                                 *)
EmbyAddAgain(d) ==
    /\ At(Sweep, d, "add", "emby") /\ Me(Sweep, d).todo # {}
    /\ LET b == FirstOf(Me(Sweep, d).todo)
       IN  /\ \/ Ok(Sweep, d) /\ PutInBox(d, Me(Sweep, d).box, Me(Sweep, d).ids[b])
              \/ Err(Sweep, d, "net") /\ UNCHANGED boxes
           /\ Set(Sweep, d, [todo |-> Me(Sweep, d).todo \ {b}])
    /\ UNCHANGED <<pc, indexed, tagged>>

EmbyReconcile(d) ==
    \/ EmbyListItems(d) \/ EmbySeries(d)
    \/ EmbyFindCollection(Sweep, d) \/ EmbyCreateCollection(Sweep, d)
    \/ EmbyAddAgain(d)
=============================================================================
