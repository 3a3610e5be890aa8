----------------------------- MODULE Jellyfin -----------------------------
(***************************************************************************)
(* The Jellyfin backend: the calls of OnBookOrganized and of               *)
(* ReconcileLibrary, which here only records item ids.                     *)
(* Source: internal/mediaserver/jellyfin.go.                               *)
(***************************************************************************)
EXTENDS MediaServer

(* scan_trigger: a refresh of every library of the server                  *)
JellyfinScan(v, d) ==
    /\ At(v, d, "scan", "jellyfin")
    /\ \/ Ok(v, d) /\ Say(v, d, [scan |-> "ok"])
       \/ Err(v, d, "net") /\ Say(v, d, [scan |-> "failed"])
    /\ Goto(v, d, AfterScan(v, d))
    /\ UNCHANGED serverVars

JellyfinFindAudioBook(d, b) == TitleMatches(d, b)

(* waitForAudioBook                                                        *)
JellyfinWaitForAudioBook(v, d) ==
    /\ At(v, d, "match", "jellyfin")
    /\ \/ /\ Ok(v, d)
          /\ \E i \in JellyfinFindAudioBook(d, Me(v, d).book) :
                SayOf(v, d, i, [match |-> "ok"])
          /\ Goto(v, d, "look")
       \/ /\ \/ Ok(v, d) /\ JellyfinFindAudioBook(d, Me(v, d).book) = {}
             \/ Err(v, d, "net")
          /\ Say(v, d, [match |-> "failed", group |-> "deferred", tag |-> "deferred"])
          /\ Goto(v, d, "read")
    /\ UNCHANGED serverVars

(* findCollectionByName: an error and no collection of the name are one    *)
(* answer to the caller.                                                   *)
JellyfinFindCollection(v, d) ==
    /\ At(v, d, "look", "jellyfin")
    /\ \/ /\ Ok(v, d)
          /\ IF boxes[d] = <<>> THEN Goto(v, d, "create") /\ UNCHANGED loc
             ELSE Goto(v, d, "add") /\ Set(v, d, [box |-> 1])
       \/ Err(v, d, "net") /\ Goto(v, d, "create") /\ UNCHANGED loc
    /\ UNCHANGED serverVars

(* findOrCreateCollection, none found: one that holds the item             *)
JellyfinCreateCollection(v, d) ==
    /\ At(v, d, "create", "jellyfin")
    /\ \/ /\ Ok(v, d)
          /\ NewBox(d, {Me(v, d).item})
          /\ Set(v, d, [box |-> Len(boxes[d]) + 1])
          /\ Goto(v, d, "add")
       \/ /\ Err(v, d, "net")
          /\ Say(v, d, [group |-> "failed", tag |-> "deferred"])
          /\ Goto(v, d, "read")
          /\ \E done \in Perhaps(v, d) :
                IF done THEN NewBox(d, {Me(v, d).item}) ELSE UNCHANGED boxes
    /\ UNCHANGED <<indexed, tagged>>

(* addToCollection; the tag is written even if this fails.                 *)
JellyfinAdd(v, d) ==
    /\ At(v, d, "add", "jellyfin") /\ v # Sweep
    /\ \/ /\ Ok(v, d)
          /\ PutInBox(d, Me(v, d).box, Me(v, d).item)
          /\ Say(v, d, [group |-> "ok"])
       \/ /\ Err(v, d, "net")
          /\ UNCHANGED boxes
          /\ Say(v, d, [group |-> "failed"])
    /\ Goto(v, d, "tag")
    /\ UNCHANGED <<indexed, tagged>>

(* resolveAdminUserID, then applyTags                                      *)
JellyfinTag(v, d) ==
    /\ At(v, d, "tag", "jellyfin")
    /\ \/ Ok(v, d) /\ Say(v, d, [tag |-> "ok"])
       \/ Err(v, d, "net") /\ Say(v, d, [tag |-> "failed"])
    /\ Goto(v, d, "read")
    /\ UNCHANGED serverVars

JellyfinVisit(v, d) ==
    \/ JellyfinScan(v, d) \/ JellyfinWaitForAudioBook(v, d)
    \/ JellyfinFindCollection(v, d) \/ JellyfinCreateCollection(v, d)
    \/ JellyfinAdd(v, d) \/ JellyfinTag(v, d)

(* ReconcileLibrary: listAllAudioBooks, and the complete books whose       *)
(* titles match one                                                        *)
JellyfinListAudioBooks(d) ==
    /\ At(Sweep, d, "list", "jellyfin")
    /\ \/ /\ Ok(Sweep, d)
          /\ Set(Sweep, d, [list |-> indexed[d], pairs |-> ByTitle(indexed[d])])
          /\ Goto(Sweep, d, "matching")
       \/ Err(Sweep, d, "net") /\ Stop(Sweep, d, "failed")
    /\ UNCHANGED serverVars
=============================================================================
