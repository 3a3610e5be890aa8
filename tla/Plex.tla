------------------------------- MODULE Plex -------------------------------
(***************************************************************************)
(* The Plex backend: the calls of OnBookOrganized and of ReconcileLibrary. *)
(* Source: internal/mediaserver/plex.go.                                   *)
(***************************************************************************)
EXTENDS MediaServer

(* scan_trigger                                                            *)
PlexScan(v, d) ==
    /\ At(v, d, "scan", "plex")
    /\ \/ Ok(v, d) /\ Say(v, d, [scan |-> "ok"])
       \/ Err(v, d, "net") /\ Say(v, d, [scan |-> "failed"])
    /\ Goto(v, d, AfterScan(v, d))
    /\ UNCHANGED serverVars

PlexFindAlbum(d, b) == TitleMatches(d, b)

(* waitForAlbum: it polls for 90 s, then gives up.                         *)
MutPlexWaitForAlbum(v, d) ==
    /\ At(v, d, "match", "plex")
    /\ Ok(v, d)
    /\ \E i \in PlexFindAlbum(d, Me(v, d).book) :
          SayOf(v, d, i, [match |-> "ok"])
    /\ Goto(v, d, "look")
    /\ UNCHANGED serverVars
PlexWaitForAlbum(v, d) ==
    /\ At(v, d, "match", "plex")
    /\ \/ /\ Ok(v, d)
          /\ \E i \in PlexFindAlbum(d, Me(v, d).book) :
                SayOf(v, d, i, [match |-> "ok"])
          /\ Goto(v, d, "look")
       \/ /\ \/ Ok(v, d) /\ PlexFindAlbum(d, Me(v, d).book) = {}
             \/ Err(v, d, "net")
          /\ Say(v, d, [match |-> "failed", group |-> "deferred"])
          /\ Goto(v, d, "read")
    /\ UNCHANGED serverVars

(* A call for the collection fails.  In a visit that is the outcome of     *)
(* series_grouping; a reconcile goes on with the next series.              *)
PlexNoGroup(v, d) ==
    /\ Err(v, d, "net")
    /\ IF v = Sweep THEN Set(v, d, [todo |-> {}]) /\ Goto(v, d, "add")
       ELSE Say(v, d, [group |-> "failed"]) /\ Goto(v, d, "read")

(* listCollections: the first with the title of the series.  A visit asks  *)
(* for the server's machineIdentifier just before.                         *)
PlexFindCollection(v, d) ==
    /\ At(v, d, "look", "plex")
    /\ \/ /\ Ok(v, d)
          /\ IF boxes[d] = <<>> THEN Goto(v, d, "create") /\ UNCHANGED loc
             ELSE Goto(v, d, "add") /\ Set(v, d, [box |-> 1])
       \/ PlexNoGroup(v, d)
    /\ UNCHANGED serverVars

(* findOrCreateCollection, none found: the new collection is empty.        *)
PlexCreateCollection(v, d) ==
    /\ At(v, d, "create", "plex")
    /\ \/ /\ Ok(v, d)
          /\ NewBox(d, {})
          /\ Set(v, d, [box |-> Len(boxes[d]) + 1])
          /\ Goto(v, d, "add")
       \/ /\ PlexNoGroup(v, d)
          /\ \E done \in Perhaps(v, d) :
                IF done THEN NewBox(d, {}) ELSE UNCHANGED boxes
    /\ UNCHANGED <<indexed, tagged>>

(* addToCollection, for the book of a visit: POST, and PUT where the       *)
(* server has no POST.                                                     *)
MutPlexAdd(v, d) ==
    /\ At(v, d, "add", "plex") /\ v # Sweep
    /\ \/ Ok(v, d) /\ PutInBox(d, Me(v, d).box, Me(v, d).item)
       \/ Err(v, d, "net") /\ UNCHANGED boxes
    /\ Say(v, d, [group |-> "ok"])
    /\ Goto(v, d, "read")
    /\ UNCHANGED <<indexed, tagged>>
PlexAdd(v, d) ==
    /\ At(v, d, "add", "plex") /\ v # Sweep
    /\ \/ /\ Ok(v, d)
          /\ PutInBox(d, Me(v, d).box, Me(v, d).item)
          /\ Say(v, d, [group |-> "ok"])
       \/ /\ Err(v, d, "net")
          /\ UNCHANGED boxes
          /\ Say(v, d, [group |-> "failed"])
    /\ Goto(v, d, "read")
    /\ UNCHANGED <<indexed, tagged>>

PlexVisit(v, d) ==
    \/ PlexScan(v, d) \/ PlexWaitForAlbum(v, d) \/ PlexFindCollection(v, d)
    \/ PlexCreateCollection(v, d) \/ PlexAdd(v, d)

-----------------------------------------------------------------------------
(* ReconcileLibrary *)

(* listAllAlbums, and the complete books whose titles match an album       *)
PlexListAlbums(d) ==
    /\ At(Sweep, d, "list", "plex")
    /\ \/ /\ Ok(Sweep, d)
          /\ Set(Sweep, d, [list |-> indexed[d], pairs |-> ByTitle(indexed[d])])
          /\ Goto(Sweep, d, "matching")
       \/ Err(Sweep, d, "net") /\ Stop(Sweep, d, "failed")
    /\ UNCHANGED serverVars

(* buildPlexSeriesBooksFromDestinations: books of a series that have an    *)
(* item, if the item is still among the albums listed.                     *)
PlexSeriesBooks(d, list, ids) ==
    {b \in complete \cap InSeries : ids[b] \in list}

(* The rows are read again for the item ids, those just matched included.  *)
PlexSeries(d) ==
    /\ At(Sweep, d, "load", "plex")
    /\ \/ /\ Ok(Sweep, d)
          /\ LET some == PlexSeriesBooks(d, Me(Sweep, d).list, ItemIDs(d))
             IN  /\ Set(Sweep, d, [todo |-> some, ids |-> ItemIDs(d)])
                 /\ Goto(Sweep, d, IF some = {} THEN "add" ELSE "identity")
       \/ Err(Sweep, d, "db") /\ Stop(Sweep, d, "failed")
    /\ UNCHANGED serverVars

(* machineIdentifier: without it the reconcile fails.                      *)
PlexMachineIdentifier(d) ==
    /\ At(Sweep, d, "identity", "plex")
    /\ \/ Ok(Sweep, d) /\ Goto(Sweep, d, "look") /\ UNCHANGED loc
       \/ Err(Sweep, d, "net") /\ Stop(Sweep, d, "failed")
    /\ UNCHANGED serverVars

(* Each book is added; one that cannot be is logged and passed over.       *)
PlexAddAgain(d) ==
    /\ At(Sweep, d, "add", "plex") /\ Me(Sweep, d).todo # {}
    /\ LET b == FirstOf(Me(Sweep, d).todo)
       IN  /\ \/ Ok(Sweep, d) /\ PutInBox(d, Me(Sweep, d).box, Me(Sweep, d).ids[b])
              \/ Err(Sweep, d, "net") /\ UNCHANGED boxes
           /\ Set(Sweep, d, [todo |-> Me(Sweep, d).todo \ {b}])
    /\ UNCHANGED <<pc, indexed, tagged>>

PlexReconcile(d) ==
    \/ PlexListAlbums(d) \/ PlexSeries(d) \/ PlexMachineIdentifier(d)
    \/ PlexFindCollection(Sweep, d) \/ PlexCreateCollection(Sweep, d)
    \/ PlexAddAgain(d)
=============================================================================
