-------------------------- MODULE Audiobookshelf --------------------------
(***************************************************************************)
(* The Audiobookshelf (and HearthShelf) backend: items are found by ASIN,  *)
(* and a series is metadata of the item, not a collection.                 *)
(* Source: internal/mediaserver/abs.go.                                    *)
(***************************************************************************)
EXTENDS MediaServer

(* triggerLibraryScan                                                      *)
AbsScan(v, d) ==
    /\ At(v, d, "scan", "abs")
    /\ \/ Ok(v, d) /\ Say(v, d, [scan |-> "ok"])
       \/ Err(v, d, "net") /\ Say(v, d, [scan |-> "failed"])
    /\ Goto(v, d, AfterScan(v, d))
    /\ UNCHANGED serverVars

(* findItemByASIN: the book's own item and no other                        *)
AbsFindItem(d, b) == {b} \cap indexed[d]

(* waitForItemByASIN: not found yet, the match is deferred, not failed.    *)
AbsWaitForItem(v, d) ==
    /\ At(v, d, "match", "abs")
    /\ \/ /\ Ok(v, d)
          /\ \E i \in AbsFindItem(d, Me(v, d).book) :
                SayOf(v, d, i, [match |-> "ok"])
          /\ Goto(v, d, IF Me(v, d).book \in InSeries THEN "look" ELSE "read")
       \/ /\ \/ Ok(v, d) /\ AbsFindItem(d, Me(v, d).book) = {}
             \/ Err(v, d, "net")
          /\ Say(v, d, [match |-> "deferred", group |-> "deferred"])
          /\ Goto(v, d, "read")
    /\ UNCHANGED serverVars

(* itemHasSeries: an error counts as no.                                   *)
AbsItemHasSeries(v, d) ==
    /\ At(v, d, "look", "abs")
    /\ \/ /\ Ok(v, d) /\ Me(v, d).item \in tagged[d]
          /\ Say(v, d, [group |-> "existing"]) /\ Goto(v, d, "read")
       \/ /\ \/ Ok(v, d) /\ Me(v, d).item \notin tagged[d]
             \/ Err(v, d, "net")
          /\ Goto(v, d, "tag") /\ UNCHANGED loc
    /\ UNCHANGED serverVars

(* patchItemSeries                                                         *)
AbsPatchSeries(v, d) ==
    /\ At(v, d, "tag", "abs")
    /\ \/ /\ Ok(v, d)
          /\ tagged' = [tagged EXCEPT ![d] = @ \cup {Me(v, d).item}]
          /\ Say(v, d, [group |-> "ok"])
       \/ /\ Err(v, d, "net")
          /\ UNCHANGED tagged
          /\ Say(v, d, [group |-> "failed"])
    /\ Goto(v, d, "read")
    /\ UNCHANGED <<indexed, boxes>>

AbsVisit(v, d) ==
    \/ AbsScan(v, d) \/ AbsWaitForItem(v, d) \/ AbsItemHasSeries(v, d)
    \/ AbsPatchSeries(v, d)

(* ReconcileLibrary: listAllItems, and every local book with the ASIN of   *)
(* an item, complete or not                                                *)
AbsListItems(d) ==
    /\ At(Sweep, d, "list", "abs")
    /\ \/ /\ Ok(Sweep, d)
          /\ Set(Sweep, d, [list  |-> indexed[d],
                            pairs |-> {<<b, b>> : b \in indexed[d]}])
          /\ Goto(Sweep, d, "matching")
       \/ Err(Sweep, d, "net") /\ Stop(Sweep, d, "failed")
    /\ UNCHANGED serverVars
=============================================================================
