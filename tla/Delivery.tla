----------------------------- MODULE Delivery -----------------------------
(***************************************************************************)
(* Delivery of books to media servers: the fan-out of each book the        *)
(* pipeline has organized, the sweep in which a sync asks every server to  *)
(* scan and then reconciles it, and the servers indexing on their own.     *)
(*                                                                         *)
(* Source: internal/library/destinations.go, the fan-out calls of          *)
(* pipeline_stages.go, the sync callbacks of internal/web/server.go and    *)
(* internal/mediaserver/.  Destination rows and their HearthShelf keys are *)
(* in HearthShelf.tla.                                                     *)
(***************************************************************************)
EXTENDS Plex, Emby, Jellyfin, Audiobookshelf

VARIABLES
    visited,   \* the book of each fan-out
    phase,     \* what the sync is at: "idle", "scan" or "reconcile"
    sweeps,    \* sweeps begun
    stirred    \* history: books whose row a fan-out wrote during this sweep

vars == <<kind, serverVars, complete, rows, workerVars, cancelled, hurt, budget,
          visited, phase, sweeps, stirred>>

CONSTANTS
    Old,       \* books that were complete before the destinations were added
    Sweeps,    \* bound: how many there are
    Wide,      \* bound: faults in all, with more than one destination
    AtOnce     \* bound: how many fan-outs overlap; a sweep overlaps with any

ASSUME DeliveryAssumption ==
    /\ Sweeps \in Nat /\ AtOnce \in Nat \ {0}
    /\ Old \subseteq Books /\ Wide \in Nat

Enabled  == {d \in Dests : kind[d] # "off"}
Resting  == {"idle", "done", "failed"}
Working(v) == {d \in Dests : pc[v][d] \notin Resting \cup {"queued"}}
Ended(f) == visited[f] # NoBook /\ \A d \in Dests : pc[f][d] \in Resting

Room == Cardinality({f \in Fans : visited[f] # NoBook /\ ~Ended(f)}) < AtOnce

flowVars == <<kind, visited, phase, sweeps, cancelled>>

-----------------------------------------------------------------------------
(* FanOut: ListEnabled, then a worker per destination, so many at a time.  *)
(* Without the list there is no fan-out.  A book may be organized again.   *)
FanOut(f, b) ==
    /\ visited[f] = NoBook /\ \A g \in Fans : g < f => visited[g] # NoBook
    /\ Room
    /\ visited' = [visited EXCEPT ![f] = b]
    /\ complete' = complete \cup {b}
    /\ \/ /\ pc' = [pc EXCEPT ![f] = [d \in Dests |->
                        IF d \in Enabled THEN "queued" ELSE "done"]]
          /\ loc' = [loc EXCEPT ![f] = [d \in Dests |->
                        IF d \in Enabled THEN [Fresh EXCEPT !.book = b] ELSE Fresh]]
          /\ UNCHANGED <<cancelled, budget>>
       \/ /\ Spend("db")
          /\ pc' = [pc EXCEPT ![f] = [d \in Dests |-> "done"]]
          /\ UNCHANGED <<loc, cancelled>>
    /\ UNCHANGED <<kind, serverVars, rows, hurt, phase, sweeps, stirred>>

(* The loop over the destinations waits for the semaphore at each.         *)
MutAcquire(v, d) ==
    /\ pc[v][d] = "queued" /\ v \notin cancelled
    /\ Goto(v, d, IF v # Sweep THEN "scan"
                  ELSE IF phase = "scan" THEN "refresh" ELSE "list")
    /\ UNCHANGED <<flowVars, serverVars, complete, rows, loc, hurt, budget, stirred>>
Acquire(v, d) ==
    /\ pc[v][d] = "queued" /\ v \notin cancelled
    /\ \A e \in Dests : e < d => pc[v][e] # "queued"
    /\ Cardinality(Working(v)) < MaxConcurrency
    /\ Goto(v, d, IF v # Sweep THEN "scan"
                  ELSE IF phase = "scan" THEN "refresh" ELSE "list")
    /\ UNCHANGED <<flowVars, serverVars, complete, rows, loc, hurt, budget, stirred>>

(* The two minutes of a visit, or the cap of a sweep's worker, are over.   *)
Expire(v, d) ==
    /\ d \in Working(v) /\ ~Me(v, d).cut
    /\ Spend("time")
    /\ Set(v, d, [cut |-> TRUE])
    /\ UNCHANGED <<flowVars, serverVars, complete, rows, pc, hurt, stirred>>

(* The context of a conversion's fan-out is cancelled: what is queued is   *)
(* given up, what runs finds every call failing, the database too.         *)
Cancel(f) ==
    /\ visited[f] # NoBook /\ ~Ended(f) /\ f \notin cancelled
    /\ Spend("cancel")
    /\ cancelled' = cancelled \cup {f}
    /\ pc' = [pc EXCEPT ![f] = [d \in Dests |->
                  IF @[d] = "queued" THEN "done" ELSE @[d]]]
    /\ loc' = [loc EXCEPT ![f] = [d \in Dests |->
                  IF pc[f][d] \in Resting \cup {"queued"} THEN Fresh
                  ELSE [@[d] EXCEPT !.cut = TRUE]]]
    /\ UNCHANGED <<kind, visited, phase, sweeps, serverVars, complete, rows, hurt,
                   stirred>>

Visit(v, d) ==
    /\ PlexVisit(v, d) \/ EmbyVisit(v, d) \/ JellyfinVisit(v, d) \/ AbsVisit(v, d)
    /\ UNCHANGED <<flowVars, complete, rows, stirred>>

(* recordOutcomes reads the row; a row that cannot be read is taken for    *)
(* none, and the new one replaces it.                                      *)
RecordRead(f, d) ==
    /\ pc[f][d] = "read"
    /\ \/ /\ UNCHANGED budget
          /\ Set(f, d, [row |-> rows[visited[f]][d]])
          /\ Goto(f, d, "write") /\ f \notin cancelled
       \/ f \notin cancelled /\ Spend("db") /\ Goto(f, d, "write") /\ UNCHANGED loc
       \/ f \in cancelled /\ UNCHANGED budget /\ Stop(f, d, "done")
    /\ UNCHANGED <<flowVars, serverVars, complete, rows, hurt, stirred>>

(* UpsertBookDestination, in the fan-out's context, not in the worker's    *)
(* with its deadline.                                                      *)
RecordWrite(f, d) ==
    /\ pc[f][d] = "write"
    /\ \/ /\ f \notin cancelled
          /\ rows' = [rows EXCEPT ![visited[f]][d] =
                         Recorded(Me(f, d).row, Me(f, d).ops, Me(f, d).item)]
          /\ stirred' = IF phase = "idle" THEN stirred ELSE stirred \cup {visited[f]}
          /\ UNCHANGED budget
       \/ /\ IF f \in cancelled THEN UNCHANGED budget ELSE Spend("db")
          /\ UNCHANGED <<rows, stirred>>
    /\ Stop(f, d, "done")
    /\ UNCHANGED <<flowVars, serverVars, complete, hurt>>

-----------------------------------------------------------------------------
(* The sweep: TriggerScanAllWithFn, then ReconcileAllWithFn *)

QueueSweep(p) ==
    /\ phase' = p
    /\ pc' = [pc EXCEPT ![Sweep] = [d \in Dests |->
                  IF d \in Enabled THEN "queued" ELSE "done"]]
    /\ loc' = [loc EXCEPT ![Sweep] = [d \in Dests |-> Fresh]]

StartSweep ==
    /\ phase = "idle" /\ sweeps < Sweeps /\ Enabled # {}
    /\ sweeps' = sweeps + 1
    /\ QueueSweep("scan")
    /\ hurt' = {} /\ stirred' = {}
    /\ UNCHANGED <<kind, serverVars, complete, rows, cancelled, budget, visited>>

(* TriggerLibraryScan, and the count of items after it                     *)
Refresh(d) ==
    /\ pc[Sweep][d] = "refresh"
    /\ \/ Ok(Sweep, d) /\ Stop(Sweep, d, "done")
       \/ Err(Sweep, d, "net") /\ Stop(Sweep, d, "failed")
    /\ UNCHANGED <<flowVars, serverVars, complete, rows, stirred>>

SweepRests == \A d \in Dests : pc[Sweep][d] \in Resting
StartReconcile ==
    /\ phase = "scan" /\ SweepRests
    /\ QueueSweep("reconcile")
    /\ hurt' = {} /\ stirred' = {}
    /\ UNCHANGED <<kind, serverVars, complete, rows, cancelled, budget, visited,
                   sweeps>>
EndSweep ==
    /\ phase = "reconcile" /\ SweepRests
    /\ phase' = "idle"
    /\ pc' = [pc EXCEPT ![Sweep] = [d \in Dests |-> "idle"]]
    /\ hurt' = {} /\ stirred' = {}
    /\ UNCHANGED <<kind, serverVars, complete, rows, loc, cancelled, budget,
                   visited, sweeps>>

(* The backend's own calls                                                 *)
ReconcileCalls(d) ==
    /\ \/ PlexReconcile(d) \/ EmbyReconcile(d) \/ JellyfinListAudioBooks(d)
       \/ AbsListItems(d)
    /\ UNCHANGED <<flowVars, complete, rows, stirred>>

(* The loops over the listed items and, for each, over the books with its  *)
(* title: the items of one title come in any order, the rest in a fixed    *)
(* one.  The deadline is looked at before an item, not before a book.      *)
NextItems(d) ==
    LET items == {p[1] : p \in Me(Sweep, d).pairs}
    IN  IF Me(Sweep, d).item \in items THEN {Me(Sweep, d).item}
        ELSE IF Me(Sweep, d).cut \/ items = {} THEN {}
        ELSE items \cap Named(FirstOf(items))

(* upsertBookDestinationItem: the row of a matched book is read,           *)
MatchRead(d) ==
    /\ pc[Sweep][d] = "matching"
    /\ \E i \in NextItems(d) :
          LET b == FirstOf({c \in Books : <<i, c>> \in Me(Sweep, d).pairs})
          IN  \/ /\ Ok(Sweep, d)
                 /\ Set(Sweep, d, [item |-> i, book |-> b, row |-> rows[b][d]])
                 /\ Goto(Sweep, d, "matched")
              \/ /\ Err(Sweep, d, "db")
                 /\ Set(Sweep, d, [item  |-> i,
                                   pairs |-> Me(Sweep, d).pairs \ {<<i, b>>}])
                 /\ UNCHANGED pc
    /\ UNCHANGED <<flowVars, serverVars, complete, rows, stirred>>

(* changed and written back whole; a failure is logged.                    *)
MatchWrite(d) ==
    /\ pc[Sweep][d] = "matched"
    /\ LET b == Me(Sweep, d).book
           i == Me(Sweep, d).item
       IN  /\ \/ /\ Ok(Sweep, d)
                 /\ rows' = [rows EXCEPT ![b][d] = WithItem(Me(Sweep, d).row, i)]
              \/ Err(Sweep, d, "db") /\ UNCHANGED rows
           /\ Set(Sweep, d, [book |-> NoBook, row |-> NoRow,
                             pairs |-> Me(Sweep, d).pairs \ {<<i, b>>}])
    /\ Goto(Sweep, d, "matching")
    /\ UNCHANGED <<flowVars, serverVars, complete, stirred>>

(* Every listed item has been looked at: Plex and Emby go on to the        *)
(* collections; or the deadline has passed before that.                    *)
Matched(d) ==
    /\ pc[Sweep][d] = "matching"
    /\ \/ /\ Me(Sweep, d).pairs = {}
          /\ IF kind[d] \in {"plex", "emby"}
             THEN Goto(Sweep, d, "load") /\ Set(Sweep, d, [item |-> NoItem])
             ELSE Stop(Sweep, d, "done")
       \/ /\ Me(Sweep, d).pairs # {} /\ NextItems(d) = {}
          /\ Stop(Sweep, d, "failed")
    /\ UNCHANGED <<flowVars, serverVars, complete, rows, hurt, budget, stirred>>

(* ReconcileLibrary returns nil after the last series.                     *)
Reconciled(d) ==
    /\ pc[Sweep][d] = "add" /\ Me(Sweep, d).todo = {}
    /\ Stop(Sweep, d, "done")
    /\ UNCHANGED <<flowVars, serverVars, complete, rows, hurt, budget, stirred>>

SweepStep(d) ==
    \/ Acquire(Sweep, d) \/ Refresh(d) \/ ReconcileCalls(d) \/ MatchRead(d)
    \/ MatchWrite(d) \/ Matched(d) \/ Reconciled(d)

-----------------------------------------------------------------------------
(* The servers, and a restart of the program *)

(* A server indexes a book it finds on disk when it likes; ABS may take    *)
(* the series from the file's tags.                                        *)
Index(d, b) ==
    /\ d \in Enabled /\ b \in complete \ indexed[d]
    /\ indexed' = [indexed EXCEPT ![d] = @ \cup {b}]
    /\ IF kind[d] = "abs" /\ b \in InSeries
       THEN tagged' \in {tagged, [tagged EXCEPT ![d] = @ \cup {b}]}
       ELSE UNCHANGED tagged
    /\ UNCHANGED <<flowVars, boxes, complete, rows, workerVars, hurt, budget, stirred>>

(* Nothing remembers a fan-out or a sweep that was under way.              *)
Crash ==
    /\ Spend("crash")
    /\ phase' = "idle"
    /\ cancelled' = cancelled \cup {f \in Fans : visited[f] # NoBook /\ ~Ended(f)}
    /\ pc' = [v \in Visits |-> [d \in Dests |->
                 IF v # Sweep /\ visited[v] # NoBook THEN "done" ELSE "idle"]]
    /\ loc' = [v \in Visits |-> [d \in Dests |-> Fresh]]
    /\ hurt' = {} /\ stirred' = {}
    /\ UNCHANGED <<kind, serverVars, complete, rows, visited, sweeps>>

-----------------------------------------------------------------------------
(* Nothing was delivered yet, or every book was and its item not found.    *)
FailedBefore == Recorded(NoRow, [NoRow.ops EXCEPT !["scan"] = "ok",
                    !["match"] = "failed", !["group"] = "deferred"], NoItem)

Init ==
    /\ kind \in Layouts
    /\ indexed = [d \in Dests |-> {}]
    /\ boxes = [d \in Dests |-> <<>>]
    /\ tagged = [d \in Dests |-> {}]
    /\ complete = Old
    /\ rows \in [Books -> [Dests -> {NoRow}]] \cup
                [Books -> [Dests -> {FailedBefore}]]
    /\ pc = [v \in Visits |-> [d \in Dests |-> "idle"]]
    /\ loc = [v \in Visits |-> [d \in Dests |-> Fresh]]
    /\ cancelled = {} /\ hurt = {}
    /\ budget = IF Cardinality(Enabled) <= 1 THEN Budget
                ELSE [Budget EXCEPT !["any"] = Wide]
    /\ visited = [f \in Fans |-> NoBook]
    /\ phase = "idle" /\ sweeps = 0 /\ stirred = {}

FanStep(f, d) == Acquire(f, d) \/ Visit(f, d) \/ RecordRead(f, d) \/ RecordWrite(f, d)

Finished == (\A f \in Fans : Ended(f)) /\ phase = "idle" /\ sweeps = Sweeps
            /\ UNCHANGED vars

Next ==
    \/ \E f \in Fans :
          \/ \E b \in Books : FanOut(f, b)
          \/ Cancel(f)
          \/ \E d \in Dests : FanStep(f, d)
    \/ StartSweep \/ StartReconcile \/ EndSweep
    \/ \E d \in Dests : SweepStep(d)
    \/ \E v \in Visits, d \in Dests : Expire(v, d)
    \/ \E d \in Dests, b \in Books : Index(d, b)
    \/ Crash
    \/ Finished

Spec == Init /\ [][Next]_vars

(* Goroutines run, and a wait for an album ends by itself.                 *)
FairSpec ==
    /\ Spec
    /\ \A f \in Fans, d \in Dests : WF_vars(FanStep(f, d))
    /\ \A d \in Dests : WF_vars(SweepStep(d))
    /\ WF_vars(StartReconcile) /\ WF_vars(EndSweep)

-----------------------------------------------------------------------------
(* Properties *)

RowType == [state : States, tries : 0..Cardinality(Fans) + 1, item : Items,
            error : BOOLEAN, ops : [Ops -> Status]]

DeliveryTypeOK ==
    /\ kind \in Layouts
    /\ indexed \in [Dests -> SUBSET Books] /\ tagged \in [Dests -> SUBSET Items]
    /\ \A d \in Dests : boxes[d] \in Seq(SUBSET Items)
    /\ complete \subseteq Books
    /\ \A b \in Books, d \in Dests : rows[b][d] \in RowType
    /\ \A v \in Visits, d \in Dests :
          /\ Me(v, d).book \in Books \cup {NoBook} /\ Me(v, d).item \in Items
          /\ Me(v, d).box \in 0..Len(boxes[d]) /\ Me(v, d).row \in RowType
          /\ Me(v, d).todo \subseteq Books /\ Me(v, d).pairs \subseteq Books \X Books
    /\ \A v \in Visits : Cardinality(Working(v)) <= MaxConcurrency

(* When a fan-out has ended, each of its destinations has a row for the    *)
(* book, also those whose two minutes were over: recordOutcomes does not   *)
(* write in the context that has the deadline (destinations.go:150).       *)
Answered ==
    \A f \in Fans :
       Ended(f) /\ f \notin cancelled /\ budget["db"] = Budget["db"] =>
          \A d \in Enabled : rows[visited[f]][d] # NoRow

InGroup(d, i) == IF kind[d] = "abs" THEN i \in tagged[d]
                 ELSE \E n \in DOMAIN boxes[d] : i \in boxes[d][n]

(* Items other than its row's that a visit may have grouped for a book:    *)
(* those of other books whose titles are longer, and where another book    *)
(* has its title, either's.                                                *)
Lookalikes(b) == Within[b] \cup IF Named(b) = {b} THEN {} ELSE Named(b)

(* A row that says the series grouping succeeded names an item that is in  *)
(* the series on the server, whatever fan-outs and reconciles have written *)
(* the row since.  Where the visit took another book's longer title for    *)
(* the book's, that book's item is, and the row may have been put right;   *)
(* of books with one title, a reconcile lets all the rows name one item,   *)
(* the last it listed, and it is one item of the title that is in the      *)
(* series.                                                                 *)
GroupIsTrue ==
    \A b \in Books, d \in Dests :
       rows[b][d].ops["group"] = "ok" =>
          \E i \in {rows[b][d].item} \cup Lookalikes(b) : InGroup(d, i)

(* A row is synced only if none of the outcomes in it failed: a reconcile  *)
(* that finds the item promotes a pending row, not a failed one            *)
(* (destination_ids.go:41).                                                *)
SyncedIsHonest ==
    \A b \in Books, d \in Dests :
       rows[b][d].state = "synced" =>
          \A o \in Ops : rows[b][d].ops[o] # "failed"

(* Together: what a book's rows say of its destinations is so.             *)
TruthfulRow == Answered /\ GroupIsTrue /\ SyncedIsHonest

(* A Plex or Emby reconcile none of whose calls failed leaves every        *)
(* complete book of the series that it listed in a collection, whatever    *)
(* was left by fan-outs that failed, were cut short or lost in a restart;  *)
(* books whose row a fan-out rewrote meanwhile excepted.  Of books with    *)
(* one title, one item listed is: every one of their rows names the last   *)
(* item of the title (plex.go:216), and the others are never added.        *)
ReconcilePopulates ==
    [][\A d \in Dests :
          /\ kind[d] \in {"plex", "emby"} /\ d \notin hurt /\ ~Me(Sweep, d).cut
          /\ pc[Sweep][d] = "add" /\ pc'[Sweep][d] = "done"
          => \A b \in (Me(Sweep, d).list \cap complete \cap InSeries) \ stirred :
                \E i \in Named(b) \cap Me(Sweep, d).list : InGroup(d, i)]_vars

(* Every fan-out ends, and so does every sweep: again and again none is    *)
(* under way, and a server that never answers, or never indexes a book,    *)
(* cannot hold the workers for ever.                                       *)
FanOutsEnd ==
    []<>(phase = "idle" /\ \A f \in Fans : visited[f] # NoBook => Ended(f))

=============================================================================
