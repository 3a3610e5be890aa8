------------------------- MODULE LibrarySyncProofs -------------------------
(* One sync at a time, none left open, and no listed book pruned: the      *)
(* inductive invariant of LibrarySync and what follows from it.            *)
EXTENDS LibrarySync, TLAPS, WellFoundedInduction

-----------------------------------------------------------------------------
(* The inductive invariant *)

(* In the part of a run that merges the accounts' books.                   *)
AudiblePCs == {"record", "fetch", "books", "write", "prune"}
ServerPhases == {"metadata_repair", "plex_sync", "collection_sync"}

(* Where a run is says what was asked for.                                 *)
Fits(l, k) ==
    /\ l # "idle" => k \in SyncModes \cup Phases
    /\ l \in AudiblePCs => k \in SyncModes \cup {"audible_sync"}
    /\ l = "file_scan" => k \in SyncModes \cup {"file_scan"}
    /\ l \in ServerPhases => k \in {"full", l}
    /\ l \in {"finish", "queue"} => k \in SyncModes
KindFits == \A r \in Runners : Fits(pc[r], kind[r])

(* A phase is shown running only while a run is in it.                     *)
InPhase(r, p) ==
    IF p = "audible_sync"
    THEN pc[r] \in AudiblePCs /\ (pc[r] = "record" => kind[r] \notin SyncModes)
    ELSE pc[r] = p /\ kind[r] # "quick"
PhaseHeld ==
    /\ shown = "running" => running
    /\ \A p \in Phases : phaseSt[p] = "running" => \E r \in Runners : InPhase(r, p)

(* The newest row is open only while the run that wrote it is on its way.  *)
Recorded(r) ==
    /\ InSync(r) /\ pc[r] # "record"
    /\ kind[r] \in SyncModes \cup {"audible_sync"} /\ r \notin unrecorded
RecordHeld ==
    /\ history = "running" => lost \/ \E r \in Runners : Recorded(r)
    /\ \A r \in unrecorded : pc[r] \in AudiblePCs \ {"record"} /\ kind[r] = "audible_sync"

(* What a run is still to look at, and the entry it is at, was listed to   *)
(* it by some account.                                                     *)
EntryListed(r) ==
    /\ todo[r] # {} => pc[r] \in {"books", "write"}
    /\ todo[r] \subseteq Entries(r)
    /\ pc[r] = "write" <=> reading[r] # NotReading
    /\ pc[r] = "write" => reading[r].book \in Entries(r) \cap Books
    /\ reading[r].st = "unread" => reading[r].book \in barred[r] /\ ~reading[r].path
EntriesListed == \A r \in Runners : EntryListed(r)

(* A book that every fetch was sure to list is still to be fetched, still  *)
(* to be looked at, or kept; it is never among the doomed.                 *)
Kept(r) ==
    /\ doomed[r] # {} => pc[r] = "prune"
    /\ doomed[r] \cap clean[r] = {}
    /\ pc[r] = "fetch" => \A b \in clean[r] : \E a \in Accounts :
          b \in IF a \in targets[r] THEN shelf[a] ELSE fetched[r][a]
    /\ pc[r] \in {"books", "write"} => \A b \in clean[r] :
          \/ b \in todo[r] \cup keep[r]
          \/ b = reading[r].book /\ b \in barred[r]
CleanKept == \A r \in Runners : Kept(r)

SyncInv ==
    /\ SyncTypeOK /\ KindFits /\ Exclusive /\ PhaseHeld /\ RecordHeld
    /\ EntriesListed /\ CleanKept
-----------------------------------------------------------------------------
(* The model's operators *)

(* The first account of a set that has one is in the set.                  *)
LEMMA FirstOfSet ==
    ASSUME NEW S \in SUBSET Accounts, S # {}
    PROVE  FirstOf(S) \in S
<1> DEFINE Less == OpToRel(<, Nat)
<1>1. IsWellFoundedOn(Less, Nat)
  BY NatLessThanWellFounded
<1>2. S \subseteq Nat
  BY LibrarySyncAssumption
<1>3. PICK a \in S : \A c \in S : ~ (<<c, a>> \in Less)
  <2> HIDE DEF Less
  <2> QED BY <1>1, <1>2, WFMin
<1>4. ASSUME NEW c \in S, c < a
      PROVE  FALSE
  <2>1. <<c, a>> \in Nat \X Nat /\ <<c, a>>[1] < <<c, a>>[2]
    BY <1>2, <1>4
  <2>2. <<c, a>> \in Less
    BY <2>1, Zenon DEF OpToRel
  <2> QED BY <1>3, <2>2
<1>5. \A c \in S : a <= c
  BY <1>2, <1>4
<1> QED BY <1>5 DEF FirstOf

(* A start sets no phase running but the one asked for.                    *)
LEMMA AtStart ==
    ASSUME phaseSt \in [Phases -> PhaseStatus], NEW k \in SyncModes \cup Phases
    PROVE  /\ PhasesAtStart(k) \in [Phases -> PhaseStatus]
           /\ \A p \in Phases : PhasesAtStart(k)[p] = "running" =>
                 phaseSt[p] = "running" \/ (p = k /\ k \notin SyncModes)
<1>1. CASE k = "full"
  BY <1>1 DEF PhasesAtStart, PhaseStatus
<1>2. CASE k = "quick"
  <2>1. PhasesAtStart(k) = [p \in Phases |->
            IF p = "audible_sync" THEN "pending"
            ELSE IF shown = "" THEN "skipped" ELSE phaseSt[p]]
    BY <1>2 DEF PhasesAtStart
  <2> QED BY <1>2, <2>1 DEF PhaseStatus
<1>3. CASE k \notin SyncModes
  <2>1. PhasesAtStart(k) = [phaseSt EXCEPT ![k] = "running"]
    BY <1>3 DEF PhasesAtStart, SyncModes
  <2> QED BY <1>3, <2>1 DEF PhaseStatus
<1> QED BY <1>1, <1>2, <1>3 DEF SyncModes

(* Books of a row that has a path are present, before and after a scan;    *)
(* a scan makes no row and takes none away.                                *)
LEMMA ReconcileKeeps ==
    ASSUME SyncTypeOK, Reconcile \/ QueueNewBooks
    PROVE  /\ bookSt' \in [Books -> BookStatus]
           /\ \A b \in Books : bookSt'[b] = "absent" <=> bookSt[b] = "absent"
           /\ hasPath' \subseteq Present'
<1>1. \A b \in Books : /\ Reconciled(b) \in BookStatus
                       /\ Reconciled(b) = "absent" <=> bookSt[b] = "absent"
  BY DEF SyncTypeOK, CatalogueTypes, Reconciled, BookStatus
<1>2. CASE Reconcile
  BY <1>1, <1>2 DEF Reconcile, SyncTypeOK, CatalogueTypes, Present, BookStatus
<1>3. CASE QueueNewBooks
  BY <1>1, <1>3 DEF QueueNewBooks, SyncTypeOK, CatalogueTypes, Present, BookStatus
<1> QED BY <1>2, <1>3

(* A spent event leaves a bound that is one.                               *)
LEMMA Spent ==
    ASSUME SyncTypeOK, NEW k \in Events, Spend(k)
    PROVE  budget' \in [Events -> Nat]
<1>1. budget \in [Events -> Nat]
  BY DEF SyncTypeOK, ProgressTypes
<1>2. budget[k] - 1 \in Nat /\ budget["any"] - 1 \in Nat
  BY <1>1 DEF Spend, Events
<1> QED BY <1>1, <1>2 DEF Spend, Events

-----------------------------------------------------------------------------
(* Types *)

(* What the fetches and the merge of a run write.                          *)
LEMMA MergeStepTypes ==
    ASSUME SyncInv, NEW r \in Runners,
           \/ FetchAccount(r) \/ Merge(r) \/ WriteBook(r) \/ WriteFails(r) \/ ListForPrune(r)
           \/ \E b \in Books : ReadBook(r, b) \/ ReadFails(r, b) \/ PruneBook(r, b)
    PROVE  MergeTypes'
<1> USE DEF SyncInv, SyncTypeOK, MergeTypes
<1>1. CASE FetchAccount(r)
  <2>1. PICK a \in Accounts : /\ targets' = [targets EXCEPT ![r] = @ \ {a}]
                              /\ \E S \in SUBSET Books : fetched' = [fetched EXCEPT ![r][a] = S]
    <3>1. FirstOf(targets[r]) \in Accounts
      BY <1>1, FirstOfSet DEF FetchAccount
    <3>2. ShortListings(FirstOf(targets[r])) \subseteq SUBSET Books
          /\ shelf[FirstOf(targets[r])] \in SUBSET Books
      BY <3>1 DEF ShortListings, CatalogueTypes
    <3> QED BY <1>1, <3>1, <3>2 DEF FetchAccount
  <2>2. fetched' \in [Runners -> [Accounts -> SUBSET Books]]
    BY <2>1
  <2>3. targets' \in [Runners -> SUBSET Accounts]
    BY <2>1
  <2>4. clean' \in [Runners -> SUBSET Books]
    BY <1>1 DEF FetchAccount
  <2> QED BY <1>1, <2>2, <2>3, <2>4 DEF FetchAccount
<1>2. CASE Merge(r)
  <2>1. \A a \in Accounts : fetched[r][a] \subseteq Books
    OBVIOUS
  <2>2. Entries(r) \subseteq Books
    BY <2>1 DEF Entries
  <2> QED BY <1>2, <2>2 DEF Merge
<1>3. CASE WriteBook(r)
  <2>1. reading[r].book \in Books
    BY <1>3 DEF WriteBook, EntriesListed, EntryListed
  <2>2. NotReading \in EntryRead
    BY DEF NotReading, BookStatus, EntryRead
  <2> QED BY <1>3, <2>1, <2>2 DEF WriteBook
<1>4. CASE WriteFails(r)
  <2>1. NotReading \in EntryRead
    BY DEF NotReading, BookStatus, EntryRead
  <2> QED BY <1>4, <2>1 DEF WriteFails
<1>5. CASE ListForPrune(r)
  BY <1>5 DEF ListForPrune, Present
<1>6. ASSUME NEW b \in Books, ReadBook(r, b)
      PROVE  MergeTypes'
  <2>1. [book |-> b, st |-> bookSt[b], path |-> b \in hasPath]
            \in EntryRead
    BY DEF CatalogueTypes, EntryRead
  <2>2. reading' \in [Runners -> EntryRead]
    BY <1>6, <2>1 DEF ReadBook
  <2>3. keep' \in [Runners -> SUBSET Books]
    BY <1>6 DEF ReadBook
  <2>4. todo' \in [Runners -> SUBSET Books]
    BY <1>6 DEF ReadBook
  <2> QED BY <1>6, <2>2, <2>3, <2>4 DEF ReadBook
<1>7. ASSUME NEW b \in Books, ReadFails(r, b)
      PROVE  MergeTypes'
  <2>1. [book |-> b, st |-> "unread", path |-> FALSE] \in EntryRead
    BY DEF EntryRead
  <2>2. reading' \in [Runners -> EntryRead]
    BY <1>7, <2>1 DEF ReadFails
  <2> QED BY <1>7, <2>2 DEF ReadFails
<1>8. ASSUME NEW b \in Books, PruneBook(r, b)
      PROVE  MergeTypes'
  BY <1>8 DEF PruneBook
<1> QED BY <1>1, <1>2, <1>3, <1>4, <1>5, <1>6, <1>7, <1>8

(* What they write of the books: the row of an entry that some account     *)
(* listed, with a status; or they delete one.                              *)
LEMMA MergeStepCatalogue ==
    ASSUME SyncInv, NEW r \in Runners,
           \/ FetchAccount(r) \/ Merge(r) \/ WriteBook(r) \/ WriteFails(r) \/ ListForPrune(r)
           \/ \E b \in Books : ReadBook(r, b) \/ ReadFails(r, b) \/ PruneBook(r, b)
    PROVE  CatalogueTypes'
<1> USE DEF SyncInv, SyncTypeOK, CatalogueTypes, audibleVars, bookVars, jobVars, Present
<1>1. CASE UNCHANGED <<audibleVars, loaded, bookVars, jobVars>>
  BY <1>1
<1>2. CASE WriteBook(r)
  <2>1. PICK b \in Books : /\ b = reading[r].book /\ b \in Entries(r)
                           /\ reading[r].st = "unread" =>
                                 b \in barred[r] /\ ~reading[r].path
    BY <1>2 DEF WriteBook, EntriesListed, EntryListed
  <2>2. Listing(r, b) \in SUBSET Accounts /\ Listing(r, b) # {}
    BY <2>1 DEF Entries, Listing
  <2>3. FirstOf(Listing(r, b)) \in Accounts
    BY <2>2, FirstOfSet
  <2>4. StatusToWrite(r) \in BookStatus \ {"absent"}
    BY <2>1 DEF StatusToWrite, MergeTypes, BookStatus, EntryRead
  <2>5. routed' \in [Books -> Accounts \cup {NoAccount}] /\ owners' \in [Books -> SUBSET Accounts]
    BY <1>2, <2>1, <2>2, <2>3 DEF WriteBook, Stamp
  <2>6. bookSt' \in [Books -> BookStatus] /\ hasPath' \subseteq Present'
    BY <1>2, <2>1, <2>4 DEF WriteBook
  <2> QED BY <1>2, <2>5, <2>6 DEF WriteBook
<1>3. ASSUME NEW b \in Books, PruneBook(r, b)
      PROVE  CatalogueTypes'
  <2>1. CASE UNCHANGED <<bookSt, hasPath, routed, job>>
    BY <1>3, <2>1 DEF PruneBook
  <2>2. CASE DeleteBook(b)
    <3>1. bookSt' \in [Books -> BookStatus] /\ hasPath' \subseteq Present'
      BY <2>2 DEF DeleteBook, BookStatus
    <3>2. routed' \in [Books -> Accounts \cup {NoAccount}]
          /\ job' \in [Books -> {"none", "pending", "active"}]
      BY <2>2 DEF DeleteBook
    <3> QED BY <1>3, <3>1, <3>2 DEF PruneBook
  <2> QED BY <1>3, <2>1, <2>2 DEF PruneBook
<1> QED BY <1>1, <1>2, <1>3 DEF FetchAccount, Merge, WriteFails, ListForPrune, ReadBook,
           ReadFails

(* The steps of a run that fetch, merge, write and prune.                  *)
MergeStep(r) ==
    \/ FetchAccount(r) \/ Merge(r) \/ WriteBook(r) \/ WriteFails(r) \/ ListForPrune(r)
    \/ \E b \in Books : ReadBook(r, b) \/ ReadFails(r, b) \/ PruneBook(r, b)

(* They stay within the Audible phase and show nothing.                    *)
LEMMA MergeStepControl ==
    ASSUME SyncInv, NEW r \in Runners, MergeStep(r)
    PROVE  /\ \E l \in AudiblePCs \ {"record"} : /\ pc[r] \in AudiblePCs \ {"record"}
                                                 /\ pc' = [pc EXCEPT ![r] = l]
           /\ UNCHANGED <<kind, recordVars, shownVars, lost>>
           /\ \E k \in Events : UNCHANGED budget \/ Spend(k)
           /\ added' \in [Runners -> BOOLEAN] /\ failed' \in [Runners -> BOOLEAN]
<1> USE DEF SyncInv, SyncTypeOK, RunTypes, shownVars, recordVars, Goto, AudiblePCs, Events
<1>1. pc = [pc EXCEPT ![r] = pc[r]]
  OBVIOUS
<1>2. CASE FetchAccount(r) \/ Merge(r)
  BY <1>1, <1>2 DEF FetchAccount, Merge
<1>3. CASE WriteBook(r) \/ WriteFails(r) \/ ListForPrune(r)
  BY <1>3 DEF WriteBook, WriteFails, ListForPrune
<1>4. ASSUME NEW b \in Books, ReadBook(r, b)
      PROVE  added' \in [Runners -> BOOLEAN]
  BY <1>4 DEF ReadBook
<1>5. ASSUME NEW b \in Books, ReadBook(r, b) \/ ReadFails(r, b) \/ PruneBook(r, b)
      PROVE  /\ \E l \in AudiblePCs \ {"record"} : /\ pc[r] \in AudiblePCs \ {"record"}
                                                   /\ pc' = [pc EXCEPT ![r] = l]
             /\ UNCHANGED <<kind, recordVars, shownVars, lost>>
             /\ \E k \in Events : UNCHANGED budget \/ Spend(k)
             /\ added' \in [Runners -> BOOLEAN] /\ failed' \in [Runners -> BOOLEAN]
  BY <1>1, <1>4, <1>5 DEF ReadBook, ReadFails, PruneBook
<1> QED BY <1>2, <1>3, <1>5 DEF MergeStep

(* Every step of a run keeps the types of what is shown and of the run.    *)
LEMMA RunStepProgress ==
    ASSUME SyncInv, NEW r \in Runners, RunStep(r)
    PROVE  ProgressTypes' /\ RunTypes'
<1> USE DEF SyncInv, SyncTypeOK, recordVars, shownVars, Goto, SetPhase, RunPCs,
            ProgressTypes, RunTypes
<1>1. CASE MergeStep(r)
  <2>1. budget' \in [Events -> Nat]
    BY <1>1, MergeStepControl, Spent
  <2>2. pc' \in [Runners -> RunPCs]
    <3>1. PICK l \in AudiblePCs : pc' = [pc EXCEPT ![r] = l]
      BY <1>1, MergeStepControl
    <3>2. l \in RunPCs
      BY DEF AudiblePCs
    <3> HIDE DEF RunPCs
    <3> QED BY <3>1, <3>2
  <2>3. added' \in [Runners -> BOOLEAN] /\ failed' \in [Runners -> BOOLEAN]
        /\ UNCHANGED <<kind, recordVars, shownVars, lost>>
    BY <1>1, MergeStepControl
  <2> QED BY <2>1, <2>2, <2>3
<1>2. ASSUME StopHere(r)
      PROVE  RunTypes'
  BY <1>2 DEF StopHere
<1>3. CASE Refused(r)
  BY <1>2, <1>3 DEF Refused
<1>4. CASE Start(r)
  <2>1. kind[r] \in SyncModes \cup Phases
    BY <1>4 DEF Start, KindFits, Fits
  <2>2. PhasesAtStart(kind[r]) \in [Phases -> PhaseStatus]
    BY <2>1, AtStart
  <2> QED BY <1>4, <2>1, <2>2 DEF Start, Begin, Phases, SyncModes
<1>5. CASE CreateRecord(r)
  <2>1. budget' \in [Events -> Nat]
    BY <1>5, Spent DEF CreateRecord, Events
  <2>2. RunTypes'
    BY <1>2, <1>5 DEF CreateRecord
  <2>3. phaseSt' \in [Phases -> PhaseStatus]
    BY <1>5 DEF CreateRecord, PhaseStatus
  <2> QED BY <1>5, <2>1, <2>2, <2>3 DEF CreateRecord
<1>6. ASSUME NEW s \in {"complete", "partial", "failed"}, CloseRecord(s)
      PROVE  /\ budget' \in [Events -> Nat] /\ lost' \in BOOLEAN
             /\ history' \in {"none", "running", "complete", "partial", "failed"}
  BY <1>6, Spent DEF CloseRecord, Events
<1>7. ASSUME NEW p \in Phases, NEW s \in {"complete", "failed"}, EndPhaseRun(r, p, s)
      PROVE  /\ RunTypes' /\ phaseSt' \in [Phases -> PhaseStatus]
             /\ running' \in BOOLEAN /\ shown' \in {"partial", "complete"}
  BY <1>2, <1>7 DEF EndPhaseRun, PhaseStatus
<1>8. Outcome(r) \in {"complete", "failed"} /\ OverallStatus(r) \in {"complete", "partial"}
  BY DEF Outcome, OverallStatus
<1>9. CASE AfterAudible(r)
  <2>1. phaseSt' \in [Phases -> PhaseStatus]
    BY <1>8, <1>9 DEF AfterAudible, PhaseStatus
  <2> QED BY <1>9, <2>1 DEF AfterAudible, Phases
<1>10. CASE EndAudiblePhase(r)
  BY <1>6, <1>7, <1>8, <1>10 DEF EndAudiblePhase, Phases
<1>11. CASE ScanFiles(r)
  <2>1. CASE kind[r] = "full"
    <3>1. /\ phaseSt' = [phaseSt EXCEPT !["file_scan"] = "complete",
                                        !["metadata_repair"] = "running"]
          /\ pc' = [pc EXCEPT ![r] = "metadata_repair"]
          /\ UNCHANGED <<running, shown, kind, added, failed, recordVars, lost, budget>>
      BY <1>11, <2>1 DEF ScanFiles
    <3>2. phaseSt' \in [Phases -> PhaseStatus]
      BY <3>1 DEF PhaseStatus
    <3> QED BY <3>1, <3>2 DEF Phases
  <2>2. CASE kind[r] = "quick"
    BY <1>11, <2>2 DEF ScanFiles
  <2>3. CASE kind[r] \notin SyncModes
    <3>1. EndPhaseRun(r, "file_scan", "complete") /\ UNCHANGED <<recordVars, lost, budget>>
      BY <1>11, <2>3 DEF ScanFiles, SyncModes
    <3> QED BY <1>7, <3>1 DEF Phases
  <2> QED BY <2>1, <2>2, <2>3 DEF SyncModes
<1>12. CASE ScanFails(r)
  <2>1. budget' \in [Events -> Nat]
    BY <1>12, Spent DEF ScanFails, Events
  <2>2. CASE kind[r] \in SyncModes
    <3>1. StopHere(r) /\ running' = FALSE /\ shown' = "failed" /\ history' = "failed"
      BY <1>12, <2>2 DEF ScanFails
    <3>2. phaseSt' \in [Phases -> PhaseStatus]
      BY <1>12, <2>2 DEF ScanFails, PhaseStatus
    <3> QED BY <1>2, <1>12, <2>1, <3>1, <3>2 DEF ScanFails
  <2>3. CASE kind[r] \notin SyncModes
    BY <1>7, <1>12, <2>1, <2>3 DEF ScanFails, Phases
  <2> QED BY <2>2, <2>3
<1>13. CASE ServerPhase(r)
  <2>1. budget' \in [Events -> Nat] /\ pc[r] \in Phases
    BY <1>13, Spent DEF ServerPhase, Events, Phases
  <2>2. PICK s \in {"complete", "failed"} :
            IF kind[r] # "full" THEN EndPhaseRun(r, pc[r], s)
            ELSE /\ IF pc[r] = "collection_sync"
                    THEN SetPhase(pc[r], s) /\ Goto(r, "finish")
                    ELSE /\ phaseSt' = [phaseSt EXCEPT ![pc[r]] = s,
                                           ![NextPhase[pc[r]]] = "running"]
                         /\ Goto(r, NextPhase[pc[r]])
                 /\ UNCHANGED <<running, shown, kind, added, failed>>
    BY <1>13 DEF ServerPhase
  <2>3. pc[r] # "collection_sync" => NextPhase[pc[r]] \in RunPCs
    <3>1. NextPhase["metadata_repair"] = "plex_sync"
          /\ NextPhase["plex_sync"] = "collection_sync"
      BY DEF NextPhase
    <3> QED BY <1>13, <3>1 DEF ServerPhase, Phases
  <2>4. phaseSt' \in [Phases -> PhaseStatus]
    BY <1>7, <2>1, <2>2 DEF PhaseStatus
  <2>5. RunTypes' /\ running' \in BOOLEAN
        /\ shown' \in {"", "running", "complete", "partial", "failed"}
    BY <1>7, <2>1, <2>2, <2>3
  <2> QED BY <1>13, <2>1, <2>4, <2>5 DEF ServerPhase
<1>14. CASE Finish(r)
  BY <1>2, <1>6, <1>8, <1>14 DEF Finish
<1>15. CASE QueueAfterSync(r)
  BY <1>2, <1>15, Spent DEF QueueAfterSync, Events
<1> QED BY <1>1, <1>3, <1>4, <1>5, <1>9, <1>10, <1>11, <1>12, <1>13, <1>14, <1>15
        DEF RunStep, MergeStep

(* Every step of a run keeps the types of the catalogue and of its merge.  *)
LEMMA RunStepTypes ==
    ASSUME SyncInv, NEW r \in Runners, RunStep(r)
    PROVE  SyncTypeOK'
<1> USE DEF SyncInv, SyncTypeOK, audibleVars, bookVars, jobVars, mergeVars
<1>1. CASE MergeStep(r)
  BY <1>1, MergeStepCatalogue, MergeStepTypes, RunStepProgress DEF MergeStep
<1>2. ASSUME UNCHANGED mergeVars \/ ClearMerge(r)
      PROVE  MergeTypes'
  <2>1. NotReading \in EntryRead
    BY DEF NotReading, EntryRead, BookStatus
  <2>2. [a \in Accounts |-> {}] \in [Accounts -> SUBSET Books]
    OBVIOUS
  <2>3. CASE ClearMerge(r)
    <3>1. fetched' \in [Runners -> [Accounts -> SUBSET Books]]
      BY <2>2, <2>3 DEF ClearMerge, MergeTypes
    <3>2. reading' \in [Runners -> EntryRead]
      BY <2>1, <2>3 DEF ClearMerge, MergeTypes
    <3> QED BY <2>3, <3>1, <3>2 DEF ClearMerge, MergeTypes
  <2> QED BY <1>2, <2>3 DEF MergeTypes
<1>3. ASSUME UNCHANGED <<audibleVars, loaded, bookVars, jobVars>>
      PROVE  CatalogueTypes'
  BY <1>3 DEF CatalogueTypes, Present
<1>4. CASE CreateRecord(r)
  <2>1. Listed \subseteq Books
    BY DEF Listed
  <2>2. MergeTypes'
    BY <1>4, <2>1 DEF CreateRecord, MergeTypes, CatalogueTypes
  <2> QED BY <1>3, <1>4, <2>2, RunStepProgress DEF CreateRecord
<1>5. CASE ScanFiles(r)
  <2>1. CatalogueTypes'
    BY <1>5, ReconcileKeeps DEF ScanFiles, CatalogueTypes
  <2> QED BY <1>2, <1>5, <2>1, RunStepProgress DEF ScanFiles
<1>6. CASE QueueAfterSync(r)
  <2>1. MergeTypes'
    BY <1>2, <1>6 DEF QueueAfterSync
  <2>2. CASE QueueNewBooks
    <3>1. job' \in [Books -> {"none", "pending", "active"}]
      BY <2>2 DEF QueueNewBooks, CatalogueTypes
    <3>2. CatalogueTypes'
      BY <1>6, <2>2, <3>1, ReconcileKeeps DEF QueueAfterSync, CatalogueTypes
    <3> QED BY <2>1, <3>2, RunStepProgress
  <2>3. CASE UNCHANGED <<bookSt, hasPath, job>>
    BY <1>3, <1>6, <2>1, <2>3, RunStepProgress DEF QueueAfterSync
  <2> QED BY <1>6, <2>2, <2>3 DEF QueueAfterSync
<1>7. CASE \/ Refused(r) \/ Start(r) \/ AfterAudible(r) \/ EndAudiblePhase(r)
           \/ ScanFails(r) \/ ServerPhase(r) \/ Finish(r)
  <2>1. UNCHANGED <<audibleVars, loaded, bookVars, jobVars>>
        /\ (UNCHANGED mergeVars \/ ClearMerge(r))
    BY <1>7 DEF Refused, Start, Begin, AfterAudible, EndAudiblePhase, ScanFails,
       ServerPhase, Finish
  <2> QED BY <1>2, <1>3, <2>1, RunStepProgress
<1> QED BY <1>1, <1>4, <1>5, <1>6, <1>7 DEF RunStep, MergeStep

(* Beside the runs, a step touches the catalogue, asks for a run, starts   *)
(* one or ends them all.                                                   *)
LEMMA BesideTypes ==
    ASSUME SyncInv, \/ Tick \/ TickSkipped \/ Environment \/ UNCHANGED vars
                    \/ \E b \in Books : JobStep(b)
    PROVE  SyncTypeOK'
<1> USE DEF SyncInv, SyncTypeOK, vars, audibleVars, bookVars, jobVars, recordVars,
            shownVars, mergeVars, runVars
<1>1. CASE TickSkipped \/ UNCHANGED vars
  BY <1>1 DEF TickSkipped, CatalogueTypes, Present, ProgressTypes, MergeTypes, RunTypes
<1>2. CASE Tick
  <2>1. PhasesAtStart(TimerMode) \in [Phases -> PhaseStatus]
    BY AtStart, LibrarySyncAssumption DEF ProgressTypes
  <2>2. ProgressTypes' /\ RunTypes'
    BY <1>2, <2>1, LibrarySyncAssumption
       DEF Tick, Begin, Goto, ProgressTypes, RunTypes, RunPCs, SyncModes
  <2> QED BY <1>2, <2>2 DEF Tick, Begin, CatalogueTypes, Present, MergeTypes
<1>3. ASSUME NEW q \in Users, NEW k \in Kinds, Ask(q, k)
      PROVE  SyncTypeOK'
  <2>1. RunTypes'
    BY <1>3 DEF Ask, Goto, RunTypes, Runners, RunPCs
  <2> QED BY <1>3, <2>1 DEF Ask, CatalogueTypes, Present, MergeTypes, ProgressTypes
<1>4. ASSUME NEW a \in Accounts, NEW b \in Books, ShelfChanges(a, b)
      PROVE  SyncTypeOK'
  <2>1. budget' \in [Events -> Nat]
    BY <1>4, Spent DEF ShelfChanges, Events
  <2>2. shelf' \in [Accounts -> SUBSET Books]
    BY <1>4 DEF ShelfChanges, CatalogueTypes
  <2>3. clean' \in [Runners -> SUBSET Books]
    BY <1>4 DEF ShelfChanges, MergeTypes
  <2> QED BY <1>4, <2>1, <2>2, <2>3
          DEF ShelfChanges, CatalogueTypes, Present, MergeTypes, ProgressTypes, RunTypes
<1>5. ASSUME NEW b \in Books, Flip(b) \/ QueueBook(b) \/ JobStep(b)
      PROVE  SyncTypeOK'
  <2>1. budget' \in [Events -> Nat]
    BY <1>5, Spent DEF Flip, QueueBook, JobStep, ClaimJob, DeliverJob, FailJob, Events,
       ProgressTypes
  <2>2. CatalogueTypes'
    <3>1. bookSt' \in [Books -> BookStatus] /\ hasPath' \subseteq Present'
      BY <1>5 DEF Flip, QueueBook, JobStep, ClaimJob, DeliverJob, FailJob, CatalogueTypes,
         Present, BookStatus
    <3>2. job' \in [Books -> {"none", "pending", "active"}] /\ files' \subseteq Books
          /\ ineligible' \subseteq Books
      BY <1>5 DEF Flip, QueueBook, JobStep, ClaimJob, DeliverJob, FailJob, CatalogueTypes
    <3> QED BY <1>5, <3>1, <3>2
            DEF Flip, QueueBook, JobStep, ClaimJob, DeliverJob, FailJob, CatalogueTypes
  <2>3. UNCHANGED <<recordVars, shownVars, runVars, lost>>
    BY <1>5 DEF Flip, QueueBook, JobStep, ClaimJob, DeliverJob, FailJob
  <2> QED BY <2>1, <2>2, <2>3 DEF MergeTypes, ProgressTypes, RunTypes
<1>6. ASSUME NEW a \in Accounts, RemoveAccount(a)
      PROVE  SyncTypeOK'
  <2>1. budget' \in [Events -> Nat]
    BY <1>6, Spent DEF RemoveAccount, Events
  <2> QED BY <1>6, <2>1
          DEF RemoveAccount, CatalogueTypes, Present, MergeTypes, ProgressTypes, RunTypes
<1>7. CASE CrashAndRestart
  <2>1. budget' \in [Events -> Nat]
    BY <1>7, Spent DEF CrashAndRestart, Events
  <2>2. job' \in [Books -> {"none", "pending", "active"}]
    BY <1>7 DEF CrashAndRestart
  <2>3. CatalogueTypes'
    BY <1>7, <2>2, ReconcileKeeps DEF CrashAndRestart, CatalogueTypes
  <2>4. MergeTypes'
    <3>1. NotReading \in EntryRead
      BY DEF NotReading, EntryRead, BookStatus
    <3> QED BY <1>7, <3>1 DEF CrashAndRestart, MergeTypes
  <2>5. ProgressTypes' /\ RunTypes'
    BY <1>7, <2>1 DEF CrashAndRestart, ProgressTypes, RunTypes, RunPCs, PhaseStatus
  <2> QED BY <2>3, <2>4, <2>5
<1>8. CASE Environment
  BY <1>3, <1>4, <1>5, <1>6, <1>7, <1>8
     DEF Environment, AskSync, AskPhase, AskAfterSetup
<1> QED BY <1>1, <1>2, <1>5, <1>8

-----------------------------------------------------------------------------
(* One sync at a time *)

Outside == {"idle", "asked", "queue"}
Control == KindFits /\ Exclusive /\ PhaseHeld /\ RecordHeld

(* A run moves to l, and is of kind k there.  The flag goes down with the  *)
(* sync that held it, a phase shown running is the run's own, and the open *)
(* record too, or else they were another's before.                         *)
LEMMA Moves ==
    ASSUME SyncInv, NEW r \in Runners, NEW l \in RunPCs, NEW k,
           pc' = [pc EXCEPT ![r] = l], kind' = [kind EXCEPT ![r] = k], Fits(l, k),
           \/ running' = TRUE /\ l \notin Outside /\ (running => InSync(r))
           \/ running' = FALSE /\ l \in Outside /\ (running => InSync(r))
           \/ running' = running /\ l \in Outside /\ ~InSync(r),
           shown' = "running" => running',
           \A p \in Phases : phaseSt'[p] = "running" =>
                 InPhase(r, p)' \/ (phaseSt[p] = "running" /\ ~InPhase(r, p)),
           history' = "running" =>
                 \/ lost' \/ Recorded(r)'
                 \/ history = "running" /\ ~lost /\ ~Recorded(r),
           unrecorded' \subseteq unrecorded \cup {r},
           r \in unrecorded' => l \in AudiblePCs \ {"record"} /\ k = "audible_sync"
    PROVE  Control'
<1> USE DEF SyncInv, SyncTypeOK, RunTypes, Outside
<1>1. \A q \in Runners : /\ pc'[q] = IF q = r THEN l ELSE pc[q]
                         /\ q # r => kind'[q] = kind[q]
  OBVIOUS
<1>2. kind'[r] = k
  OBVIOUS
<1>3. KindFits'
  BY <1>1, <1>2 DEF KindFits
<1>4. \A q \in Runners : InSync(q)' <=> IF q = r THEN l \notin Outside ELSE InSync(q)
  BY <1>1 DEF InSync
<1>5. Exclusive'
  <2>1. CASE running' = TRUE /\ l \notin Outside /\ (running => InSync(r))
    <3>1. \A q \in Runners : InSync(q) => q = r
      BY <2>1 DEF Exclusive
    <3> QED BY <1>4, <2>1, <3>1 DEF Exclusive
  <2>2. CASE running' = FALSE /\ l \in Outside /\ (running => InSync(r))
    <3>1. \A q \in Runners : InSync(q) => q = r
      BY <2>2 DEF Exclusive
    <3> QED BY <1>4, <2>2, <3>1 DEF Exclusive
  <2>3. CASE running' = running /\ l \in Outside /\ ~InSync(r)
    BY <1>4, <2>3 DEF Exclusive
  <2> QED BY <2>1, <2>2, <2>3
<1>6. \A q \in Runners, p \in Phases : q # r => (InPhase(q, p)' <=> InPhase(q, p))
  BY <1>1 DEF InPhase
<1>7. PhaseHeld'
  BY <1>6 DEF PhaseHeld
<1>8. \A q \in Runners : q # r /\ Recorded(q) => Recorded(q)'
  BY <1>1, <1>4 DEF Recorded
<1>9. \A q \in unrecorded' : pc'[q] \in AudiblePCs \ {"record"} /\ kind'[q] = "audible_sync"
  BY <1>1, <1>2 DEF RecordHeld, ProgressTypes
<1>10. RecordHeld'
  BY <1>8, <1>9 DEF RecordHeld
<1> QED BY <1>3, <1>5, <1>7, <1>10 DEF Control

(* A step that moves a run at most within the Audible phase, and shows     *)
(* nothing.                                                                *)
LEMMA Framed ==
    ASSUME SyncInv, UNCHANGED <<kind, recordVars, shownVars, lost>>,
           \A q \in Runners : \/ pc'[q] = pc[q]
                              \/ {pc[q], pc'[q]} \subseteq AudiblePCs \ {"record"}
    PROVE  Control'
<1> USE DEF SyncInv, SyncTypeOK, RunTypes, recordVars, shownVars
<1>1. \A q \in Runners : InSync(q)' <=> InSync(q)
  BY DEF InSync, AudiblePCs
<1>2. \A q \in Runners : Recorded(q)' <=> Recorded(q)
  BY <1>1 DEF Recorded
<1>3. \A q \in Runners, p \in Phases : InPhase(q, p)' <=> InPhase(q, p)
  BY DEF InPhase, AudiblePCs, Phases
<1>4. KindFits'
  BY DEF KindFits, Fits, AudiblePCs, ServerPhases
<1>5. Exclusive' /\ PhaseHeld'
  BY <1>1, <1>3 DEF Exclusive, PhaseHeld
<1>6. RecordHeld'
  BY <1>2 DEF RecordHeld, ProgressTypes
<1> QED BY <1>4, <1>5, <1>6 DEF Control

(* A run that ends takes the flag down, and leaves no phase of its own     *)
(* running and no record of its own open.                                  *)
LEMMA Ends ==
    ASSUME SyncInv, NEW r \in Runners, InSync(r), StopHere(r),
           running' = FALSE, shown' # "running",
           \A p \in Phases : phaseSt'[p] = "running" => phaseSt[p] = "running" /\ ~InPhase(r, p),
           history' = "running" => lost' \/ (history = "running" /\ ~lost /\ ~Recorded(r)),
           unrecorded' \subseteq unrecorded \ {r}
    PROVE  Control'
<1>1. Fits("idle", NoKind)
  BY DEF Fits, AudiblePCs, ServerPhases
<1>2. /\ pc' = [pc EXCEPT ![r] = "idle"] /\ kind' = [kind EXCEPT ![r] = NoKind]
  BY DEF StopHere, Goto
<1> QED BY <1>1, <1>2, Moves DEF RunPCs, Outside

(* A sync that goes on keeps the flag and its record.                      *)
LEMMA GoesOn ==
    ASSUME SyncInv, NEW r \in Runners, InSync(r), r \notin unrecorded,
           NEW l \in RunPCs, l \notin Outside, Fits(l, kind[r]),
           pc' = [pc EXCEPT ![r] = l],
           UNCHANGED <<kind, running, shown, recordVars, lost>>,
           \A p \in Phases : phaseSt'[p] = "running" => InPhase(r, p)',
           Recorded(r)'
    PROVE  Control'
<1> USE DEF SyncInv, SyncTypeOK, RunTypes, ProgressTypes, recordVars
<1>1. running
  BY DEF Exclusive
<1>2. kind' = [kind EXCEPT ![r] = kind[r]] /\ running' = TRUE
  BY <1>1
<1> QED BY <1>1, <1>2, Moves

(* A run begins only when the flag is down, and takes it.                  *)
LEMMA Begins ==
    ASSUME SyncInv, NEW r \in Runners, NEW k \in SyncModes \cup Phases,
           pc[r] \in {"idle", "asked"}, ~running, Begin(r, k)
    PROVE  Control'
<1> USE DEF SyncInv, SyncTypeOK, ProgressTypes, recordVars, Goto, Outside
<1> DEFINE l == IF k \in SyncModes \cup {"audible_sync"} THEN "record" ELSE k
<1>1. /\ pc' = [pc EXCEPT ![r] = l] /\ kind' = [kind EXCEPT ![r] = k]
      /\ running' = TRUE /\ phaseSt' = PhasesAtStart(k) /\ UNCHANGED <<recordVars, lost>>
  BY DEF Begin
<1>2. l \in RunPCs \ Outside /\ Fits(l, k)
  BY DEF Fits, AudiblePCs, ServerPhases, RunPCs, Phases, SyncModes
<1>3. \A p \in Phases : phaseSt'[p] = "running" =>
          InPhase(r, p)' \/ (phaseSt[p] = "running" /\ ~InPhase(r, p))
  <2>1. \A p \in Phases : phaseSt[p] # "running"
    BY DEF PhaseHeld, Exclusive, InPhase, InSync, AudiblePCs, Phases
  <2>2. \A p \in Phases : phaseSt'[p] = "running" => p = k /\ k \notin SyncModes
    BY <1>1, <2>1, AtStart
  <2>3. pc'[r] = l /\ kind'[r] = k
    BY <1>1 DEF RunTypes
  <2> QED BY <2>2, <2>3 DEF InPhase, AudiblePCs, SyncModes
<1>4. r \notin unrecorded /\ ~Recorded(r)
  BY DEF AudiblePCs, Recorded, RecordHeld, InSync
<1> HIDE DEF l
<1> QED BY <1>1, <1>2, <1>3, <1>4, Moves DEF RecordHeld

(* Every step of a run keeps the syncs apart and their record in hand.     *)
LEMMA RunStepControl ==
    ASSUME SyncInv, NEW r \in Runners, RunStep(r)
    PROVE  Control'
<1> USE DEF SyncInv, SyncTypeOK, RunTypes, ProgressTypes, recordVars, shownVars, Goto,
            Outside, InSync
<1>1. CASE MergeStep(r)
  BY <1>1, MergeStepControl, Framed
<1>2. /\ pc = [pc EXCEPT ![r] = pc[r]] /\ kind = [kind EXCEPT ![r] = kind[r]]
      /\ Fits(pc[r], kind[r]) /\ Fits("idle", NoKind)
  BY DEF KindFits, Fits, AudiblePCs, ServerPhases
<1>3. \A q \in unrecorded : pc[q] \in AudiblePCs \ {"record"} /\ kind[q] = "audible_sync"
  BY DEF RecordHeld
<1>4. CASE Refused(r)
  <2>1. /\ pc' = [pc EXCEPT ![r] = "idle"] /\ kind' = [kind EXCEPT ![r] = NoKind]
        /\ UNCHANGED <<recordVars, shownVars, lost>> /\ ~InSync(r) /\ pc[r] = "asked"
    BY <1>4 DEF Refused, StopHere
  <2>2. \A p \in Phases : ~InPhase(r, p)
    BY <2>1 DEF InPhase, AudiblePCs, Phases
  <2>3. r \notin unrecorded /\ ~Recorded(r)
    BY <1>3, <2>1 DEF AudiblePCs, Recorded
  <2> QED BY <1>2, <2>1, <2>2, <2>3, Moves DEF PhaseHeld, RecordHeld, RunPCs
<1>5. CASE Start(r)
  <2>1. kind[r] \in SyncModes \cup Phases
    BY <1>5 DEF Start, KindFits, Fits
  <2> QED BY <1>5, <2>1, Begins DEF Start
<1>6. CASE CreateRecord(r)
  <2>1. InSync(r) /\ pc[r] = "record" /\ kind[r] \in SyncModes \cup {"audible_sync"}
        /\ r \notin unrecorded /\ running /\ ~Recorded(r)
    BY <1>3, <1>6 DEF CreateRecord, KindFits, Fits, AudiblePCs, Exclusive, Recorded
  <2>2. CASE Goto(r, "fetch")
    <3>1. /\ pc' = [pc EXCEPT ![r] = "fetch"] /\ pc'[r] = "fetch"
          /\ UNCHANGED <<kind, running, shown>>
          /\ phaseSt' = [phaseSt EXCEPT !["audible_sync"] = "running"]
      BY <1>6, <2>1, <2>2 DEF CreateRecord, SetPhase, StopHere
    <3>2. Fits("fetch", kind[r])
      BY <2>1 DEF Fits, AudiblePCs, ServerPhases, Phases
    <3>3. \A p \in Phases : phaseSt'[p] = "running" =>
            InPhase(r, p)' \/ (phaseSt[p] = "running" /\ ~InPhase(r, p))
      BY <2>1, <3>1 DEF InPhase, AudiblePCs, Phases
    <3>4. \/ history' = "running" /\ unrecorded' = unrecorded
          \/ UNCHANGED <<history, lost>> /\ unrecorded' = unrecorded \cup {r}
                /\ kind[r] = "audible_sync"
      BY <1>6, <2>1, <2>2 DEF CreateRecord, StopHere
    <3>5. r \notin unrecorded' => Recorded(r)'
      BY <2>1, <3>1 DEF Recorded
    <3> QED BY <1>2, <2>1, <3>1, <3>2, <3>3, <3>4, <3>5, Moves
            DEF PhaseHeld, RunPCs, AudiblePCs, RecordHeld
  <2>3. CASE StopHere(r)
    <3>1. /\ pc' = [pc EXCEPT ![r] = "idle"] /\ kind' = [kind EXCEPT ![r] = NoKind]
          /\ running' = FALSE /\ shown' = "failed"
          /\ UNCHANGED <<recordVars, lost, phaseSt>> /\ kind[r] \in SyncModes
      BY <1>6, <2>1, <2>3 DEF CreateRecord, StopHere
    <3>2. \A p \in Phases : ~InPhase(r, p)
      BY <2>1, <3>1 DEF InPhase, Phases
    <3> QED BY <2>1, <2>3, <3>1, <3>2, Ends DEF PhaseHeld, RecordHeld
  <2> QED BY <1>6, <2>2, <2>3 DEF CreateRecord
<1>7. InSync(r) => /\ running /\ \A p \in Phases : phaseSt[p] = "running" => InPhase(r, p)
                   /\ history = "running" => lost \/ Recorded(r)
  BY DEF Exclusive, PhaseHeld, RecordHeld, InPhase, AudiblePCs, Phases, Recorded
<1>8. CASE AfterAudible(r)
  <2>1. /\ InSync(r) /\ pc[r] = "prune" /\ kind[r] \in SyncModes /\ r \notin unrecorded
        /\ UNCHANGED <<recordVars, lost, running, shown, kind>>
    BY <1>3, <1>8 DEF AfterAudible, AudibleOver, SyncModes
  <2>2. PICK l \in {"file_scan", "finish"} :
          /\ pc' = [pc EXCEPT ![r] = l] /\ pc'[r] = l
          /\ l # "file_scan" => kind[r] # "full"
    BY <1>8 DEF AfterAudible
  <2>3. \A p \in Phases : phaseSt'[p] = "running" => p = "file_scan" /\ kind[r] = "full"
    <3>1. \A p \in Phases : phaseSt[p] = "running" => p = "audible_sync"
      BY <1>7, <2>1 DEF InPhase, Phases
    <3> QED BY <1>8, <2>1, <3>1 DEF AfterAudible, Outcome
  <2>4. \A p \in Phases : phaseSt'[p] = "running" => InPhase(r, p)'
    BY <2>1, <2>2, <2>3 DEF InPhase
  <2>5. Fits(l, kind[r]) /\ Recorded(r)'
    BY <2>1, <2>2 DEF Fits, AudiblePCs, ServerPhases, Recorded
  <2>6. l \in RunPCs \ Outside
    BY <2>2 DEF RunPCs, Phases
  <2> QED BY <1>2, <1>7, <2>1, <2>2, <2>4, <2>5, <2>6, GoesOn
<1>9. CASE EndAudiblePhase(r)
  <2>1. /\ InSync(r) /\ StopHere(r) /\ running' = FALSE /\ shown' # "running"
        /\ unrecorded' = unrecorded \ {r} /\ pc[r] = "prune" /\ kind[r] = "audible_sync"
        /\ phaseSt' = [phaseSt EXCEPT !["audible_sync"] = Outcome(r)]
    BY <1>9 DEF EndAudiblePhase, EndPhaseRun, AudibleOver, SetPhase
  <2>2. \A p \in Phases : phaseSt'[p] # "running"
    BY <1>7, <2>1 DEF InPhase, Outcome, Phases
  <2>3. history' = "running" => lost'
    BY <1>7, <1>9, <2>1 DEF EndAudiblePhase, CloseRecord, Outcome, Recorded
  <2> QED BY <2>1, <2>2, <2>3, Ends
<1>10. ASSUME InSync(r), pc[r] \notin AudiblePCs, NEW s \in {"complete", "failed"},
              EndPhaseRun(r, pc[r], s), kind[r] \notin SyncModes, pc[r] \in Phases,
              UNCHANGED <<recordVars, lost>>
       PROVE  Control'
  <2>1. /\ StopHere(r) /\ running' = FALSE /\ shown' # "running"
        /\ phaseSt' = [phaseSt EXCEPT ![pc[r]] = s]
    BY <1>10 DEF EndPhaseRun, SetPhase
  <2>2. \A p \in Phases : phaseSt'[p] # "running"
    BY <1>7, <1>10, <2>1 DEF InPhase, Phases
  <2>3. r \notin unrecorded /\ (history = "running" => lost)
    BY <1>3, <1>7, <1>10 DEF Recorded, KindFits, Fits, ServerPhases, Phases, RunPCs, SyncModes
  <2> QED BY <1>10, <2>1, <2>2, <2>3, Ends
<1>11. CASE ScanFiles(r)
  <2>1. /\ InSync(r) /\ pc[r] = "file_scan" /\ kind[r] \in SyncModes \cup {"file_scan"}
        /\ r \notin unrecorded /\ UNCHANGED <<recordVars, lost>>
    BY <1>3, <1>11 DEF ScanFiles, KindFits, Fits, AudiblePCs
  <2>2. CASE kind[r] = "full"
    <3>1. /\ phaseSt' = [phaseSt EXCEPT !["file_scan"] = "complete",
                                        !["metadata_repair"] = "running"]
          /\ pc' = [pc EXCEPT ![r] = "metadata_repair"] /\ pc'[r] = "metadata_repair"
          /\ UNCHANGED <<running, shown, kind>>
      BY <1>11, <2>2 DEF ScanFiles
    <3>2. \A p \in Phases : phaseSt'[p] = "running" => InPhase(r, p)'
      BY <1>7, <2>1, <2>2, <3>1 DEF InPhase, AudiblePCs, Phases
    <3>3. Fits("metadata_repair", kind[r]) /\ Recorded(r)'
      BY <2>1, <2>2, <3>1 DEF Fits, AudiblePCs, ServerPhases, Recorded, SyncModes
    <3> QED BY <2>1, <3>1, <3>2, <3>3, GoesOn DEF RunPCs, Phases
  <2>3. CASE kind[r] = "quick"
    <3>1. /\ pc' = [pc EXCEPT ![r] = "finish"] /\ pc'[r] = "finish"
          /\ UNCHANGED <<running, shown, kind, phaseSt>>
      BY <1>11, <2>3 DEF ScanFiles
    <3>2. Fits("finish", kind[r]) /\ Recorded(r)'
      BY <2>1, <2>3, <3>1 DEF Fits, AudiblePCs, ServerPhases, Recorded, SyncModes
    <3>3. \A p \in Phases : phaseSt'[p] # "running"
      BY <1>7, <2>1, <2>3, <3>1 DEF InPhase, AudiblePCs
    <3> QED BY <2>1, <3>1, <3>2, <3>3, GoesOn DEF RunPCs, Phases
  <2>4. CASE kind[r] = "file_scan"
    <3>1. EndPhaseRun(r, pc[r], "complete")
      BY <1>11, <2>1, <2>4 DEF ScanFiles
    <3> QED BY <1>10, <2>1, <2>4, <3>1 DEF SyncModes, AudiblePCs, Phases
  <2> QED BY <2>1, <2>2, <2>3, <2>4 DEF SyncModes
<1>12. CASE ScanFails(r)
  <2>1. /\ InSync(r) /\ pc[r] = "file_scan" /\ kind[r] \in SyncModes \cup {"file_scan"}
        /\ r \notin unrecorded /\ UNCHANGED <<unrecorded, lost>>
    BY <1>3, <1>12 DEF ScanFails, KindFits, Fits, AudiblePCs
  <2>2. CASE kind[r] \in SyncModes
    <3>1. /\ StopHere(r) /\ running' = FALSE /\ shown' = "failed" /\ history' = "failed"
          /\ IF kind[r] = "full" THEN phaseSt' = [phaseSt EXCEPT !["file_scan"] = "failed"]
             ELSE UNCHANGED phaseSt
      BY <1>12, <2>2 DEF ScanFails, SetPhase
    <3>2. \A p \in Phases : phaseSt'[p] # "running"
      BY <1>7, <2>1, <2>2, <3>1 DEF InPhase, AudiblePCs, SyncModes
    <3> QED BY <2>1, <3>1, <3>2, Ends
  <2>3. CASE kind[r] = "file_scan"
    <3>1. EndPhaseRun(r, pc[r], "failed") /\ UNCHANGED history
      BY <1>12, <2>1, <2>3 DEF ScanFails, SyncModes
    <3> QED BY <1>10, <2>1, <2>3, <3>1 DEF SyncModes, AudiblePCs, Phases
  <2> QED BY <2>1, <2>2, <2>3
<1>13. CASE ServerPhase(r)
  <2>1. /\ InSync(r) /\ pc[r] \in ServerPhases /\ kind[r] \in {"full", pc[r]}
        /\ r \notin unrecorded /\ UNCHANGED <<recordVars, lost>>
    BY <1>3, <1>13 DEF ServerPhase, KindFits, Fits, AudiblePCs, ServerPhases
  <2>2. PICK s \in {"complete", "failed"} :
            IF kind[r] # "full" THEN EndPhaseRun(r, pc[r], s)
            ELSE /\ IF pc[r] = "collection_sync"
                    THEN SetPhase(pc[r], s) /\ Goto(r, "finish")
                    ELSE /\ phaseSt' = [phaseSt EXCEPT ![pc[r]] = s,
                                           ![NextPhase[pc[r]]] = "running"]
                         /\ Goto(r, NextPhase[pc[r]])
                 /\ UNCHANGED <<running, shown, kind, added, failed>>
    BY <1>13 DEF ServerPhase
  <2>3. CASE kind[r] # "full"
    BY <1>10, <2>1, <2>2, <2>3 DEF ServerPhases, SyncModes, AudiblePCs, Phases
  <2>4. ASSUME kind[r] = "full", NEW l \in {"plex_sync", "collection_sync", "finish"},
               l # pc[r], pc' = [pc EXCEPT ![r] = l], UNCHANGED <<running, shown, kind>>,
               \A p \in Phases : phaseSt'[p] = "running" =>
                   p = l \/ (phaseSt[p] = "running" /\ p # pc[r])
        PROVE  Control'
    <3>1. pc'[r] = l /\ Fits(l, kind[r]) /\ Recorded(r)'
      BY <2>1, <2>4 DEF Fits, AudiblePCs, ServerPhases, Recorded, SyncModes
    <3>2. \A p \in Phases : phaseSt'[p] = "running" => InPhase(r, p)'
      BY <1>7, <2>1, <2>4, <3>1 DEF InPhase, AudiblePCs, ServerPhases
    <3> QED BY <2>1, <2>4, <3>1, <3>2, GoesOn DEF RunPCs, Phases
  <2>5. CASE kind[r] = "full" /\ pc[r] = "collection_sync"
    BY <2>2, <2>4, <2>5 DEF SetPhase
  <2>6. CASE kind[r] = "full" /\ pc[r] # "collection_sync"
    <3>1. NextPhase["metadata_repair"] = "plex_sync"
          /\ NextPhase["plex_sync"] = "collection_sync"
      BY DEF NextPhase
    <3> DEFINE l == NextPhase[pc[r]]
    <3>2. l \in {"plex_sync", "collection_sync"} /\ l # pc[r]
      BY <2>1, <2>6, <3>1 DEF ServerPhases
    <3>3. /\ phaseSt' = [phaseSt EXCEPT ![pc[r]] = s, ![l] = "running"]
          /\ pc' = [pc EXCEPT ![r] = l] /\ UNCHANGED <<running, shown, kind>>
      BY <2>2, <2>6
    <3> HIDE DEF l
    <3>4. \A p \in Phases : phaseSt'[p] = "running" =>
                   p = l \/ (phaseSt[p] = "running" /\ p # pc[r])
      BY <3>3
    <3> QED BY <2>4, <2>6, <3>2, <3>3, <3>4
  <2> QED BY <2>3, <2>5, <2>6
<1>14. CASE Finish(r)
  <2>1. /\ InSync(r) /\ pc[r] = "finish" /\ kind[r] \in SyncModes /\ r \notin unrecorded
        /\ running' = FALSE /\ shown' # "running" /\ UNCHANGED <<unrecorded, phaseSt>>
    BY <1>3, <1>14 DEF Finish, KindFits, Fits, AudiblePCs, OverallStatus
  <2>2. \A p \in Phases : phaseSt'[p] # "running"
    BY <1>7, <2>1 DEF InPhase, AudiblePCs, Phases
  <2>3. history' = "running" => lost'
    BY <1>7, <1>14 DEF Finish, CloseRecord, OverallStatus
  <2>4. CASE StopHere(r)
    BY <2>1, <2>2, <2>3, <2>4, Ends
  <2>5. CASE Goto(r, "queue") /\ UNCHANGED kind
    <3>1. pc' = [pc EXCEPT ![r] = "queue"] /\ Fits("queue", kind[r])
      BY <2>1, <2>5 DEF Fits, AudiblePCs, ServerPhases, SyncModes
    <3> QED BY <1>2, <1>7, <2>1, <2>2, <2>3, <2>5, <3>1, Moves DEF RunPCs
  <2> QED BY <1>14, <2>4, <2>5 DEF Finish
<1>15. CASE QueueAfterSync(r)
  <2>1. /\ pc' = [pc EXCEPT ![r] = "idle"] /\ kind' = [kind EXCEPT ![r] = NoKind]
        /\ UNCHANGED <<recordVars, shownVars, lost>> /\ ~InSync(r) /\ pc[r] = "queue"
    BY <1>15 DEF QueueAfterSync, StopHere
  <2>2. \A p \in Phases : ~InPhase(r, p)
    BY <2>1 DEF InPhase, AudiblePCs, Phases
  <2>3. r \notin unrecorded /\ ~Recorded(r)
    BY <1>3, <2>1 DEF AudiblePCs, Recorded
  <2> QED BY <1>2, <2>1, <2>2, <2>3, Moves DEF PhaseHeld, RecordHeld, RunPCs
<1> QED BY <1>1, <1>4, <1>5, <1>6, <1>8, <1>9, <1>11, <1>12, <1>13, <1>14, <1>15
        DEF RunStep, MergeStep

(* Beside the runs, the catalogue changes, a run is asked for or begins,   *)
(* or a crash ends them all.                                               *)
LEMMA BesideControl ==
    ASSUME SyncInv, \/ Tick \/ TickSkipped \/ Environment \/ UNCHANGED vars
                    \/ \E b \in Books : JobStep(b)
    PROVE  Control'
<1> USE DEF SyncInv, recordVars, shownVars
<1>1. CASE UNCHANGED <<pc, kind, recordVars, shownVars, lost>>
  BY <1>1, Framed
<1>2. CASE TickSkipped \/ UNCHANGED vars
  BY <1>1, <1>2 DEF TickSkipped, vars, runVars
<1>3. CASE Tick
  BY <1>3, Begins, LibrarySyncAssumption DEF Tick, Runners
<1>4. ASSUME NEW q \in Users, NEW k \in Kinds, Ask(q, k)
      PROVE  Control'
  <2>1. /\ pc' = [pc EXCEPT ![q] = "asked"] /\ kind' = [kind EXCEPT ![q] = k]
        /\ pc[q] = "idle" /\ UNCHANGED <<recordVars, shownVars, lost>> /\ q \in Runners
    BY <1>4 DEF Ask, Goto, Runners
  <2>2. Fits("asked", k)
    BY LibrarySyncAssumption DEF Fits, AudiblePCs, ServerPhases
  <2>3. ~InSync(q) /\ ~Recorded(q) /\ q \notin unrecorded /\ \A p \in Phases : ~InPhase(q, p)
    BY <2>1 DEF InSync, Recorded, RecordHeld, InPhase, AudiblePCs, Phases
  <2> QED BY <2>1, <2>2, <2>3, Moves
          DEF PhaseHeld, RecordHeld, RunPCs, Outside, SyncTypeOK, ProgressTypes
<1>5. CASE CrashAndRestart
  <2>1. /\ \A r \in Runners : pc'[r] = "idle" /\ kind'[r] = NoKind
        /\ running' = FALSE /\ shown' = "" /\ \A p \in Phases : phaseSt'[p] = "idle"
        /\ lost' = (lost \/ history = "running") /\ unrecorded' = {} /\ history' = history
    BY <1>5 DEF CrashAndRestart
  <2> QED BY <2>1 DEF Control, KindFits, Fits, AudiblePCs, ServerPhases, Exclusive, InSync,
             PhaseHeld, RecordHeld
<1>6. CASE Environment
  BY <1>1, <1>4, <1>5, <1>6
     DEF Environment, AskSync, AskPhase, AskAfterSetup, ShelfChanges, Flip, QueueBook,
         RemoveAccount, runVars
<1>7. ASSUME NEW b \in Books, JobStep(b)
      PROVE  Control'
  BY <1>1, <1>7 DEF JobStep, ClaimJob, DeliverJob, FailJob, runVars
<1> QED BY <1>2, <1>3, <1>6, <1>7

-----------------------------------------------------------------------------
(* No listed book is pruned *)

(* What one run holds of its merge.                                        *)
MergeOf(r) == <<targets[r], fetched[r], todo[r], barred[r], reading[r], keep[r],
                doomed[r], clean[r]>>

(* A run whose merge nobody touches, and that neither enters nor leaves a  *)
(* part of it.                                                             *)
LEMMA MergeUntouched ==
    ASSUME NEW r \in Runners, EntryListed(r), Kept(r),
           UNCHANGED <<shelf, MergeOf(r)>>,
           \/ pc'[r] = pc[r]
           \/ {pc[r], pc'[r]} \cap {"fetch", "books", "write", "prune"} = {}
    PROVE  EntryListed(r)' /\ Kept(r)'
BY DEF EntryListed, Kept, MergeOf, Entries

(* A run that has no merge.                                                *)
LEMMA NoMerge ==
    ASSUME NEW r \in Runners, todo'[r] = {}, reading'[r] = NotReading, doomed'[r] = {},
           pc'[r] \notin {"fetch", "books", "write"}
    PROVE  EntryListed(r)' /\ Kept(r)'
BY DEF EntryListed, Kept, NotReading

(* A step of one run touches no other's merge.                             *)
LEMMA OthersApart ==
    ASSUME SyncInv, NEW r \in Runners, RunStep(r), NEW q \in Runners, q # r
    PROVE  UNCHANGED <<shelf, MergeOf(q), pc[q]>>
<1> USE DEF SyncInv, SyncTypeOK, MergeTypes, RunTypes, MergeOf, mergeVars, audibleVars, Goto
<1>1. CASE StopHere(r) /\ UNCHANGED <<shelf, mergeVars>>
  BY <1>1 DEF StopHere
<1>2. CASE Refused(r) \/ ScanFails(r) \/ ServerPhase(r) \/ ScanFiles(r)
  BY <1>1, <1>2 DEF Refused, ScanFails, ServerPhase, ScanFiles, EndPhaseRun
<1>3. CASE Start(r) \/ Finish(r) \/ QueueAfterSync(r)
  BY <1>1, <1>3 DEF Start, Begin, Finish, QueueAfterSync
<1>4. CASE CreateRecord(r)
  BY <1>4 DEF CreateRecord, StopHere
<1>5. CASE FetchAccount(r) \/ Merge(r)
  BY <1>5 DEF FetchAccount, Merge
<1>6. CASE WriteBook(r) \/ WriteFails(r) \/ ListForPrune(r)
  BY <1>6 DEF WriteBook, WriteFails, ListForPrune
<1>7. ASSUME NEW b \in Books, ReadBook(r, b) \/ ReadFails(r, b) \/ PruneBook(r, b)
      PROVE  UNCHANGED <<shelf, MergeOf(q), pc[q]>>
  BY <1>7 DEF ReadBook, ReadFails, PruneBook
<1>8. CASE AfterAudible(r) \/ EndAudiblePhase(r)
  BY <1>8 DEF AfterAudible, EndAudiblePhase, EndPhaseRun, StopHere, ClearMerge
<1> QED BY <1>2, <1>3, <1>4, <1>5, <1>6, <1>7, <1>8 DEF RunStep

(* Fetch by fetch, entry by entry, a book that was sure to be listed stays *)
(* on its way to being kept.                                               *)
LEMMA RunStepMerge ==
    ASSUME SyncInv, NEW r \in Runners, RunStep(r)
    PROVE  EntryListed(r)' /\ Kept(r)'
<1> USE DEF SyncInv, SyncTypeOK, MergeTypes, RunTypes, mergeVars, audibleVars, Goto
<1>1. EntryListed(r) /\ Kept(r)
  BY DEF EntriesListed, CleanKept
<1>2. CASE \/ Refused(r) \/ Start(r) \/ ScanFiles(r) \/ ScanFails(r) \/ ServerPhase(r)
           \/ Finish(r) \/ QueueAfterSync(r)
  <2>1. UNCHANGED <<shelf, MergeOf(r)>>
    BY <1>2 DEF MergeOf, Refused, Start, Begin, ScanFiles, ScanFails, ServerPhase, Finish,
       QueueAfterSync
  <2>2. pc[r] \notin {"fetch", "books", "write", "prune"}
    BY <1>2 DEF Refused, Start, ScanFiles, ScanFails, ServerPhase, Finish, QueueAfterSync
  <2>3. pc'[r] \notin {"fetch", "books", "write", "prune"}
    <3>1. CASE Start(r)
      <4>1. kind[r] \in SyncModes \cup Phases
        BY <3>1 DEF Start, KindFits, Fits
      <4> QED BY <3>1, <4>1 DEF Start, Begin, Phases, SyncModes
    <3>2. CASE StopHere(r)
      BY <3>2 DEF StopHere
    <3>3. CASE ServerPhase(r)
      <4>1. NextPhase["metadata_repair"] = "plex_sync"
            /\ NextPhase["plex_sync"] = "collection_sync"
        BY DEF NextPhase
      <4> QED BY <3>2, <3>3, <4>1 DEF ServerPhase, EndPhaseRun
    <3> QED BY <1>2, <3>1, <3>2, <3>3 DEF Refused, ScanFiles, ScanFails, Finish, QueueAfterSync,
               EndPhaseRun
  <2> QED BY <1>1, <2>1, <2>2, <2>3, MergeUntouched
<1>3. CASE AfterAudible(r) \/ EndAudiblePhase(r)
  <2>1. todo'[r] = {} /\ reading'[r] = NotReading /\ doomed'[r] = {}
    BY <1>3 DEF AfterAudible, EndAudiblePhase, ClearMerge
  <2>2. pc'[r] \in {"file_scan", "finish", "idle"}
    BY <1>3 DEF AfterAudible, EndAudiblePhase, EndPhaseRun, StopHere
  <2> QED BY <2>1, <2>2, NoMerge
<1>4. CASE CreateRecord(r)
  <2>1. pc[r] = "record" /\ todo'[r] = {} /\ reading'[r] = NotReading /\ doomed'[r] = {}
    BY <1>1, <1>4 DEF CreateRecord, EntryListed, Kept
  <2>2. CASE pc'[r] = "fetch"
    <3>1. targets'[r] = loaded /\ clean'[r] = Listed /\ UNCHANGED shelf
      BY <1>4, <2>2 DEF CreateRecord, StopHere
    <3>2. \A b \in clean'[r] : \E a \in Accounts : a \in targets'[r] /\ b \in shelf'[a]
      BY <3>1 DEF Listed, CatalogueTypes
    <3> QED BY <2>1, <2>2, <3>2 DEF EntryListed, Kept, NotReading
  <2>3. CASE pc'[r] = "idle"
    BY <2>1, <2>3, NoMerge
  <2> QED BY <1>4, <2>2, <2>3 DEF CreateRecord, StopHere
<1>5. CASE FetchAccount(r)
  <2>1. PICK a \in Accounts : a = FirstOf(targets[r])
    BY <1>5, FirstOfSet DEF FetchAccount
  <2>2. /\ pc[r] = "fetch" /\ UNCHANGED <<shelf, todo, barred, reading, doomed, pc>>
        /\ targets'[r] = targets[r] \ {a}
        /\ \A c \in Accounts : c # a => fetched'[r][c] = fetched[r][c]
        /\ \/ fetched'[r][a] = shelf[a] /\ clean'[r] = clean[r]
           \/ clean'[r] = {}
    BY <1>5, <2>1 DEF FetchAccount
  <2>3. EntryListed(r)'
    BY <1>1, <2>2 DEF EntryListed
  <2>4. \A b \in clean'[r] : \E c \in Accounts :
          b \in IF c \in targets'[r] THEN shelf'[c] ELSE fetched'[r][c]
    <3> SUFFICES ASSUME NEW b \in clean'[r]
                 PROVE  \E c \in Accounts :
                           b \in IF c \in targets'[r] THEN shelf'[c] ELSE fetched'[r][c]
      OBVIOUS
    <3>1. fetched'[r][a] = shelf[a] /\ clean'[r] = clean[r]
      BY <2>2
    <3>2. PICK c \in Accounts : b \in IF c \in targets[r] THEN shelf[c] ELSE fetched[r][c]
      BY <1>1, <2>2, <3>1 DEF Kept
    <3>3. a \in targets[r]
      BY <1>5, <2>1, FirstOfSet DEF FetchAccount
    <3> QED BY <2>2, <3>1, <3>2, <3>3
  <2> QED BY <1>1, <2>2, <2>3, <2>4 DEF Kept
<1>6. CASE Merge(r)
  <2>1. /\ pc[r] = "fetch" /\ targets[r] = {} /\ UNCHANGED <<reading, doomed, clean, fetched>>
        /\ todo'[r] = Entries(r) /\ Entries(r)' = Entries(r)
        /\ pc'[r] = IF Entries(r) = {} THEN "prune" ELSE "books"
    BY <1>6 DEF Merge, Entries
  <2>2. clean[r] \subseteq Entries(r)
    BY <1>1, <2>1 DEF Kept, Entries
  <2> QED BY <1>1, <2>1, <2>2 DEF EntryListed, Kept, NotReading
<1>7. CASE ListForPrune(r)
  <2>1. /\ pc[r] = "books" /\ todo[r] = {} /\ pc'[r] = "prune"
        /\ UNCHANGED <<reading, clean, fetched, todo, barred>>
        /\ doomed'[r] = Present \ keep[r] \/ doomed'[r] = doomed[r]
    BY <1>7 DEF ListForPrune
  <2>2. reading[r] = NotReading /\ Entries(r)' = Entries(r)
    BY <1>1, <2>1 DEF EntryListed, Entries
  <2>3. clean[r] \subseteq keep[r]
    <3>1. NoBook \notin Books /\ clean[r] \subseteq Books
      BY LibrarySyncAssumption
    <3> QED BY <1>1, <2>1, <2>2, <3>1 DEF Kept, NotReading
  <2> QED BY <1>1, <2>1, <2>2, <2>3 DEF EntryListed, Kept, NotReading
<1>8. CASE WriteBook(r) \/ WriteFails(r)
  <2>1. /\ pc[r] = "write" /\ pc'[r] = "books" /\ reading'[r] = NotReading
        /\ UNCHANGED <<fetched, todo, barred, doomed>> /\ Entries(r)' = Entries(r)
        /\ \/ clean'[r] = {} /\ keep'[r] = keep[r]
           \/ /\ keep'[r] = keep[r] \cup ({reading[r].book} \cap barred[r])
              /\ clean'[r] = clean[r]
    BY <1>8 DEF WriteBook, WriteFails, Entries
  <2>2. EntryListed(r)'
    BY <1>1, <2>1 DEF EntryListed, NotReading
  <2>3. \A b \in clean'[r] : b \in todo'[r] \cup keep'[r]
    BY <1>1, <2>1 DEF Kept
  <2> QED BY <1>1, <2>1, <2>2, <2>3 DEF Kept
<1>9. ASSUME NEW b \in Books, ReadBook(r, b)
      PROVE  EntryListed(r)' /\ Kept(r)'
  <2>1. /\ pc[r] = "books" /\ pc'[r] = "write" /\ b \in todo[r] /\ todo'[r] = todo[r] \ {b}
        /\ UNCHANGED <<fetched, barred, doomed, clean>> /\ Entries(r)' = Entries(r)
        /\ keep'[r] = IF b \in barred[r] THEN keep[r] ELSE keep[r] \cup {b}
    <3>1. /\ pc[r] = "books" /\ b \in todo[r] /\ pc' = [pc EXCEPT ![r] = "write"]
          /\ todo' = [todo EXCEPT ![r] = @ \ {b}]
          /\ UNCHANGED <<fetched, barred, doomed, clean>>
          /\ IF b \in barred[r] THEN UNCHANGED <<keep, added>>
             ELSE keep' = [keep EXCEPT ![r] = @ \cup {b}]
      BY <1>9, Zenon DEF ReadBook
    <3>2. keep'[r] = IF b \in barred[r] THEN keep[r] ELSE keep[r] \cup {b}
      BY <3>1
    <3>3. Entries(r)' = Entries(r)
      BY <3>1 DEF Entries
    <3>4. pc'[r] = "write" /\ todo'[r] = todo[r] \ {b}
      BY <3>1
    <3> QED BY <3>1, <3>2, <3>3, <3>4
  <2>2. reading[r] = NotReading /\ reading'[r] # NotReading /\ reading'[r].book = b
        /\ reading'[r].st # "unread"
    <3>1. PICK found : reading' = [reading EXCEPT ![r] =
                                      [book |-> b, st |-> bookSt[b], path |-> found]]
      BY <1>9, Zenon DEF ReadBook
    <3>2. reading'[r] = [book |-> b, st |-> bookSt[b], path |-> found]
      BY <3>1
    <3>3. reading[r] = NotReading
      BY <1>1, <2>1 DEF EntryListed
    <3>4. NoBook # b /\ bookSt[b] # "unread"
      BY LibrarySyncAssumption DEF CatalogueTypes, BookStatus
    <3> QED BY <3>2, <3>3, <3>4 DEF NotReading
  <2>3. EntryListed(r)'
    BY <1>1, <2>1, <2>2 DEF EntryListed
  <2>4. \A c \in clean[r] : c \in todo[r] \cup keep[r]
    <3>1. NoBook \notin Books /\ clean[r] \subseteq Books
      BY LibrarySyncAssumption
    <3> QED BY <1>1, <2>1, <2>2, <3>1 DEF Kept, NotReading
  <2> QED BY <1>1, <2>1, <2>2, <2>3, <2>4 DEF Kept
<1>10. ASSUME NEW b \in Books, ReadFails(r, b)
      PROVE  EntryListed(r)' /\ Kept(r)'
  <2>1. /\ pc[r] = "books" /\ b \in todo[r] /\ todo'[r] = todo[r] \ {b}
        /\ UNCHANGED <<fetched, barred, doomed>> /\ Entries(r)' = Entries(r)
        /\ clean'[r] = {}
        /\ \/ /\ reading'[r] = [book |-> b, st |-> "unread", path |-> FALSE]
              /\ pc'[r] = "write" /\ b \in barred[r]
           \/ pc'[r] = pc[r] /\ reading'[r] = reading[r]
    BY <1>10 DEF ReadFails, Entries
  <2>2. EntryListed(r)'
    <3>1. NoBook # b
      BY LibrarySyncAssumption
    <3>2. CASE pc'[r] = pc[r] /\ reading'[r] = reading[r]
      BY <1>1, <2>1, <3>2 DEF EntryListed
    <3>3. CASE /\ reading'[r] = [book |-> b, st |-> "unread", path |-> FALSE]
               /\ pc'[r] = "write" /\ b \in barred[r]
      <4>1. reading'[r] # NotReading /\ reading'[r].book = b /\ ~reading'[r].path
        BY <3>1, <3>3 DEF NotReading
      <4> QED BY <1>1, <2>1, <3>3, <4>1 DEF EntryListed
    <3> QED BY <2>1, <3>2, <3>3
  <2> QED BY <1>1, <2>1, <2>2 DEF Kept
<1>11. ASSUME NEW b \in Books, PruneBook(r, b)
      PROVE  EntryListed(r)' /\ Kept(r)'
  <2>1. /\ UNCHANGED <<fetched, todo, barred, reading, clean, pc>> /\ Entries(r)' = Entries(r)
        /\ pc[r] = "prune" /\ doomed'[r] = doomed[r] \ {b}
    BY <1>11 DEF PruneBook, Entries
  <2> QED BY <1>1, <2>1 DEF EntryListed, Kept
<1> QED BY <1>2, <1>3, <1>4, <1>5, <1>6, <1>7, <1>8, <1>9, <1>10, <1>11 DEF RunStep

(* What happens beside the runs leaves their merges alone, but for a book  *)
(* that leaves a shelf, which is then no longer sure to be listed.         *)
LEMMA BesideMerge ==
    ASSUME SyncInv, \/ Tick \/ TickSkipped \/ Environment \/ UNCHANGED vars
                    \/ \E b \in Books : JobStep(b)
    PROVE  EntriesListed' /\ CleanKept'
<1> USE DEF SyncInv, SyncTypeOK, MergeTypes, RunTypes, audibleVars, mergeVars, runVars,
            EntriesListed, CleanKept
<1>1. ASSUME UNCHANGED <<shelf, mergeVars>>,
             \A r \in Runners : pc'[r] = pc[r] \/ {pc[r], pc'[r]} \subseteq
                                                   {"idle", "asked", "record"} \cup Phases
      PROVE  EntriesListed' /\ CleanKept'
  <2>1. ASSUME NEW r \in Runners
        PROVE  EntryListed(r)' /\ Kept(r)'
    BY <1>1, MergeUntouched DEF MergeOf, Phases
  <2> QED BY <2>1
<1>2. CASE TickSkipped \/ UNCHANGED vars
  BY <1>1, <1>2 DEF TickSkipped, vars
<1>3. CASE Tick
  <2>1. UNCHANGED <<shelf, mergeVars>> /\ pc[Timer] = "idle"
        /\ \A r \in Runners : pc'[r] = pc[r] \/ (r = Timer /\ pc'[r] = "record")
    BY <1>3, LibrarySyncAssumption DEF Tick, Begin, Goto
  <2> QED BY <1>1, <2>1
<1>4. ASSUME NEW q \in Users, NEW k \in Kinds, Ask(q, k)
      PROVE  EntriesListed' /\ CleanKept'
  <2>1. UNCHANGED <<shelf, mergeVars>> /\ pc[q] = "idle"
        /\ \A r \in Runners : pc'[r] = pc[r] \/ (r = q /\ pc'[r] = "asked")
    BY <1>4 DEF Ask, Goto
  <2> QED BY <1>1, <2>1
<1>5. ASSUME NEW a \in Accounts, NEW b \in Books, ShelfChanges(a, b)
      PROVE  EntriesListed' /\ CleanKept'
  <2> SUFFICES ASSUME NEW r \in Runners
               PROVE  EntryListed(r)' /\ Kept(r)'
    OBVIOUS
  <2>1. /\ UNCHANGED <<pc, targets, fetched, todo, barred, reading, keep, doomed>>
        /\ \A c \in Accounts : \A x \in clean'[r] : x \in shelf[c] => x \in shelf'[c]
        /\ clean'[r] \subseteq clean[r]
    <3>1. CASE b \in shelf[a]
      <4>1. /\ shelf' = [shelf EXCEPT ![a] = @ \ {b}]
            /\ clean' = [q \in Runners |-> clean[q] \ {b}]
            /\ UNCHANGED <<pc, targets, fetched, todo, barred, reading, keep, doomed>>
        BY <1>5, <3>1 DEF ShelfChanges
      <4>2. clean'[r] = clean[r] \ {b}
        BY <4>1
      <4>3. \A c \in Accounts, x \in Books : x # b /\ x \in shelf[c] => x \in shelf'[c]
        BY <4>1 DEF CatalogueTypes
      <4> QED BY <4>1, <4>2, <4>3
    <3>2. CASE b \notin shelf[a]
      <4>1. /\ shelf' = [shelf EXCEPT ![a] = @ \cup {b}] /\ UNCHANGED clean
            /\ UNCHANGED <<pc, targets, fetched, todo, barred, reading, keep, doomed>>
        BY <1>5, <3>2 DEF ShelfChanges
      <4>2. \A c \in Accounts : shelf[c] \subseteq shelf'[c]
        BY <4>1 DEF CatalogueTypes
      <4> QED BY <4>1, <4>2
    <3> QED BY <3>1, <3>2
  <2>2. EntryListed(r)'
    BY <2>1 DEF EntryListed, Entries
  <2>3. Kept(r)'
    BY <2>1 DEF Kept
  <2> QED BY <2>2, <2>3
<1>6. CASE CrashAndRestart
  <2>1. ASSUME NEW r \in Runners
        PROVE  EntryListed(r)' /\ Kept(r)'
    <3>1. todo'[r] = {} /\ reading'[r] = NotReading /\ doomed'[r] = {} /\ pc'[r] = "idle"
      BY <1>6 DEF CrashAndRestart
    <3> QED BY <3>1, NoMerge
  <2> QED BY <2>1
<1>7. CASE \/ \E b \in Books : Flip(b) \/ QueueBook(b) \/ JobStep(b)
           \/ \E a \in Accounts : RemoveAccount(a)
  BY <1>1, <1>7 DEF Flip, QueueBook, JobStep, ClaimJob, DeliverJob, FailJob, RemoveAccount
<1>8. CASE Environment
  BY <1>4, <1>5, <1>6, <1>7, <1>8 DEF Environment, AskSync, AskPhase, AskAfterSetup
<1> QED BY <1>2, <1>3, <1>7, <1>8

-----------------------------------------------------------------------------
(* The theorems *)

(* Every step keeps the inductive invariant.                               *)
LEMMA SyncInvStep ==
    ASSUME SyncInv, [Next]_vars
    PROVE  SyncInv'
<1>1. ASSUME NEW r \in Runners, RunStep(r)
      PROVE  SyncInv'
  <2>1. EntriesListed' /\ CleanKept'
    <3>1. ASSUME NEW q \in Runners
          PROVE  EntryListed(q)' /\ Kept(q)'
      <4>1. CASE q = r
        BY <1>1, <4>1, RunStepMerge
      <4>2. CASE q # r
        BY <1>1, <4>2, OthersApart, MergeUntouched DEF SyncInv, EntriesListed, CleanKept
      <4> QED BY <4>1, <4>2
    <3> QED BY <3>1 DEF EntriesListed, CleanKept
  <2> QED BY <1>1, <2>1, RunStepTypes, RunStepControl DEF SyncInv, Control
<1>2. CASE \/ Tick \/ TickSkipped \/ Environment \/ UNCHANGED vars
           \/ \E b \in Books : JobStep(b)
  BY <1>2, BesideTypes, BesideControl, BesideMerge DEF SyncInv, Control
<1> QED BY <1>1, <1>2 DEF Next

(* At first nothing is listed, nothing runs and nothing is shown.          *)
LEMMA SyncInvInit == Init => SyncInv
<1> SUFFICES ASSUME Init PROVE SyncInv
  OBVIOUS
<1> USE LibrarySyncAssumption DEF Init
<1>1. CatalogueTypes /\ ProgressTypes
  BY DEF CatalogueTypes, ProgressTypes, Present, BookStatus, PhaseStatus
<1>2. MergeTypes
  <2>1. NotReading \in EntryRead
    BY DEF NotReading, EntryRead, BookStatus
  <2> QED BY <2>1 DEF MergeTypes
<1>3. RunTypes
  BY DEF RunTypes, RunPCs
<1>4. KindFits /\ Exclusive /\ PhaseHeld /\ RecordHeld
  BY DEF KindFits, Fits, AudiblePCs, ServerPhases, Exclusive, InSync, PhaseHeld, RecordHeld
<1>5. EntriesListed /\ CleanKept
  BY DEF EntriesListed, EntryListed, CleanKept, Kept, NotReading
<1> QED BY <1>1, <1>2, <1>3, <1>4, <1>5 DEF SyncInv, SyncTypeOK

(* The inductive invariant of the library sync.                            *)
THEOREM SyncInvariant == Spec => []SyncInv
<1>1. SyncInv /\ [Next]_vars => SyncInv'
  BY SyncInvStep
<1> QED BY <1>1, SyncInvInit, PTL DEF Spec

(* Whatever runs are asked for, and however they fail, every variable of   *)
(* the sync keeps its type: no write of a row, a phase or a record leaves  *)
(* the states the code knows.                                              *)
THEOREM SyncTypeCorrect == Spec => []SyncTypeOK
<1>1. SyncInv => SyncTypeOK
  BY DEF SyncInv
<1> QED BY <1>1, SyncInvariant, PTL

(* However many runners ask, and whatever flag their handlers looked at,   *)
(* two syncs or phases never run at once; and when none runs none is shown *)
(* to, in its phases or in the newest record, but for a crash or a write   *)
(* that failed.                                                            *)
THEOREM SyncAlone == Spec => []OneSync
<1>1. SyncInv => OneSync
  <2> SUFFICES ASSUME SyncInv PROVE OneSync
    OBVIOUS
  <2>1. \A r \in Runners, p \in Phases : InPhase(r, p) => InSync(r)
    BY DEF InPhase, InSync, AudiblePCs, Phases
  <2>2. Settled
    BY <2>1 DEF SyncInv, Settled, Exclusive, PhaseHeld, RecordHeld, Recorded
  <2> QED BY <2>2 DEF SyncInv, OneSync
<1> QED BY <1>1, SyncInvariant, PTL

(* A sync never deletes a book that some connected account listed from its *)
(* start on, unless a fetch or a database call of this sync failed or came *)
(* up short: for any number of accounts, shared books and runs.            *)
THEOREM ListedSpared == Spec => SparesListed
<1> DEFINE Spares == \A b \in Books : b \in Present /\ bookSt'[b] = "absent"
                        => \E r \in Runners : pc[r] = "prune" /\ b \notin clean[r]
<1>1. ASSUME SyncInv, [Next]_vars
      PROVE  Spares
  <2> SUFFICES ASSUME NEW b \in Books, bookSt[b] # "absent", bookSt'[b] = "absent"
               PROVE  \E r \in Runners : pc[r] = "prune" /\ b \notin clean[r]
    BY DEF Present
  <2> USE DEF bookVars
  <2>1. PICK r \in Runners, c \in Books : PruneBook(r, c) /\ DeleteBook(c)
    <3> SUFFICES ASSUME \A r \in Runners, c \in Books : ~(PruneBook(r, c) /\ DeleteBook(c))
                 PROVE  FALSE
      OBVIOUS
    <3> USE DEF SyncInv, SyncTypeOK, CatalogueTypes
    <3>1. CASE UNCHANGED bookSt
      BY <3>1
    <3>2. CASE Reconcile \/ QueueNewBooks
      BY <1>1, <3>2, ReconcileKeeps
    <3>3. ASSUME NEW r \in Runners, RunStep(r)
          PROVE  FALSE
      <4>1. CASE WriteBook(r)
        <5>1. StatusToWrite(r) # "absent"
          BY <1>1, <4>1 DEF StatusToWrite, WriteBook, EntriesListed, EntryListed
        <5> QED BY <4>1, <5>1 DEF WriteBook
      <4>2. ASSUME NEW c \in Books, PruneBook(r, c)
            PROVE  FALSE
        BY <3>1, <4>2 DEF PruneBook
      <4>3. CASE ScanFiles(r) \/ QueueAfterSync(r)
        BY <3>1, <3>2, <4>3 DEF ScanFiles, QueueAfterSync
      <4> QED BY <3>1, <3>3, <4>1, <4>2, <4>3
              DEF RunStep, Refused, Start, Begin, CreateRecord, FetchAccount, Merge,
                  ReadBook, ReadFails, WriteFails, ListForPrune, AfterAudible,
                  EndAudiblePhase, ScanFails, ServerPhase, Finish
    <3>4. ASSUME NEW c \in Books, JobStep(c)
          PROVE  FALSE
      BY <1>1, <3>1, <3>4 DEF JobStep, ClaimJob, DeliverJob, FailJob
    <3>5. CASE Environment
      <4>1. ASSUME NEW c \in Books, QueueBook(c)
            PROVE  FALSE
        BY <1>1, <4>1 DEF QueueBook
      <4>2. CASE CrashAndRestart
        BY <3>2, <4>2 DEF CrashAndRestart
      <4> QED BY <3>1, <3>5, <4>1, <4>2
              DEF Environment, AskSync, AskPhase, AskAfterSetup, Ask, ShelfChanges, Flip,
                  RemoveAccount
    <3>6. CASE Tick \/ TickSkipped \/ UNCHANGED vars
      BY <3>1, <3>6 DEF Tick, Begin, TickSkipped, vars
    <3> QED BY <1>1, <3>3, <3>4, <3>5, <3>6 DEF Next
  <2>2. b = c
    BY <2>1 DEF DeleteBook, SyncInv, SyncTypeOK, CatalogueTypes
  <2>3. b \in doomed[r] /\ pc[r] = "prune"
    BY <2>1, <2>2 DEF PruneBook
  <2> QED BY <1>1, <2>3 DEF SyncInv, CleanKept, Kept
<1>2. SyncInv /\ [Next]_vars => [Spares]_vars
  BY <1>1
<1> QED BY <1>2, SyncInvariant, PTL DEF Spec, SparesListed
=============================================================================
