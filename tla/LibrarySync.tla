---------------------------- MODULE LibrarySync ----------------------------
(***************************************************************************)
(* The library sync: it merges what every connected Audible account lists  *)
(* into the books table, prunes what none lists any more, and then scans   *)
(* files, repairs metadata and asks the media servers, beside the download *)
(* pipeline.  A sync, quick or full, and a run of a single phase exclude   *)
(* each other through one flag, progress.Running.                          *)
(*                                                                         *)
(* Source: internal/library/sync.go, internal/scheduler/cron.go, the sync  *)
(* handlers of internal/web/server.go and setup_handlers.go, and the book, *)
(* account and sync_history statements of internal/database/sqlite.go.     *)
(*                                                                         *)
(* The pipeline is reduced to a job that is queued, worked on, and then    *)
(* delivered or failed (Pipeline has it in full); a scan of the files is   *)
(* one step here (LibraryScan has its interleavings).                      *)
(***************************************************************************)
EXTENDS Integers, FiniteSets

CONSTANTS
    Books,
    Accounts,      \* connected Audible accounts, numbered in creation order
    Shelf0,        \* what each account lists at first
    Ineligible0,   \* what of it is not for download at first
    Users,         \* runners that are not the scheduler: requests to run
    Kinds,         \* what users may ask for: SyncModes and phases
    TimerMode,     \* sync_mode of the scheduler
    AutoQueue,     \* sync_auto_queue_new
    Budget,        \* bound: how often each event of the environment may happen
    NoBook, NoKind

Timer   == "timer"
Runners == Users \cup {Timer}
Phases  == {"audible_sync", "file_scan", "metadata_repair", "plex_sync",
            "collection_sync"}
SyncModes == {"quick", "full"}
NoAccount == 0
Events == {"fetch", "db", "scan", "server", "shelf", "flip", "remove", "queue",
           "crash", "any"}

ASSUME LibrarySyncAssumption ==
    /\ Accounts \subseteq Nat \ {0} /\ IsFiniteSet(Accounts)
    /\ Shelf0 \in [Accounts -> SUBSET Books] /\ Ineligible0 \subseteq Books
    /\ IsFiniteSet(Books) /\ NoBook \notin Books
    /\ Timer \notin Users
    /\ Kinds \subseteq SyncModes \cup Phases /\ NoKind \notin SyncModes \cup Phases
    /\ TimerMode \in SyncModes
    /\ AutoQueue \in BOOLEAN
    /\ Budget \in [Events -> Nat]

VARIABLES
    \* Audible
    shelf,        \* books each account lists
    ineligible,   \* listed books that are not Downloadable()
    \* the database and the disk
    loaded,       \* accounts with a row, credentials and a loaded client
    bookSt,       \* books.status, "absent" without a row, "busy" while a job is
    hasPath,      \* books whose row has a file_path
    routed,       \* books.account_id
    owners,       \* book_audible_accounts
    files,        \* books with a media file in the library directory
    job,          \* "none", "pending" (a queue row), "active" (a stage has it)
    history,      \* status of the newest sync_history row
    unrecorded,   \* runs of the Audible phase that could not write a row
    \* SyncService.progress
    running, phaseSt, shown,
    \* each run
    pc, kind,
    targets,      \* accounts still to be fetched
    fetched,      \* what each account listed to this run
    todo, barred, \* entries not looked at yet; those that are not Downloadable
    reading,      \* the entry being written and its row as it was read
    keep,         \* keepASIN
    added,        \* whether this run has counted a new book
    failed,       \* whether doAudibleSync returned an error
    doomed,       \* listed rows the prune will delete
    \* history and bounds
    clean,        \* history: books every fetch of the run was sure to list
    lost,         \* history: a crash or a failed write left the newest row open
    budget

audibleVars == <<shelf, ineligible>>
bookVars    == <<bookSt, hasPath, routed, owners>>
jobVars     == <<files, job>>
recordVars  == <<history, unrecorded>>
shownVars   == <<running, phaseSt, shown>>
mergeVars   == <<targets, fetched, todo, barred, reading, keep, doomed, clean>>
runVars     == <<pc, kind, mergeVars, added, failed>>
vars == <<audibleVars, loaded, bookVars, jobVars, recordVars, shownVars, runVars,
          lost, budget>>

BookStatus == {"absent", "new", "busy", "complete", "failed", "unavailable"}
PhaseStatus == {"idle", "pending", "running", "complete", "failed", "skipped"}
RunPCs == {"idle", "asked", "record", "fetch", "books", "write", "prune",
           "finish", "queue"} \cup (Phases \ {"audible_sync"})

EntryRead  == [book : Books \cup {NoBook}, path : BOOLEAN, st : BookStatus \cup {"unread"}]
NotReading == [book |-> NoBook, st |-> "absent", path |-> FALSE]

-----------------------------------------------------------------------------
(* Helpers *)

(* Budget bounds each event, and under "any" all of them together.         *)
Spend(k) ==
    /\ budget[k] > 0 /\ budget["any"] > 0
    /\ budget' = [budget EXCEPT ![k] = @ - 1, !["any"] = @ - 1]
Goto(r, l) == pc' = [pc EXCEPT ![r] = l]
SetPhase(p, s) == phaseSt' = [phaseSt EXCEPT ![p] = s]
FirstOf(S) == CHOOSE a \in S : \A c \in S : a <= c

Present   == {b \in Books : bookSt[b] # "absent"}
Listed    == {b \in Books : \E a \in loaded : b \in shelf[a]}
Listing(r, b) == {a \in Accounts : b \in fetched[r][a]}
Entries(r)    == UNION {fetched[r][a] : a \in Accounts}
InSync(r) == pc[r] \notin {"idle", "asked", "queue"}

(* ClientForBook: the account in the book's row, or else the first one.    *)
ClientForBook(b) == IF routed[b] \in loaded THEN routed[b] ELSE FirstOf(loaded)

(* DeleteBook takes the book's queue row with it (ON DELETE CASCADE); a    *)
(* stage that is working on the book does not notice.                      *)
DeleteBook(b) ==
    /\ bookSt' = [bookSt EXCEPT ![b] = "absent"]
    /\ hasPath' = hasPath \ {b}
    /\ routed' = [routed EXCEPT ![b] = NoAccount]
    /\ job' = [job EXCEPT ![b] = IF @ = "pending" THEN "none" ELSE @]

(* What a file scan makes of a row: complete if there is a file for it,    *)
(* new if it was complete and there is none.                               *)
Reconciled(b) ==
    IF bookSt[b] # "absent" /\ b \in files THEN "complete"
    ELSE IF bookSt[b] = "complete" THEN "new" ELSE bookSt[b]
Reconcile ==
    /\ bookSt' = [b \in Books |-> Reconciled(b)]
    /\ hasPath' = {b \in Books : IF Reconciled(b) = "complete" THEN TRUE
                                 ELSE b \in hasPath /\ bookSt[b] # "complete"}

(* QueueNewBooks: a scan, then a job for every book that is new.           *)
QueueNewBooks ==
    /\ bookSt' = [b \in Books |-> IF Reconciled(b) = "new" THEN "busy" ELSE Reconciled(b)]
    /\ hasPath' = {b \in Books : IF Reconciled(b) = "complete" THEN TRUE
                                 ELSE b \in hasPath /\ bookSt[b] # "complete"}
    /\ job' = [b \in Books |-> IF Reconciled(b) = "new" /\ job[b] = "none"
                               THEN "pending" ELSE job[b]]

ClearMerge(r) ==
    /\ targets' = [targets EXCEPT ![r] = {}]
    /\ fetched' = [fetched EXCEPT ![r] = [a \in Accounts |-> {}]]
    /\ todo' = [todo EXCEPT ![r] = {}]
    /\ barred' = [barred EXCEPT ![r] = {}]
    /\ reading' = [reading EXCEPT ![r] = NotReading]
    /\ keep' = [keep EXCEPT ![r] = {}]
    /\ doomed' = [doomed EXCEPT ![r] = {}]
    /\ clean' = [clean EXCEPT ![r] = {}]

-----------------------------------------------------------------------------
(* Asking for a run *)

(* A handler answers at once and leaves the run to a goroutine: asking and *)
(* starting are two steps.                                                 *)
Ask(r, k) ==
    /\ r \in Users /\ pc[r] = "idle"
    /\ kind' = [kind EXCEPT ![r] = k]
    /\ Goto(r, "asked")
    /\ UNCHANGED <<audibleVars, loaded, bookVars, jobVars, recordVars, shownVars,
                   mergeVars, added, failed, lost, budget>>

(* triggerSync and handleRunPhase turn down a request that finds a sync    *)
(* running, or no account to sync; a retry asks for the last mode.         *)
AskSync(r, k)  == k \in SyncModes /\ loaded # {} /\ ~running /\ Ask(r, k)
AskPhase(r, p) ==
    /\ p \in Phases /\ ~running
    /\ p = "audible_sync" => loaded # {}
    /\ Ask(r, p)

(* handleSetupFinish does not look whether one runs.                       *)
AskAfterSetup(r) == "quick" \in Kinds /\ loaded # {} /\ Ask(r, "quick")

PhasesAtStart(k) ==
    CASE k = "full"  -> [p \in Phases |-> "pending"]
      [] k = "quick" -> [p \in Phases |->
            IF p = "audible_sync" THEN "pending"
            ELSE IF shown = "" THEN "skipped" ELSE phaseSt[p]]
      [] OTHER       -> [phaseSt EXCEPT ![k] = "running"]

(* The test and the setting of progress.Running are under one lock.  A     *)
(* single phase is then set running; a sync creates its history row first. *)
Begin(r, k) ==
    /\ running' = TRUE
    /\ shown' = "running"
    /\ phaseSt' = PhasesAtStart(k)
    /\ kind' = [kind EXCEPT ![r] = k]
    /\ added' = [added EXCEPT ![r] = FALSE]
    /\ failed' = [failed EXCEPT ![r] = FALSE]
    /\ Goto(r, IF k \in SyncModes \cup {"audible_sync"} THEN "record" ELSE k)
    /\ UNCHANGED <<audibleVars, loaded, bookVars, jobVars, recordVars, mergeVars,
                   lost, budget>>

StopHere(r) ==
    /\ kind' = [kind EXCEPT ![r] = NoKind]
    /\ added' = [added EXCEPT ![r] = FALSE]
    /\ failed' = [failed EXCEPT ![r] = FALSE]
    /\ Goto(r, "idle")

(* The flag is set: ErrSyncInProgress.                                     *)
Refused(r) ==
    /\ pc[r] = "asked" /\ running
    /\ StopHere(r)
    /\ UNCHANGED <<audibleVars, loaded, bookVars, jobVars, recordVars, shownVars,
                   mergeVars, lost, budget>>

MutStart(r) == pc[r] = "asked" /\ Begin(r, kind[r])
Start(r)    == pc[r] = "asked" /\ ~running /\ Begin(r, kind[r])

(* Scheduler.runSync at a tick of the cron schedule; while a sync runs the *)
(* tick is skipped.                                                        *)
Tick == pc[Timer] = "idle" /\ ~running /\ Begin(Timer, TimerMode)
TickSkipped == running /\ UNCHANGED vars

-----------------------------------------------------------------------------
(* Audible: fetch, merge, write, prune (doAudibleSync) *)

(* CreateSync.  A sync that cannot write its row stops; a single phase     *)
(* goes on without one.  Then syncTargets: the accounts loaded now.        *)
CreateRecord(r) ==
    /\ pc[r] = "record"
    /\ \/ /\ \/ /\ history' = "running" /\ lost' = FALSE
                /\ UNCHANGED <<unrecorded, budget>>
             \/ /\ kind[r] \notin SyncModes /\ Spend("db")
                /\ unrecorded' = unrecorded \cup {r} /\ UNCHANGED <<history, lost>>
          /\ SetPhase("audible_sync", "running")
          /\ targets' = [targets EXCEPT ![r] = loaded]
          /\ clean' = [clean EXCEPT ![r] = Listed]
          /\ Goto(r, "fetch")
          /\ UNCHANGED <<running, shown, kind, added, failed>>
       \/ /\ kind[r] \in SyncModes /\ Spend("db")
          /\ running' = FALSE /\ shown' = "failed" /\ StopHere(r)
          /\ UNCHANGED <<recordVars, lost, phaseSt, targets, clean>>
    /\ UNCHANGED <<audibleVars, loaded, bookVars, jobVars, fetched, todo, barred,
                   reading, keep, doomed>>

(* What the pages of an account's library may add up to when they end      *)
(* early: an empty page, or one with nothing new on it, is taken for the   *)
(* end even below total_results.                                           *)
ShortListings(a) == {S \in SUBSET shelf[a] : S # shelf[a]}

(* One account's library.  It is listed whole or short, or there is an     *)
(* error and the account is skipped (as if it listed nothing).             *)
FetchAccount(r) ==
    /\ pc[r] = "fetch" /\ targets[r] # {}
    /\ LET a == FirstOf(targets[r])
       IN /\ targets' = [targets EXCEPT ![r] = @ \ {a}]
          /\ \/ /\ fetched' = [fetched EXCEPT ![r][a] = shelf[a]]
                /\ UNCHANGED <<clean, budget>>
             \/ /\ Spend("fetch") /\ clean' = [clean EXCEPT ![r] = {}]
                /\ \E S \in ShortListings(a) : fetched' = [fetched EXCEPT ![r][a] = S]
    /\ UNCHANGED <<audibleVars, loaded, bookVars, jobVars, recordVars, shownVars, pc,
                   kind, todo, barred, reading, keep, doomed, added, failed, lost>>

(* The merged entries; none at all is an error.  (suspiciousZeroLibrary    *)
(* reads the row CreateSync has just written and so never speaks.)         *)
Merge(r) ==
    /\ pc[r] = "fetch" /\ targets[r] = {}
    /\ todo' = [todo EXCEPT ![r] = Entries(r)]
    /\ barred' = [barred EXCEPT ![r] = Entries(r) \cap ineligible]
    /\ failed' = [failed EXCEPT ![r] = Entries(r) = {}]
    /\ Goto(r, IF Entries(r) = {} THEN "prune" ELSE "books")
    /\ UNCHANGED <<audibleVars, loaded, bookVars, jobVars, recordVars, shownVars,
                   kind, targets, fetched, reading, keep, doomed, clean, added,
                   lost, budget>>

(* GetBookByASIN.  An entry for download is kept and counted as it is      *)
(* read; if it cannot be read it is passed over, and not kept.             *)
MutReadBook(r, b) ==
    /\ pc[r] = "books" /\ b \in todo[r]
    /\ todo' = [todo EXCEPT ![r] = @ \ {b}]
    /\ reading' = [reading EXCEPT ![r] =
          [book |-> b, st |-> bookSt[b], path |-> b \in hasPath]]
    /\ Goto(r, "write")
    /\ IF b \in barred[r] THEN UNCHANGED <<keep, added>>
       ELSE /\ keep' = [keep EXCEPT ![r] = IF bookSt[b] = "absent" THEN @ ELSE @ \cup {b}]
            /\ added' = [added EXCEPT ![r] = @ \/ bookSt[b] = "absent"]
    /\ UNCHANGED <<audibleVars, loaded, bookVars, jobVars, recordVars, shownVars,
                   kind, targets, fetched, barred, doomed, failed, lost, clean, budget>>
ReadBook(r, b) ==
    /\ pc[r] = "books" /\ b \in todo[r]
    /\ todo' = [todo EXCEPT ![r] = @ \ {b}]
    /\ reading' = [reading EXCEPT ![r] =
          [book |-> b, st |-> bookSt[b], path |-> b \in hasPath]]
    /\ Goto(r, "write")
    /\ IF b \in barred[r] THEN UNCHANGED <<keep, added>>
       ELSE /\ keep' = [keep EXCEPT ![r] = @ \cup {b}]
            /\ added' = [added EXCEPT ![r] = @ \/ bookSt[b] = "absent"]
    /\ UNCHANGED <<audibleVars, loaded, bookVars, jobVars, recordVars, shownVars,
                   kind, targets, fetched, barred, doomed, failed, lost, clean, budget>>

(* The read fails.  What is not for download is written all the same, as   *)
(* if it had no row.                                                       *)
ReadFails(r, b) ==
    /\ pc[r] = "books" /\ b \in todo[r] /\ Spend("db")
    /\ todo' = [todo EXCEPT ![r] = @ \ {b}]
    /\ clean' = [clean EXCEPT ![r] = {}]
    /\ IF b \in barred[r]
       THEN /\ reading' = [reading EXCEPT ![r] =
                  [book |-> b, st |-> "unread", path |-> FALSE]]
            /\ Goto(r, "write")
       ELSE UNCHANGED <<reading, pc>>
    /\ UNCHANGED <<audibleVars, loaded, bookVars, jobVars, recordVars, shownVars,
                   kind, targets, fetched, barred, keep, doomed, added, failed, lost>>

(* What is written back: the local state as it was read.  An entry not for *)
(* download is unavailable unless it has a file.                           *)
MutStatusToWrite(r) ==
    IF reading[r].st = "absent" THEN "new" ELSE reading[r].st
StatusToWrite(r) ==
    LET old == reading[r]
    IN IF old.book \in barred[r] /\ ~old.path THEN "unavailable"
       ELSE IF old.st = "absent" THEN "new" ELSE old.st

(* stampBookAccounts: the first account that lists the book, and all that  *)
(* do; an owner whose account is gone refuses the whole set (foreign key). *)
MutStamp(r, b) ==
    /\ routed' = [routed EXCEPT ![b] = IF @ = NoAccount THEN FirstOf(Listing(r, b)) ELSE @]
    /\ owners' = IF Listing(r, b) \subseteq loaded
                 THEN [owners EXCEPT ![b] = Listing(r, b)] ELSE owners
Stamp(r, b) ==
    /\ routed' = [routed EXCEPT ![b] = FirstOf(Listing(r, b))]
    /\ owners' = IF Listing(r, b) \subseteq loaded
                 THEN [owners EXCEPT ![b] = Listing(r, b)] ELSE owners

WriteBook(r) ==
    /\ pc[r] = "write"
    /\ LET b == reading[r].book
       IN /\ bookSt' = [bookSt EXCEPT ![b] = StatusToWrite(r)]
          /\ hasPath' = IF reading[r].path THEN hasPath \cup {b} ELSE hasPath \ {b}
          /\ Stamp(r, b)
          /\ keep' = [keep EXCEPT ![r] = @ \cup ({b} \cap barred[r])]
          /\ added' = [added EXCEPT ![r] = @ \/ reading[r].st = "absent"]
    /\ reading' = [reading EXCEPT ![r] = NotReading]
    /\ Goto(r, "books")
    /\ UNCHANGED <<audibleVars, loaded, jobVars, recordVars, shownVars, kind, targets,
                   fetched, todo, barred, doomed, clean, failed, lost, budget>>

WriteFails(r) ==
    /\ pc[r] = "write" /\ Spend("db")
    /\ clean' = [clean EXCEPT ![r] = {}]
    /\ reading' = [reading EXCEPT ![r] = NotReading]
    /\ Goto(r, "books")
    /\ UNCHANGED <<audibleVars, loaded, bookVars, jobVars, recordVars, shownVars, kind,
                   targets, fetched, todo, barred, keep, doomed, added, failed, lost>>

(* ListBooks, for the rows that are not kept; if it fails nothing is       *)
(* pruned.                                                                 *)
ListForPrune(r) ==
    /\ pc[r] = "books" /\ todo[r] = {}
    /\ \/ doomed' = [doomed EXCEPT ![r] = Present \ keep[r]] /\ UNCHANGED budget
       \/ Spend("db") /\ UNCHANGED doomed
    /\ Goto(r, "prune")
    /\ UNCHANGED <<audibleVars, loaded, bookVars, jobVars, recordVars, shownVars, kind,
                   targets, fetched, todo, barred, reading, keep, clean, added,
                   failed, lost>>

PruneBook(r, b) ==
    /\ pc[r] = "prune" /\ b \in doomed[r]
    /\ doomed' = [doomed EXCEPT ![r] = @ \ {b}]
    /\ \/ DeleteBook(b) /\ UNCHANGED budget
       \/ Spend("db") /\ UNCHANGED <<bookSt, hasPath, routed, job>>
    /\ UNCHANGED <<audibleVars, loaded, owners, files, recordVars, shownVars, pc, kind,
                   targets, fetched, todo, barred, reading, keep, clean, added,
                   failed, lost>>

-----------------------------------------------------------------------------
(* The other phases, and the end of a run *)

AudibleOver(r) == pc[r] = "prune" /\ doomed[r] = {}
Outcome(r) == IF failed[r] THEN "failed" ELSE "complete"

(* The record's last UpdateSync; its error is ignored.                     *)
CloseRecord(s) ==
    \/ history' = s /\ lost' = FALSE /\ UNCHANGED budget
    \/ Spend("db") /\ lost' = TRUE /\ UNCHANGED history

(* The end of RunPhase.                                                    *)
EndPhaseRun(r, p, s) ==
    /\ SetPhase(p, s)
    /\ running' = FALSE
    /\ shown' = IF s = "failed" THEN "partial" ELSE "complete"
    /\ StopHere(r)

(* After the Audible phase a full sync sets the next phase running, and a  *)
(* quick one scans the files only if it has counted a new book.            *)
AfterAudible(r) ==
    /\ AudibleOver(r) /\ kind[r] \in SyncModes
    /\ phaseSt' = [phaseSt EXCEPT !["audible_sync"] = Outcome(r),
                      !["file_scan"] = IF kind[r] = "full" THEN "running" ELSE @]
    /\ added' = [added EXCEPT ![r] = @ /\ ~failed[r]]
    /\ Goto(r, IF kind[r] = "full" \/ (added[r] /\ ~failed[r]) THEN "file_scan"
               ELSE "finish")
    /\ ClearMerge(r)
    /\ UNCHANGED <<audibleVars, loaded, bookVars, jobVars, recordVars, running, shown,
                   kind, failed, lost, budget>>

EndAudiblePhase(r) ==
    /\ AudibleOver(r) /\ kind[r] = "audible_sync"
    /\ IF r \in unrecorded THEN UNCHANGED <<history, lost, budget>>
       ELSE CloseRecord(Outcome(r))
    /\ unrecorded' = unrecorded \ {r}
    /\ EndPhaseRun(r, "audible_sync", Outcome(r))
    /\ ClearMerge(r)
    /\ UNCHANGED <<audibleVars, loaded, bookVars, jobVars>>

NextPhase == [file_scan |-> "metadata_repair", metadata_repair |-> "plex_sync",
              plex_sync |-> "collection_sync"]

ScanFiles(r) ==
    /\ pc[r] = "file_scan"
    /\ Reconcile
    /\ CASE kind[r] = "full" ->
              /\ phaseSt' = [phaseSt EXCEPT !["file_scan"] = "complete",
                                            !["metadata_repair"] = "running"]
              /\ Goto(r, "metadata_repair")
              /\ UNCHANGED <<running, shown, kind, added, failed>>
         [] kind[r] = "quick" ->
              Goto(r, "finish") /\ UNCHANGED <<shownVars, kind, added, failed>>
         [] OTHER -> EndPhaseRun(r, "file_scan", "complete")
    /\ UNCHANGED <<audibleVars, loaded, routed, owners, jobVars, recordVars, mergeVars,
                   lost, budget>>

(* A scan that fails ends a sync, quick or full: the record is closed,     *)
(* finishProgressWithError, and nothing is queued.                         *)
ScanFails(r) ==
    /\ pc[r] = "file_scan" /\ Spend("scan")
    /\ history' = IF kind[r] \in SyncModes THEN "failed" ELSE history
    /\ UNCHANGED <<unrecorded, lost>>
    /\ IF kind[r] \in SyncModes
       THEN /\ running' = FALSE /\ shown' = "failed" /\ StopHere(r)
            /\ IF kind[r] = "full" THEN SetPhase("file_scan", "failed")
               ELSE UNCHANGED phaseSt
       ELSE EndPhaseRun(r, "file_scan", "failed")
    /\ UNCHANGED <<audibleVars, loaded, bookVars, jobVars, mergeVars>>

(* Metadata repair, the servers' scan and the collections: none of them    *)
(* changes the books, and none that fails stops the sync.                  *)
ServerPhase(r) ==
    /\ pc[r] \in {"metadata_repair", "plex_sync", "collection_sync"}
    /\ LET p == pc[r]
       IN \E s \in {"complete", "failed"} :
             /\ IF s = "failed" THEN Spend("server") ELSE UNCHANGED budget
             /\ IF kind[r] # "full" THEN EndPhaseRun(r, p, s)
                ELSE /\ IF p = "collection_sync"
                        THEN SetPhase(p, s) /\ Goto(r, "finish")
                        ELSE /\ phaseSt' = [phaseSt EXCEPT ![p] = s,
                                               ![NextPhase[p]] = "running"]
                             /\ Goto(r, NextPhase[p])
                     /\ UNCHANGED <<running, shown, kind, added, failed>>
    /\ UNCHANGED <<audibleVars, loaded, bookVars, jobVars, recordVars, mergeVars, lost>>

(* overallStatus: partial if a phase of this mode failed.                  *)
OverallStatus(r) ==
    IF \E p \in Phases : /\ kind[r] = "full" \/ p = "audible_sync"
                         /\ phaseSt[p] = "failed"
    THEN "partial" ELSE "complete"

(* The end of runSync.  With a new book counted, no error and the setting  *)
(* on, the caller goes on to QueueNewBooks after the flag is down.         *)
Finish(r) ==
    /\ pc[r] = "finish"
    /\ CloseRecord(OverallStatus(r)) /\ UNCHANGED unrecorded
    /\ shown' = OverallStatus(r)
    /\ running' = FALSE
    /\ IF added[r] /\ AutoQueue
       THEN Goto(r, "queue") /\ UNCHANGED <<kind, added, failed>>
       ELSE StopHere(r)
    /\ UNCHANGED <<audibleVars, loaded, bookVars, jobVars, phaseSt, mergeVars>>

QueueAfterSync(r) ==
    /\ pc[r] = "queue"
    /\ \/ QueueNewBooks /\ UNCHANGED budget
       \/ Spend("scan") /\ UNCHANGED <<bookSt, hasPath, job>>
    /\ StopHere(r)
    /\ UNCHANGED <<audibleVars, loaded, routed, owners, files, recordVars, shownVars,
                   mergeVars, lost>>

-----------------------------------------------------------------------------
(* Beside the sync *)

(* A book is bought or returned, or shared with the other account.         *)
ShelfChanges(a, b) ==
    /\ Spend("shelf")
    /\ IF b \in shelf[a]
       THEN /\ shelf' = [shelf EXCEPT ![a] = @ \ {b}]
            /\ clean' = [r \in Runners |-> clean[r] \ {b}]
       ELSE /\ shelf' = [shelf EXCEPT ![a] = @ \cup {b}] /\ UNCHANGED clean
    /\ UNCHANGED <<ineligible, loaded, bookVars, jobVars, recordVars, shownVars, pc, kind,
                   targets, fetched, todo, barred, reading, keep, doomed, added,
                   failed, lost>>

Flip(b) ==
    /\ Spend("flip")
    /\ ineligible' = IF b \in ineligible THEN ineligible \ {b} ELSE ineligible \cup {b}
    /\ UNCHANGED <<shelf, loaded, bookVars, jobVars, recordVars, shownVars, runVars, lost>>

(* handleAccountRemove: the row, its owner rows and its client go; a sync  *)
(* under way keeps the client it has.                                      *)
RemoveAccount(a) ==
    /\ a \in loaded /\ Spend("remove")
    /\ loaded' = loaded \ {a}
    /\ owners' = [b \in Books |-> owners[b] \ {a}]
    /\ UNCHANGED <<audibleVars, bookSt, hasPath, routed, jobVars, recordVars, shownVars,
                   runVars, lost>>

(* QueueBook: complete if there is a file, otherwise a job.                *)
QueueBook(b) ==
    /\ bookSt[b] \in {"new", "failed"} /\ job[b] = "none" /\ Spend("queue")
    /\ IF b \in files
       THEN /\ bookSt' = [bookSt EXCEPT ![b] = "complete"]
            /\ hasPath' = hasPath \cup {b} /\ UNCHANGED job
       ELSE /\ bookSt' = [bookSt EXCEPT ![b] = "busy"]
            /\ job' = [job EXCEPT ![b] = "pending"] /\ UNCHANGED hasPath
    /\ UNCHANGED <<audibleVars, loaded, routed, owners, files, recordVars, shownVars,
                   runVars, lost>>

ClaimJob(b) ==
    /\ job[b] = "pending"
    /\ job' = [job EXCEPT ![b] = "active"]
    /\ UNCHANGED <<audibleVars, loaded, bookVars, files, recordVars, shownVars, runVars,
                   lost, budget>>

(* The organizer upserts the book it loaded: a book pruned meanwhile is    *)
(* back.  A job that fails sets the status of the row it knows.            *)
DeliverJob(b) ==
    /\ job[b] = "active"
    /\ job' = [job EXCEPT ![b] = "none"]
    /\ files' = files \cup {b}
    /\ bookSt' = [bookSt EXCEPT ![b] = "complete"]
    /\ hasPath' = hasPath \cup {b}
    /\ UNCHANGED <<audibleVars, loaded, routed, owners, recordVars, shownVars, runVars,
                   lost, budget>>
FailJob(b) ==
    /\ job[b] = "active"
    /\ job' = [job EXCEPT ![b] = "none"]
    /\ \/ bookSt[b] # "absent" /\ bookSt' = [bookSt EXCEPT ![b] = "failed"]
       \/ bookSt[b] # "busy" /\ UNCHANGED bookSt
    /\ UNCHANGED <<audibleVars, loaded, hasPath, routed, owners, files, recordVars,
                   shownVars, runVars, lost, budget>>

(* The process dies and is started again: progress is gone, the newest     *)
(* history row stays as it is, Start requeues what was in a stage and      *)
(* scans the files.                                                        *)
CrashAndRestart ==
    /\ Spend("crash")
    /\ running' = FALSE /\ shown' = "" /\ phaseSt' = [p \in Phases |-> "idle"]
    /\ lost' = (lost \/ history = "running")
    /\ pc' = [r \in Runners |-> "idle"] /\ kind' = [r \in Runners |-> NoKind]
    /\ targets' = [r \in Runners |-> {}] /\ todo' = [r \in Runners |-> {}]
    /\ fetched' = [r \in Runners |-> [a \in Accounts |-> {}]]
    /\ barred' = [r \in Runners |-> {}] /\ keep' = [r \in Runners |-> {}]
    /\ doomed' = [r \in Runners |-> {}] /\ clean' = [r \in Runners |-> {}]
    /\ reading' = [r \in Runners |-> NotReading]
    /\ added' = [r \in Runners |-> FALSE] /\ failed' = [r \in Runners |-> FALSE]
    /\ job' = [b \in Books |-> IF job[b] = "active" /\ bookSt[b] # "absent"
                               THEN "pending" ELSE "none"]
    /\ Reconcile
    /\ unrecorded' = {}
    /\ UNCHANGED <<audibleVars, loaded, routed, owners, files, history>>

-----------------------------------------------------------------------------
(* Specification *)

Init ==
    /\ shelf = Shelf0 /\ ineligible = Ineligible0
    /\ loaded = Accounts
    /\ bookSt = [b \in Books |-> "absent"] /\ hasPath = {}
    /\ routed = [b \in Books |-> NoAccount] /\ owners = [b \in Books |-> {}]
    /\ files = {} /\ job = [b \in Books |-> "none"]
    /\ history = "none" /\ unrecorded = {} /\ running = FALSE /\ shown = ""
    /\ phaseSt = [p \in Phases |-> "idle"]
    /\ pc = [r \in Runners |-> "idle"] /\ kind = [r \in Runners |-> NoKind]
    /\ targets = [r \in Runners |-> {}] /\ todo = [r \in Runners |-> {}]
    /\ fetched = [r \in Runners |-> [a \in Accounts |-> {}]]
    /\ barred = [r \in Runners |-> {}] /\ keep = [r \in Runners |-> {}]
    /\ doomed = [r \in Runners |-> {}] /\ clean = [r \in Runners |-> {}]
    /\ reading = [r \in Runners |-> NotReading]
    /\ added = [r \in Runners |-> FALSE] /\ failed = [r \in Runners |-> FALSE]
    /\ lost = FALSE /\ budget = Budget

RunStep(r) ==
    \/ Refused(r) \/ Start(r) \/ CreateRecord(r) \/ FetchAccount(r) \/ Merge(r)
    \/ \E b \in Books : ReadBook(r, b) \/ ReadFails(r, b) \/ PruneBook(r, b)
    \/ WriteBook(r) \/ WriteFails(r) \/ ListForPrune(r)
    \/ AfterAudible(r) \/ EndAudiblePhase(r) \/ ScanFiles(r) \/ ScanFails(r)
    \/ ServerPhase(r) \/ Finish(r) \/ QueueAfterSync(r)

JobStep(b) == ClaimJob(b) \/ DeliverJob(b) \/ FailJob(b)

Environment ==
    \/ \E r \in Users : \/ \E k \in Kinds : AskSync(r, k) \/ AskPhase(r, k)
                        \/ AskAfterSetup(r)
    \/ \E a \in Accounts, b \in Books : ShelfChanges(a, b)
    \/ \E b \in Books : Flip(b) \/ QueueBook(b)
    \/ \E a \in Accounts : RemoveAccount(a)
    \/ CrashAndRestart

Next ==
    \/ Tick \/ TickSkipped
    \/ \E r \in Runners : RunStep(r)
    \/ \E b \in Books : JobStep(b)
    \/ Environment

Spec == Init /\ [][Next]_vars

(* Goroutines are scheduled, jobs end, and the cron schedule ticks for     *)
(* ever: a user does not hold the flag at every tick.                      *)
FairSpec ==
    /\ Spec
    /\ \A r \in Runners : WF_vars(RunStep(r))
    /\ \A b \in Books : WF_vars(JobStep(b))
    /\ SF_vars(Tick)

-----------------------------------------------------------------------------
(* Properties *)

CatalogueTypes ==
    /\ shelf \in [Accounts -> SUBSET Books] /\ ineligible \subseteq Books
    /\ loaded \subseteq Accounts
    /\ bookSt \in [Books -> BookStatus] /\ hasPath \subseteq Present
    /\ routed \in [Books -> Accounts \cup {NoAccount}]
    /\ owners \in [Books -> SUBSET Accounts]
    /\ files \subseteq Books /\ job \in [Books -> {"none", "pending", "active"}]
ProgressTypes ==
    /\ history \in {"none", "running", "complete", "partial", "failed"}
    /\ unrecorded \subseteq Runners /\ lost \in BOOLEAN
    /\ running \in BOOLEAN /\ shown \in {"", "running", "complete", "partial", "failed"}
    /\ phaseSt \in [Phases -> PhaseStatus]
    /\ budget \in [Events -> Nat]
MergeTypes ==
    /\ targets \in [Runners -> SUBSET Accounts]
    /\ fetched \in [Runners -> [Accounts -> SUBSET Books]]
    /\ todo \in [Runners -> SUBSET Books] /\ barred \in [Runners -> SUBSET Books]
    /\ keep \in [Runners -> SUBSET Books] /\ doomed \in [Runners -> SUBSET Books]
    /\ clean \in [Runners -> SUBSET Books]
    /\ reading \in [Runners -> EntryRead]
RunTypes ==
    /\ pc \in [Runners -> RunPCs] /\ kind \in [Runners -> Kinds \cup {TimerMode, NoKind}]
    /\ added \in [Runners -> BOOLEAN] /\ failed \in [Runners -> BOOLEAN]
SyncTypeOK == CatalogueTypes /\ ProgressTypes /\ MergeTypes /\ RunTypes

(* A quick sync, a full sync and a single phase never run at the same      *)
(* time, whoever asked and however stale the flag a handler looked at      *)
(* ("Only one sync can run at a time", docs/user/sync-library.md), and the *)
(* flag is up exactly while one runs.                                      *)
Exclusive ==
    /\ \A r, q \in Runners : InSync(r) /\ InSync(q) => r = q
    /\ running <=> \E r \in Runners : InSync(r)

(* When no sync runs, none is shown to: no phase is left running, and the  *)
(* newest history row is closed, but for a crash or a write that failed.   *)
Settled ==
    ~running => /\ shown # "running"
                /\ \A p \in Phases : phaseSt[p] # "running"
                /\ history = "running" => lost

(* Together: one sync at a time, and none left open.                       *)
OneSync == Exclusive /\ Settled

(* A sync never deletes a book that was on a connected account's shelf     *)
(* from its start, unless a fetch or a database call of this very sync     *)
(* failed or came up short.                                                *)
SparesListed ==
    [][\A b \in Books :
          b \in Present /\ bookSt'[b] = "absent"
             => \E r \in Runners : pc[r] = "prune" /\ b \notin clean[r]]_vars

(* Every run ends and takes the flag down, whatever fails in it; and       *)
(* however fetches and database calls have failed, accounts gone or jobs   *)
(* raced with it, recurring full syncs bring the catalogue to what the     *)
(* connected accounts list: those books and no others, each downloaded     *)
(* through an account that lists it, and complete if its file is there.    *)
InStep(b) ==
    /\ b \in Present <=> b \in Listed
    /\ b \in Listed => b \in shelf[ClientForBook(b)]
    /\ b \in Listed /\ b \in files => bookSt[b] = "complete" /\ b \in hasPath
CatalogueConverges ==
    /\ running ~> ~running
    /\ <>[](Listed # {} => \A b \in Books : InStep(b))

=============================================================================
