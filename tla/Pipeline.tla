------------------------------ MODULE Pipeline ------------------------------
(***************************************************************************)
(* The download pipeline: the persistent queue (tables download_queue and  *)
(* books), three pools of workers joined by two bounded channels, the      *)
(* registry of cancellable stages, pausing, stopping, crashing and         *)
(* restarting, and the web handlers that act on the same rows.             *)
(*                                                                         *)
(* Source: internal/library/download.go, internal/library/                 *)
(* pipeline_stages.go, the queue statements of internal/database/sqlite.go *)
(* and the queue handlers of internal/web/server.go.                       *)
(*                                                                         *)
(* An action is a stretch of one goroutine between two points where        *)
(* another actor can see or change what it uses.  Progress counters,       *)
(* events, titles and log lines are left out (events: PipelineFeed).       *)
(***************************************************************************)
EXTENDS Integers, Sequences, FiniteSets

CONSTANTS
    Books,            \* books of the catalogue; a book and its ASIN are one
    MaxRows,          \* bound: rows ever inserted into download_queue
    DownloadWorkers, DecryptWorkers, ProcessWorkers,
    QueueCap,         \* capacity of each channel (100 in the code)
    Budget,           \* bound: how often each environment event may happen
    CarefulUser,      \* TRUE: users act only on books with no live row
    NoBook, NoWorker  \* placeholders

Workers == DownloadWorkers \cup DecryptWorkers \cup ProcessWorkers
Rows == 1..MaxRows
Events == {"pause", "cancel", "crash", "stop"}

ASSUME PipelineAssumption ==
    /\ MaxRows \in Nat
    /\ QueueCap \in Nat \ {0}
    /\ Budget \in [Events -> Nat]
    /\ CarefulUser \in BOOLEAN
    /\ IsFiniteSet(Books)
    /\ NoBook \notin Books
    /\ NoWorker \notin Workers
    /\ DownloadWorkers \cap DecryptWorkers = {}
    /\ DownloadWorkers \cap ProcessWorkers = {}
    /\ DecryptWorkers \cap ProcessWorkers = {}

VARIABLES
    \* the database
    rowSt,      \* download_queue.status, "none" for a row not inserted yet
    rowBook,    \* download_queue.book_id / asin
    nextRow,    \* next id of download_queue
    bookSt,     \* books.status
    bookPath,   \* books.file_path: "none", "valid" or "stale" (names no file)
    \* the disk
    enc,        \* books with <asin>.aax(c) and <asin>.json in downloadDir
    dec,        \* books with <asin>.m4b in downloadDir
    library,    \* books with a media file under libraryDir
    \* the process
    phase,      \* "running", "stopping" (context cancelled), "stopped", "crashed"
    paused,     \* dm.paused
    pc,         \* where each worker is
    holding,    \* the pipelineItem each worker is working on
    cancelTok,  \* the ASIN a worker's stage is registered for, or NoBook
    cancelled,  \* workers whose stage context has been cancelled
    slot,       \* dm.activeCancels: ASIN -> the registered stage, or NoWorker
    decryptQ, processQ,  \* dm.decryptQueue, dm.processQueue
    fanning,    \* rows whose post-organize fan-out goroutine is running
    request,    \* the step a QueueBook call for a book is at
    \* history and bounds
    asReorg,    \* rows inserted as reorganize jobs
    budget      \* environment events left

dbVars    == <<rowSt, rowBook, nextRow, bookSt, bookPath>>
diskVars  == <<enc, dec, library>>
stageVars == <<pc, holding, cancelTok, cancelled, slot>>
chanVars  == <<decryptQ, processQ>>
vars == <<dbVars, diskVars, phase, paused, stageVars, chanVars, fanning,
          request, asReorg, budget>>

Claimable  == {"pending", "reorganize"}
Claimed    == {"active", "reorganizing"}
RowStatus  == {"none", "complete", "failed", "cancelled"} \cup Claimable \cup Claimed
Transitional == {"downloading", "decrypting", "processing"}
BookStatus == {"new", "queued", "complete", "failed"} \cup Transitional

(* A pipelineItem: the row it was claimed from and whether its in-memory   *)
(* status IsReorganize().                                                  *)
Job   == [row : Rows, reorg : BOOLEAN]
NoJob == [row |-> 0, reorg |-> FALSE]
StatusInMemory(j) == IF j.reorg THEN "reorganizing" ELSE "active"

DownloadPCs == {"idle", "polling", "claimed", "downloading", "pushDecrypt",
                "pushMove", "failRow", "failBook", "leaving", "exited"}
DecryptPCs  == {"idle", "awaitMeta", "decrypting", "pushProcess",
                "failRow", "failBook", "leaving", "exited"}
ProcessPCs  == {"idle", "moving", "moved", "completing",
                "failRow", "failBook", "leaving", "exited"}
EmptyHanded == {"idle", "polling", "leaving", "exited"}

-----------------------------------------------------------------------------
(* Helpers *)

BookOf(w) == rowBook[holding[w].row]
Up        == phase = "running"      \* the workers' context is live
Serving   == phase # "crashed"      \* the web handlers run

(* A database write made with a context succeeds only while it is live:    *)
(* every caller in the pipeline logs the error and goes on.                *)
SetRow(r, s, live)  == rowSt'  = IF live THEN [rowSt EXCEPT ![r] = s] ELSE rowSt
SetBook(b, s, live) == bookSt' = IF live THEN [bookSt EXCEPT ![b] = s] ELSE bookSt

Goto(w, l) == pc' = [pc EXCEPT ![w] = l]
Hold(w, j) == holding' = [holding EXCEPT ![w] = j]
Spend(k)   == budget[k] > 0 /\ budget' = [budget EXCEPT ![k] = @ - 1]

(* registerActiveCancel: whatever is registered for the ASIN is cancelled  *)
(* and replaced.  A token is the worker whose stage registered it: a       *)
(* worker gives its token back before it registers again.                  *)
RegisterActiveCancel(w, b) ==
    /\ cancelTok' = [cancelTok EXCEPT ![w] = b]
    /\ slot' = [slot EXCEPT ![b] = w]
    /\ cancelled' = cancelled \cup ({slot[b]} \ {NoWorker})

(* unregisterActiveCancel, then the deferred cancelItem: the slot is freed *)
(* only if it still holds this stage's token.                              *)
MutUnregisterAny(w) ==
    /\ slot' = [b \in Books |-> IF cancelTok[w] = b THEN NoWorker ELSE slot[b]]
    /\ cancelTok' = [cancelTok EXCEPT ![w] = NoBook]
    /\ cancelled' = cancelled \ {w}
UnregisterActiveCancel(w) ==
    /\ slot' = [b \in Books |-> IF cancelTok[w] = b /\ slot[b] = w
                                THEN NoWorker ELSE slot[b]]
    /\ cancelTok' = [cancelTok EXCEPT ![w] = NoBook]
    /\ cancelled' = cancelled \ {w}

(* cleanupDownloadFiles *)
MutCleanupDecryptedOnly(b) == enc' = enc /\ dec' = dec \ {b}
CleanupDownloadFiles(b) == enc' = enc \ {b} /\ dec' = dec \ {b}

-----------------------------------------------------------------------------
(* Download workers: downloadWorker, handleDownloadStage *)

(* The loop's first test: while paused the worker only sleeps.  Then the   *)
(* select: a dead context ends the worker (WorkerExits), else it polls.    *)
MutGoesOn == ~paused
GoesOn == ~paused /\ Up

PollCheck(w) ==
    /\ pc[w] = "idle" /\ w \in DownloadWorkers /\ GoesOn
    /\ Goto(w, "polling")
    /\ UNCHANGED <<dbVars, diskVars, phase, paused, holding, cancelTok,
                   cancelled, slot, chanVars, fanning, request, asReorg, budget>>

(* GetNextPendingDownload: read and claim in one transaction.  Which       *)
(* claimable row has the best priority is left open.  On a dead context    *)
(* the query fails and the worker starts its loop again.                   *)
MutClaimStatus(st) == st
ClaimStatus(st) == IF st = "reorganize" THEN "reorganizing" ELSE "active"

ClaimNext(w) ==
    /\ pc[w] = "polling"
    /\ \/ \E r \in Rows :
            /\ Up /\ rowSt[r] \in Claimable
            /\ rowSt' = [rowSt EXCEPT ![r] = ClaimStatus(@)]
            /\ Hold(w, [row |-> r, reorg |-> rowSt[r] = "reorganize"])
            /\ Goto(w, "claimed")
       \/ /\ ~Up \/ \A r \in Rows : rowSt[r] \notin Claimable
          /\ Goto(w, "idle")
          /\ UNCHANGED <<rowSt, holding>>
    /\ UNCHANGED <<rowBook, nextRow, bookSt, bookPath, diskVars, phase, paused,
                   cancelTok, cancelled, slot, chanVars, fanning, request,
                   asReorg, budget>>

(* The queue was paused between the first test and the claim:              *)
(* requeueClaimedDownload puts the row back as the kind it was.            *)
MutRequeueStatus(reorg) == "pending"
MutRequeueAsBookStatus(reorg) == IF reorg THEN "reorganize" ELSE "queued"
RequeueStatus(reorg) == IF reorg THEN "reorganize" ELSE "pending"

RequeueClaimed(w) ==
    /\ pc[w] = "claimed" /\ paused
    /\ SetRow(holding[w].row, RequeueStatus(holding[w].reorg), Up)
    /\ Hold(w, NoJob) /\ Goto(w, "idle")
    /\ UNCHANGED <<rowBook, nextRow, bookSt, bookPath, diskVars, phase, paused,
                   cancelTok, cancelled, slot, chanVars, fanning, request,
                   asReorg, budget>>

(* GetBook fails (the database, or the context at shutdown): failItem.     *)
LoadFails(w) ==
    /\ pc[w] = "claimed" /\ ~paused
    /\ Goto(w, "failRow")
    /\ UNCHANGED <<dbVars, diskVars, phase, paused, holding, cancelTok,
                   cancelled, slot, chanVars, fanning, request, asReorg, budget>>

BeginDownload(w) ==
    /\ pc[w] = "claimed" /\ ~paused /\ Up /\ ~holding[w].reorg
    /\ RegisterActiveCancel(w, BookOf(w))
    /\ SetRow(holding[w].row, "active", TRUE)
    /\ SetBook(BookOf(w), "downloading", TRUE)
    /\ Goto(w, "downloading")
    /\ UNCHANGED <<rowBook, nextRow, bookPath, diskVars, phase, paused, holding,
                   chanVars, fanning, request, asReorg, budget>>

(* A reorganize job skips download and decrypt and registers nothing here. *)
BeginReorganize(w) ==
    /\ pc[w] = "claimed" /\ ~paused /\ Up /\ holding[w].reorg
    /\ SetRow(holding[w].row, StatusInMemory(holding[w]), TRUE)
    /\ SetBook(BookOf(w), "processing", TRUE)
    /\ Goto(w, "pushMove")
    /\ UNCHANGED <<rowBook, nextRow, bookPath, diskVars, phase, paused, holding,
                   cancelTok, cancelled, slot, chanVars, fanning, request,
                   asReorg, budget>>

(* The transfer ends: the row is saved as the item is in memory (the       *)
(* writer did so every five seconds).                                      *)
DownloadDone(w) ==
    /\ pc[w] = "downloading"
    /\ enc' = enc \cup {BookOf(w)}
    /\ SetRow(holding[w].row, StatusInMemory(holding[w]), Up)
    /\ Goto(w, "pushDecrypt")
    /\ UNCHANGED <<rowBook, nextRow, bookSt, bookPath, dec, library, phase,
                   paused, holding, cancelTok, cancelled, slot, chanVars,
                   fanning, request, asReorg, budget>>

(* A network error, the stall watchdog, the user or a shutdown ended the   *)
(* transfer, or an error ended a decrypt: clean up, then failItem.         *)
StageFails(w) ==
    /\ pc[w] \in {"downloading", "decrypting"}
    /\ CleanupDownloadFiles(BookOf(w))
    /\ Goto(w, "failRow")
    /\ UNCHANGED <<dbVars, library, phase, paused, holding, cancelTok,
                   cancelled, slot, chanVars, fanning, request, asReorg, budget>>

(* A send on a channel: the item passes to the channel, the worker goes on *)
(* to give its token back.                                                 *)
HandOver(q, w) == Append(q, holding[w])

PushDecrypt(w) ==
    /\ pc[w] = "pushDecrypt" /\ Len(decryptQ) < QueueCap
    /\ decryptQ' = HandOver(decryptQ, w)
    /\ Hold(w, NoJob) /\ Goto(w, "leaving")
    /\ UNCHANGED <<dbVars, diskVars, phase, paused, cancelTok, cancelled, slot,
                   processQ, fanning, request, asReorg, budget>>

PushProcess(w) ==
    /\ pc[w] \in {"pushMove", "pushProcess"} /\ Len(processQ) < QueueCap
    /\ processQ' = HandOver(processQ, w)
    /\ Hold(w, NoJob) /\ Goto(w, "leaving")
    /\ UNCHANGED <<dbVars, diskVars, phase, paused, cancelTok, cancelled, slot,
                   decryptQ, fanning, request, asReorg, budget>>

-----------------------------------------------------------------------------
(* Decrypt workers: decryptWorker, handleDecryptStage *)

TakeDecrypt(w) ==
    /\ pc[w] = "idle" /\ w \in DecryptWorkers /\ decryptQ # <<>>
    /\ LET b == rowBook[Head(decryptQ).row]
       IN  /\ RegisterActiveCancel(w, b)
           /\ SetBook(b, "decrypting", Up)
    /\ Hold(w, Head(decryptQ)) /\ decryptQ' = Tail(decryptQ)
    /\ Goto(w, "awaitMeta")
    /\ UNCHANGED <<rowSt, rowBook, nextRow, bookPath, diskVars, phase, paused,
                   processQ, fanning, request, asReorg, budget>>

(* The prefetch goroutine of the item has closed EnrichDone.               *)
MetadataReady(w) ==
    /\ pc[w] = "awaitMeta"
    /\ Goto(w, "decrypting")
    /\ UNCHANGED <<dbVars, diskVars, phase, paused, holding, cancelTok,
                   cancelled, slot, chanVars, fanning, request, asReorg, budget>>

(* ffmpeg is not given the stage's context: a cancel does not stop it.     *)
DecryptDone(w) ==
    /\ pc[w] = "decrypting" /\ BookOf(w) \in enc
    /\ dec' = dec \cup {BookOf(w)}
    /\ Goto(w, "pushProcess")
    /\ UNCHANGED <<dbVars, enc, library, phase, paused, holding, cancelTok,
                   cancelled, slot, chanVars, fanning, request, asReorg, budget>>

(* ctx.Done() wins a select: the stage returns and the item is gone.  The  *)
(* download worker selects on the pool's context, the decrypt worker on    *)
(* its stage's.                                                            *)
ContextDone(w) == ~Up \/ (w \in cancelled /\ w \in DecryptWorkers)

Abandon(w) ==
    /\ pc[w] \in {"pushDecrypt", "pushMove", "awaitMeta", "pushProcess"}
    /\ ContextDone(w)
    /\ Hold(w, NoJob) /\ Goto(w, "leaving")
    /\ UNCHANGED <<dbVars, diskVars, phase, paused, cancelTok, cancelled, slot,
                   chanVars, fanning, request, asReorg, budget>>

-----------------------------------------------------------------------------
(* Process workers: processWorker, handleProcessStage, the organizer *)

TakeProcess(w) ==
    /\ pc[w] = "idle" /\ w \in ProcessWorkers /\ processQ # <<>>
    /\ LET b == rowBook[Head(processQ).row]
       IN  /\ RegisterActiveCancel(w, b)
           /\ SetBook(b, "processing", Up)
    /\ Hold(w, Head(processQ)) /\ processQ' = Tail(processQ)
    /\ Goto(w, "moving")
    /\ UNCHANGED <<rowSt, rowBook, nextRow, bookPath, diskVars, phase, paused,
                   decryptQ, fanning, request, asReorg, budget>>

(* The decrypted file (or its chapters) lands in the library.              *)
MoveFile(w) ==
    /\ pc[w] = "moving" /\ ~holding[w].reorg /\ BookOf(w) \in dec
    /\ dec' = dec \ {BookOf(w)}
    /\ library' = library \cup {BookOf(w)}
    /\ Goto(w, "moved")
    /\ UNCHANGED <<dbVars, enc, phase, paused, holding, cancelTok, cancelled,
                   slot, chanVars, fanning, request, asReorg, budget>>

(* ReorganizeInPlaceWithProgress renames: the recorded path names nothing  *)
(* until the record is written, unless the files were already in place.    *)
(* It uses the path read when the job was claimed; if another job of the   *)
(* book has renamed the files since, the job fails (MoveFails).            *)
RenameFile(w) ==
    /\ pc[w] = "moving" /\ holding[w].reorg
    /\ BookOf(w) \in library /\ bookPath[BookOf(w)] = "valid"
    /\ \E p \in {"stale", "valid"} :
          bookPath' = [bookPath EXCEPT ![BookOf(w)] = p]
    /\ Goto(w, "moved")
    /\ UNCHANGED <<rowSt, rowBook, nextRow, bookSt, diskVars, phase, paused,
                   holding, cancelTok, cancelled, slot, chanVars, fanning,
                   request, asReorg, budget>>

(* The job's work files go, whether it failed or is done; a reorganize     *)
(* job has none.                                                           *)
DropWorkFiles(w) ==
    IF holding[w].reorg THEN UNCHANGED <<enc, dec>> ELSE CleanupDownloadFiles(BookOf(w))

MoveFails(w) ==
    /\ pc[w] = "moving"
    /\ DropWorkFiles(w)
    /\ Goto(w, "failRow")
    /\ UNCHANGED <<dbVars, library, phase, paused, holding, cancelTok,
                   cancelled, slot, chanVars, fanning, request, asReorg, budget>>

(* UpsertBook(complete, path) with the stage's context, then               *)
(* cleanupDownloadFiles.                                                   *)
RecordBook(w) ==
    /\ pc[w] = "moved" /\ Up /\ w \notin cancelled
    /\ SetBook(BookOf(w), "complete", TRUE)
    /\ bookPath' = [bookPath EXCEPT ![BookOf(w)] = "valid"]
    /\ DropWorkFiles(w)
    /\ Goto(w, "completing")
    /\ UNCHANGED <<rowSt, rowBook, nextRow, library, phase, paused, holding,
                   cancelTok, cancelled, slot, chanVars, fanning, request,
                   asReorg, budget>>

(* With that context cancelled the write fails: OrganizeWithProgress (one  *)
(* file) only logs it and the stage goes on, OrganizeMultiFile (chapters)  *)
(* and a reorganize return it and the job fails.                           *)
RecordRefused(w) ==
    /\ pc[w] = "moved" /\ (~Up \/ w \in cancelled)
    /\ DropWorkFiles(w)
    /\ \E l \in IF holding[w].reorg THEN {"failRow"} ELSE {"completing", "failRow"} :
          Goto(w, l)
    /\ UNCHANGED <<dbVars, library, phase, paused, holding, cancelTok,
                   cancelled, slot, chanVars, fanning, request, asReorg, budget>>

(* The row is completed with a context detached from the pool's, then the  *)
(* destination fan-out is launched (goFanOutPostOrganize).                 *)
Complete(w) ==
    /\ pc[w] = "completing"
    /\ SetRow(holding[w].row, "complete", TRUE)
    /\ fanning' = fanning \cup {holding[w].row}
    /\ Hold(w, NoJob) /\ Goto(w, "leaving")
    /\ UNCHANGED <<rowBook, nextRow, bookSt, bookPath, diskVars, phase, paused,
                   cancelTok, cancelled, slot, chanVars, request, asReorg, budget>>

FanOutDone(r) ==
    /\ r \in fanning
    /\ fanning' = fanning \ {r}
    /\ UNCHANGED <<dbVars, diskVars, phase, paused, stageVars, chanVars,
                   request, asReorg, budget>>

-----------------------------------------------------------------------------
(* failItem, and leaving a stage *)

(* failItem writes with the pool's context, so a user's cancel does not    *)
(* lose the failure; a shutdown does.                                      *)
FailRow(w) ==
    /\ pc[w] = "failRow"
    /\ SetRow(holding[w].row, "failed", Up)
    /\ Goto(w, "failBook")
    /\ UNCHANGED <<rowBook, nextRow, bookSt, bookPath, diskVars, phase, paused,
                   holding, cancelTok, cancelled, slot, chanVars, fanning,
                   request, asReorg, budget>>

(* ... then the book, and the queue is paused if the error was a           *)
(* permission error (pauseForPermissionError).                             *)
FailBook(w) ==
    /\ pc[w] = "failBook"
    /\ SetBook(BookOf(w), "failed", Up)
    /\ \/ UNCHANGED <<paused, budget>>
       \/ ~paused /\ paused' = TRUE /\ Spend("pause")
    /\ Hold(w, NoJob) /\ Goto(w, "leaving")
    /\ UNCHANGED <<rowSt, rowBook, nextRow, bookPath, diskVars, phase,
                   cancelTok, cancelled, slot, chanVars, fanning, request, asReorg>>

Leave(w) ==
    /\ pc[w] = "leaving"
    /\ UnregisterActiveCancel(w)
    /\ Goto(w, "idle")
    /\ UNCHANGED <<dbVars, diskVars, phase, paused, holding, chanVars, fanning,
                   request, asReorg, budget>>

(* A worker sees its context cancelled at the top of its loop, a download  *)
(* worker only past the pause test.                                        *)
WorkerExits(w) ==
    /\ phase = "stopping" /\ pc[w] = "idle"
    /\ w \in DownloadWorkers => ~paused
    /\ Goto(w, "exited")
    /\ UNCHANGED <<dbVars, diskVars, phase, paused, holding, cancelTok,
                   cancelled, slot, chanVars, fanning, request, asReorg, budget>>

-----------------------------------------------------------------------------
(* Web handlers *)

LiveRow(b) == \E r \in Rows : rowBook[r] = b /\ rowSt[r] \in Claimable \cup Claimed

(* The environment assumption the progress run makes of its users.         *)
UserMayAct(b) == CarefulUser => ~LiveRow(b) /\ request[b] = "none"

InsertRow(r, b, st) ==
    /\ rowSt' = [rowSt EXCEPT ![r] = st]
    /\ rowBook' = [rowBook EXCEPT ![r] = b]
    /\ nextRow' = r + 1

(* handleQueueBook, and each round of handleQueueAll (QueueNewBooksLimit). *)
RequestQueue(b) ==
    /\ Serving /\ request[b] = "none" /\ UserMayAct(b)
    /\ nextRow \in Rows
    /\ request' = [request EXCEPT ![b] = "insert"]
    /\ UNCHANGED <<dbVars, diskVars, phase, paused, stageVars, chanVars,
                   fanning, asReorg, budget>>

(* handleRedownload (requeue), handleDeleteBookMedia (requeue if the auto  *)
(* queue setting is on): the recorded path is removed, the book is new.    *)
ResetMedia(b, requeue) ==
    /\ Serving /\ request[b] = "none" /\ UserMayAct(b)
    /\ nextRow \in Rows
    /\ library' = IF bookPath[b] = "valid" THEN library \ {b} ELSE library
    /\ SetBook(b, "new", TRUE)
    /\ bookPath' = [bookPath EXCEPT ![b] = "none"]
    /\ request' = [request EXCEPT ![b] = IF requeue THEN "insert" ELSE "none"]
    /\ UNCHANGED <<rowSt, rowBook, nextRow, enc, dec, phase, paused, stageVars,
                   chanVars, fanning, asReorg, budget>>

(* QueueBook: reconcileBookFromLibrary looks for a file at the recorded    *)
(* path and at paths guessed from author and title.  It may find none: it  *)
(* passes over directories, so a book split into chapters is not found.    *)
FileFound(b) == IF b \in library THEN BOOLEAN ELSE {FALSE}

(* A file is found: the book is complete, nothing is queued.               *)
QueueFound(b) ==
    /\ request[b] = "insert" /\ TRUE \in FileFound(b)
    /\ SetBook(b, "complete", TRUE)
    /\ bookPath' = [bookPath EXCEPT ![b] = "valid"]
    /\ request' = [request EXCEPT ![b] = "none"]
    /\ UNCHANGED <<rowSt, rowBook, nextRow, diskVars, phase, paused, stageVars,
                   chanVars, fanning, asReorg, budget>>

(* No file is found for a complete book: it is new again, and not queued.  *)
QueueForget(b) ==
    /\ request[b] = "insert" /\ FALSE \in FileFound(b) /\ bookSt[b] = "complete"
    /\ SetBook(b, "new", TRUE)
    /\ bookPath' = [bookPath EXCEPT ![b] = "none"]
    /\ request' = [request EXCEPT ![b] = "none"]
    /\ UNCHANGED <<rowSt, rowBook, nextRow, diskVars, phase, paused, stageVars,
                   chanVars, fanning, asReorg, budget>>

QueueInsert(b) ==
    /\ request[b] = "insert" /\ FALSE \in FileFound(b) /\ bookSt[b] # "complete"
    /\ nextRow \in Rows
    /\ InsertRow(nextRow, b, "pending")
    /\ request' = [request EXCEPT ![b] = "status"]
    /\ UNCHANGED <<bookSt, bookPath, diskVars, phase, paused, stageVars, chanVars,
                   fanning, asReorg, budget>>

(* QueueBook's second write.                                               *)
QueueStatus(b) ==
    /\ request[b] = "status"
    /\ SetBook(b, "queued", TRUE)
    /\ request' = [request EXCEPT ![b] = "none"]
    /\ UNCHANGED <<rowSt, rowBook, nextRow, bookPath, diskVars, phase, paused,
                   stageVars, chanVars, fanning, asReorg, budget>>

(* handleReorganizeLibrary, for one book its plan would move.              *)
QueueReorganize(b) ==
    /\ Serving /\ request[b] = "none" /\ UserMayAct(b)
    /\ bookSt[b] = "complete" /\ bookPath[b] = "valid" /\ b \in library
    /\ nextRow \in Rows
    /\ InsertRow(nextRow, b, "reorganize")
    /\ asReorg' = asReorg \cup {nextRow}
    /\ UNCHANGED <<bookSt, bookPath, diskVars, phase, paused, stageVars,
                   chanVars, fanning, request, budget>>

(* CancelDownload: only a pending row is cancelled.                        *)
MutCancellable(r) == rowSt[r] \in Claimable \cup Claimed
Cancellable(r) == rowSt[r] = "pending"

CancelDownload(r) ==
    /\ Serving /\ Cancellable(r)
    /\ rowSt' = [rowSt EXCEPT ![r] = "cancelled"]
    /\ UNCHANGED <<rowBook, nextRow, bookSt, bookPath, diskVars, phase, paused,
                   stageVars, chanVars, fanning, request, asReorg, budget>>

(* CancelActiveDownload *)
CancelStage(b) ==
    /\ cancelled' = cancelled \cup ({slot[b]} \ {NoWorker})
    /\ slot' = [slot EXCEPT ![b] = NoWorker]

CancelActive(b) ==
    /\ Serving /\ slot[b] # NoWorker /\ Spend("cancel")
    /\ CancelStage(b)
    /\ UNCHANGED <<dbVars, diskVars, phase, paused, pc, holding, cancelTok,
                   chanVars, fanning, request, asReorg>>

(* handleCancelByASIN: the pending rows of the ASIN, then its stage.  (Its *)
(* CancelDownload of the active rows changes nothing.)                     *)
CancelByASIN(b) ==
    /\ Serving /\ Spend("cancel")
    /\ rowSt' = [r \in Rows |-> IF rowBook[r] = b /\ Cancellable(r)
                                THEN "cancelled" ELSE rowSt[r]]
    /\ CancelStage(b)
    /\ UNCHANGED <<rowBook, nextRow, bookSt, bookPath, diskVars, phase, paused,
                   pc, holding, cancelTok, chanVars, fanning, request, asReorg>>

(* RetryDownload: every failed row of the book is cancelled, one fresh     *)
(* pending row takes their place, whatever kind of job failed.             *)
RetryDownload(r) ==
    /\ Serving /\ rowSt[r] = "failed" /\ nextRow \in Rows
    /\ UserMayAct(rowBook[r])
    /\ rowSt' = [s \in Rows |->
                    IF s = nextRow THEN "pending"
                    ELSE IF rowBook[s] = rowBook[r] /\ rowSt[s] = "failed"
                         THEN "cancelled" ELSE rowSt[s]]
    /\ rowBook' = [rowBook EXCEPT ![nextRow] = rowBook[r]]
    /\ nextRow' = nextRow + 1
    /\ SetBook(rowBook[r], "queued", TRUE)
    /\ UNCHANGED <<bookPath, diskVars, phase, paused, stageVars, chanVars,
                   fanning, request, asReorg, budget>>

(* clearStaleFailedDownloads, run whenever a download page is drawn: a     *)
(* failed row of a book that has its file by now is closed.                *)
ClearStaleFailed(r) ==
    /\ Serving /\ rowSt[r] = "failed"
    /\ bookSt[rowBook[r]] = "complete"
    /\ bookPath[rowBook[r]] = "valid" /\ rowBook[r] \in library
    /\ rowSt' = [rowSt EXCEPT ![r] = "cancelled"]
    /\ UNCHANGED <<rowBook, nextRow, bookSt, bookPath, diskVars, phase, paused,
                   stageVars, chanVars, fanning, request, asReorg, budget>>

(* RetryAllDownloads: a retry for every book with a failed row and        *)
(* neither a pending nor an active one, in one transaction.  "ids" gives   *)
(* each such book its fresh row.                                           *)
RetryBooks ==
    {b \in Books :
        /\ \E r \in Rows : rowBook[r] = b /\ rowSt[r] = "failed"
        /\ ~\E r \in Rows : rowBook[r] = b /\ rowSt[r] \in {"pending", "active"}}

RetryAllDownloads ==
    /\ Serving /\ RetryBooks # {}
    /\ nextRow + Cardinality(RetryBooks) - 1 \in Rows
    /\ \A b \in RetryBooks : UserMayAct(b)
    /\ nextRow' = nextRow + Cardinality(RetryBooks)
    /\ \E ids \in [nextRow..nextRow + Cardinality(RetryBooks) - 1 -> RetryBooks] :
          /\ \A r, s \in DOMAIN ids : ids[r] = ids[s] => r = s
          /\ rowBook' = [r \in Rows |-> IF r \in DOMAIN ids THEN ids[r] ELSE rowBook[r]]
          /\ rowSt' = [r \in Rows |->
                          IF r \in DOMAIN ids THEN "pending"
                          ELSE IF rowBook[r] \in RetryBooks /\ rowSt[r] = "failed"
                               THEN "cancelled" ELSE rowSt[r]]
    /\ bookSt' = [b \in Books |-> IF b \in RetryBooks THEN "queued" ELSE bookSt[b]]
    /\ UNCHANGED <<bookPath, diskVars, phase, paused, stageVars, chanVars,
                   fanning, request, asReorg, budget>>

Pause ==
    /\ Serving /\ ~paused /\ Spend("pause")
    /\ paused' = TRUE
    /\ UNCHANGED <<dbVars, diskVars, phase, stageVars, chanVars, fanning,
                   request, asReorg>>

Resume ==
    /\ Serving /\ paused
    /\ paused' = FALSE
    /\ UNCHANGED <<dbVars, diskVars, phase, stageVars, chanVars, fanning,
                   request, asReorg, budget>>
-----------------------------------------------------------------------------
(* Stop, crash, start *)

(* Stop: the pool's context is cancelled.  handleFactoryReset and          *)
(* handleDBRestore then wait (StopAndWait); main only exits (Crash).       *)
Stop ==
    /\ Up /\ Spend("stop")
    /\ phase' = "stopping"
    /\ UNCHANGED <<dbVars, diskVars, paused, stageVars, chanVars, fanning,
                   request, asReorg>>

(* StopAndWait returns; what is left in the channels is garbage.           *)
StopAndWaitReturns ==
    /\ phase = "stopping"
    /\ \A w \in Workers : pc[w] = "exited"
    /\ fanning = {}
    /\ phase' = "stopped"
    /\ UNCHANGED <<dbVars, diskVars, paused, stageVars, chanVars, fanning,
                   request, asReorg, budget>>

(* The process dies: a kill, or main returning after Stop.                 *)
Crash ==
    /\ Serving /\ Spend("crash")
    /\ phase' = "crashed"
    /\ paused' = FALSE
    /\ pc' = [w \in Workers |-> "exited"]
    /\ holding' = [w \in Workers |-> NoJob]
    /\ cancelTok' = [w \in Workers |-> NoBook]
    /\ cancelled' = {}
    /\ slot' = [b \in Books |-> NoWorker]
    /\ decryptQ' = <<>> /\ processQ' = <<>>
    /\ fanning' = {}
    /\ request' = [b \in Books |-> "none"]
    /\ UNCHANGED <<dbVars, diskVars, asReorg>>

(* reconcileStatuses: what a start makes of a row, and of a book.          *)
MutRecovered(st) == IF st = "active" THEN "pending" ELSE st
MutRecoveredFailed(st) == IF st \in {"active", "failed"} THEN "pending" ELSE st
Recovered(st) == CASE st = "active"       -> "pending"
                   [] st = "reorganizing" -> "reorganize"
                   [] OTHER               -> st

MutReconciledBook(b) ==
    IF \E r \in Rows : rowBook[r] = b /\ rowSt[r] = "complete" THEN "complete"
    ELSE IF bookSt[b] \in Transitional THEN "queued" ELSE bookSt[b]
ReconciledBook(b) ==
    IF /\ \E r \in Rows : rowBook[r] = b /\ rowSt[r] = "complete"
       /\ bookPath[b] = "valid" /\ b \in library
    THEN "complete"
    ELSE IF bookSt[b] \in Transitional THEN "queued" ELSE bookSt[b]

(* reconcileStatuses removes the work files of active rows,                *)
(* cleanupOrphanedFiles those of books with no live row.                   *)
KeepsWorkFiles(b) ==
    LiveRow(b) /\ ~\E r \in Rows : rowBook[r] = b /\ rowSt[r] = "active"

(* reconcileLibraryFiles: each book is complete at the file the scan finds *)
(* for it; a complete book without one is new again.  A file at its        *)
(* recorded path is found, another by its ASIN or its name, if at all.  A  *)
(* failed walk leaves all books alone.                                     *)
ScanFinds(b) == IF b \notin library THEN {FALSE}
                ELSE IF bookPath[b] = "valid" THEN {TRUE} ELSE BOOLEAN

ScannedBook(b, st, found) ==
    IF found THEN [st |-> "complete", path |-> "valid"]
    ELSE IF st = "complete" THEN [st |-> "new", path |-> "none"]
    ELSE [st |-> st, path |-> bookPath[b]]

NewPool ==
    /\ phase' = "running"
    /\ pc' = [w \in Workers |-> "idle"]
    /\ decryptQ' = <<>> /\ processQ' = <<>>

Start ==
    /\ phase \in {"stopped", "crashed"}
    /\ NewPool
    /\ rowSt' = [r \in Rows |-> Recovered(rowSt[r])]
    /\ enc' = {b \in enc : KeepsWorkFiles(b)}
    /\ dec' = {b \in dec : KeepsWorkFiles(b)}
    /\ \/ /\ bookSt' = [b \in Books |-> ReconciledBook(b)]
          /\ UNCHANGED bookPath
       \/ \E found \in [Books -> BOOLEAN] :
             /\ \A b \in Books : found[b] \in ScanFinds(b)
             /\ bookSt' = [b \in Books |->
                    ScannedBook(b, ReconciledBook(b), found[b]).st]
             /\ bookPath' = [b \in Books |->
                    ScannedBook(b, ReconciledBook(b), found[b]).path]
    /\ UNCHANGED <<rowBook, nextRow, library, paused, holding, cancelTok,
                   cancelled, slot, fanning, request, asReorg, budget>>

(* handleFactoryReset: the database is emptied and the download directory  *)
(* purged before the pool starts.  The next sync lists the same books.     *)
FactoryReset ==
    /\ phase = "stopped"
    /\ NewPool
    /\ rowSt' = [r \in Rows |-> "none"]
    /\ rowBook' = [r \in Rows |-> NoBook]
    /\ nextRow' = 1
    /\ bookSt' = [b \in Books |-> "new"]
    /\ bookPath' = [b \in Books |-> "none"]
    /\ enc' = {} /\ dec' = {}
    /\ request' = [b \in Books |-> "none"]
    /\ asReorg' = {}
    /\ UNCHANGED <<library, paused, holding, cancelTok, cancelled, slot,
                   fanning, budget>>

-----------------------------------------------------------------------------
(* The specification *)

Init ==
    /\ rowSt = [r \in Rows |-> "none"]
    /\ rowBook = [r \in Rows |-> NoBook]
    /\ nextRow = 1
    /\ library \in SUBSET Books
    /\ bookSt = [b \in Books |-> IF b \in library THEN "complete" ELSE "new"]
    /\ bookPath = [b \in Books |-> IF b \in library THEN "valid" ELSE "none"]
    /\ enc = {} /\ dec = {}
    /\ phase = "running" /\ paused = FALSE
    /\ pc = [w \in Workers |-> "idle"]
    /\ holding = [w \in Workers |-> NoJob]
    /\ cancelTok = [w \in Workers |-> NoBook]
    /\ cancelled = {}
    /\ slot = [b \in Books |-> NoWorker]
    /\ decryptQ = <<>> /\ processQ = <<>>
    /\ fanning = {}
    /\ request = [b \in Books |-> "none"]
    /\ asReorg = {}
    /\ budget = Budget

DownloadStep(w) ==
    \/ PollCheck(w) \/ ClaimNext(w) \/ RequeueClaimed(w) \/ LoadFails(w)
    \/ BeginDownload(w) \/ BeginReorganize(w) \/ DownloadDone(w)
    \/ PushDecrypt(w)

DecryptStep(w) == TakeDecrypt(w) \/ MetadataReady(w) \/ DecryptDone(w)

ProcessStep(w) ==
    \/ TakeProcess(w) \/ MoveFile(w) \/ RenameFile(w) \/ MoveFails(w)
    \/ RecordBook(w) \/ RecordRefused(w) \/ Complete(w)

EndStep(w) ==
    \/ StageFails(w) \/ PushProcess(w) \/ Abandon(w) \/ FailRow(w)
    \/ FailBook(w) \/ Leave(w) \/ WorkerExits(w)

WorkerStep(w) == DownloadStep(w) \/ DecryptStep(w) \/ ProcessStep(w) \/ EndStep(w)

QueueBookStep(b) ==
    QueueFound(b) \/ QueueForget(b) \/ QueueInsert(b) \/ QueueStatus(b)

UserStep ==
    \/ \E b \in Books :
          \/ RequestQueue(b) \/ QueueReorganize(b)
          \/ \E requeue \in BOOLEAN : ResetMedia(b, requeue)
          \/ CancelActive(b) \/ CancelByASIN(b)
    \/ \E r \in Rows : CancelDownload(r) \/ RetryDownload(r) \/ ClearStaleFailed(r)
    \/ RetryAllDownloads \/ Pause \/ Resume

ProcessLife == Stop \/ StopAndWaitReturns \/ Crash \/ Start \/ FactoryReset

Next ==
    \/ \E w \in Workers : WorkerStep(w)
    \/ \E b \in Books : QueueBookStep(b)
    \/ \E r \in Rows : FanOutDone(r)
    \/ UserStep
    \/ ProcessLife

Spec == Init /\ [][Next]_vars

(* The Go scheduler runs every goroutine; a handler that has begun ends;   *)
(* a killed container is started again (compose.yaml: unless-stopped).     *)
(* Users owe nothing.                                                      *)
Fairness ==
    /\ \A w \in Workers : WF_vars(WorkerStep(w))
    /\ \A b \in Books : WF_vars(QueueBookStep(b))
    /\ \A r \in Rows : WF_vars(FanOutDone(r))
    /\ WF_vars(StopAndWaitReturns)
    /\ WF_vars(Start \/ FactoryReset)

FairSpec == Spec /\ Fairness

-----------------------------------------------------------------------------
(* Properties *)

InChannels == {decryptQ[i] : i \in DOMAIN decryptQ}
                 \cup {processQ[i] : i \in DOMAIN processQ}

(* The type invariant.                                                     *)
TypeOK ==
    /\ rowSt \in [Rows -> RowStatus]
    /\ rowBook \in [Rows -> Books \cup {NoBook}]
    /\ nextRow \in 1..MaxRows + 1
    /\ bookSt \in [Books -> BookStatus]
    /\ bookPath \in [Books -> {"none", "valid", "stale"}]
    /\ enc \subseteq Books /\ dec \subseteq Books /\ library \subseteq Books
    /\ phase \in {"running", "stopping", "stopped", "crashed"}
    /\ paused \in BOOLEAN
    /\ pc \in [Workers -> DownloadPCs \cup DecryptPCs \cup ProcessPCs]
    /\ holding \in [Workers -> Job \cup {NoJob}]
    /\ cancelTok \in [Workers -> Books \cup {NoBook}]
    /\ cancelled \subseteq Workers
    /\ slot \in [Books -> Workers \cup {NoWorker}]
    /\ decryptQ \in Seq(Job) /\ Len(decryptQ) <= QueueCap
    /\ processQ \in Seq(Job) /\ Len(processQ) <= QueueCap
    /\ fanning \subseteq Rows
    /\ request \in [Books -> {"none", "insert", "status"}]
    /\ asReorg \subseteq Rows
    /\ budget \in [Events -> Nat]

(* A claimed row is worked on once: whatever the pauses, retries, stops    *)
(* and crashes, no two workers or channel places hold the same row (the    *)
(* comment in GetNextPendingDownload: "preventing duplicate processing by  *)
(* concurrent workers").                                                   *)
SingleOwner ==
    /\ \A v, w \in Workers :
          v # w /\ holding[v] # NoJob => holding[v].row # holding[w].row
    /\ \A w \in Workers, j \in InChannels : holding[w].row # j.row
    /\ \A i, j \in DOMAIN decryptQ : decryptQ[i].row = decryptQ[j].row => i = j
    /\ \A i, j \in DOMAIN processQ : processQ[i].row = processQ[j].row => i = j
    /\ \A i \in DOMAIN decryptQ, j \in DOMAIN processQ :
          decryptQ[i].row # processQ[j].row

(* Every registered stage can be reached by a cancel until it gives its    *)
(* token back, however late an earlier stage of the same ASIN leaves; and  *)
(* a cancel for an ASIN never reaches a stage of another one.              *)
StageCancellable ==
    /\ \A w \in Workers : cancelTok[w] # NoBook =>
          slot[cancelTok[w]] = w \/ w \in cancelled
    /\ \A b \in Books : slot[b] # NoWorker => cancelTok[slot[b]] = b

(* A reorganize job stays one, and a download stays one, through claims,   *)
(* pauses and recoveries: else a re-download replaces a rename.            *)
KindKept ==
    /\ \A r \in Rows :
          /\ rowSt[r] \in {"pending", "active"} => r \notin asReorg
          /\ rowSt[r] \in {"reorganize", "reorganizing"} => r \in asReorg
    /\ \A w \in Workers : holding[w] # NoJob =>
          (holding[w].reorg <=> holding[w].row \in asReorg)
    /\ \A j \in InChannels : j.reorg <=> j.row \in asReorg

(* A finished row is history: complete and cancelled are final, and a      *)
(* failed row is only ever cancelled, when a retry replaces it or its book *)
(* turns out to be complete.                                               *)
TerminalStep ==
    \A r \in Rows : rowSt[r] \in {"complete", "cancelled", "failed"} =>
        \/ rowSt'[r] = rowSt[r]
        \/ rowSt[r] = "failed" /\ rowSt'[r] = "cancelled"
        \/ nextRow' = 1
TerminalFinal == [][TerminalStep]_vars

(* While the pool runs and nobody cancels stages, a row is marked claimed  *)
(* exactly when some worker or channel has it: none is lost in a hand-over *)
(* or by a restart.                                                        *)
Owned(r) == \/ \E w \in Workers : holding[w].row = r
            \/ \E j \in InChannels : j.row = r
ActiveRowsOwned ==
    phase = "running" => \A r \in Rows : rowSt[r] \in Claimed => Owned(r)

(* A book the catalogue calls complete has its file, at the recorded path, *)
(* through failures, renames and crashes (users act on idle books only).   *)
CompleteHasFile ==
    \A b \in Books : bookSt[b] = "complete" =>
        bookPath[b] = "valid" /\ b \in library

(* Together: no job and no file is lost without a trace.                   *)
NothingStranded == ActiveRowsOwned /\ CompleteHasFile

(* A row becomes complete only when the book is in the library, and its    *)
(* work files are gone by then.                                            *)
DeliveryStep ==
    \A r \in Rows : rowSt[r] # "complete" /\ rowSt'[r] = "complete" =>
        rowBook[r] \in library \ (enc \cup dec)
CompleteMeansOnDisk == [][DeliveryStep]_vars

(* Every job is settled, across pauses (while the queue is not paused),    *)
(* stops and crashes.                                                      *)
JobsSettle ==
    \A r \in Rows :
        rowSt[r] \in Claimable \cup Claimed ~>
            rowSt[r] \in {"none", "complete", "failed", "cancelled"} \/ paused

(* The refinement: to the rest of the system the pipeline is a queue of    *)
(* tickets, each worked on by at most one owner and settled by it.  A      *)
(* channel left behind by a stopped pool owns nothing.                     *)
Seen(st) == CASE st \in Claimable -> "open"
              [] st \in Claimed   -> "held"
              [] OTHER -> st
ticket == [r \in Rows |-> Seen(rowSt[r])]
owned == {r \in Rows :
            \/ \E w \in Workers : holding[w].row = r /\ pc[w] # "failBook"
            \/ phase # "stopped" /\ \E j \in InChannels : j.row = r}

Queue == INSTANCE JobQueue WITH Tickets <- Rows, state <- ticket, worked <- owned
JobQueueSpec == Queue!Spec

(* The parts that make the invariants above inductive.                     *)

(* Rows not inserted yet are blank, inserted ones belong to a book.        *)
RowsInOrder ==
    \A r \in Rows :
        /\ r >= nextRow => rowSt[r] = "none" /\ r \notin asReorg
        /\ r < nextRow => rowBook[r] \in Books

(* A worker holds a job exactly at the steps that need one, and a job in   *)
(* hand or in a channel is of an inserted row that cannot be claimed.      *)
JobsInHand ==
    /\ \A w \in Workers : pc[w] \in EmptyHanded <=> holding[w] = NoJob
    /\ \A w \in Workers : holding[w] # NoJob =>
          holding[w].row < nextRow /\ rowSt[holding[w].row] \notin Claimable
    /\ \A j \in InChannels : j.row < nextRow /\ rowSt[j.row] \notin Claimable

(* The row of a job is marked claimed until its failure has been recorded. *)
HeldClaimed ==
    /\ \A w \in Workers : holding[w] # NoJob /\ pc[w] # "failBook" =>
          rowSt[holding[w].row] \in Claimed
    /\ \A j \in InChannels : rowSt[j.row] \in Claimed

(* A worker that begins a stage has given its last token back.             *)
TokensReturned ==
    \A w \in Workers :
        pc[w] \in {"idle", "polling", "claimed", "exited"} => cancelTok[w] = NoBook

(* No worker outlives its pool.                                            *)
PoolGone ==
    phase \in {"stopped", "crashed"} => \A w \in Workers : pc[w] = "exited"

(* Together: the invariant of the proofs.  Every step keeps it.            *)
IInv == /\ TypeOK /\ RowsInOrder /\ JobsInHand /\ HeldClaimed
        /\ TokensReturned /\ PoolGone
        /\ SingleOwner /\ StageCancellable /\ KindKept

(* download.go, StopAndWait: "cancels all in-flight work and blocks until  *)
(* every worker and post-organize fan-out goroutine exits".  It is so      *)
(* while nobody can pause (no worker waits for another one that has gone,  *)
(* whatever is in the channels), and not with a pause.                     *)
StopAndWaitEnds == phase = "stopping" ~> phase # "stopping"

=============================================================================
