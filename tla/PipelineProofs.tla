--------------------------- MODULE PipelineProofs ---------------------------
(***************************************************************************)
(* Proofs about Pipeline: for every set of books and workers, every number *)
(* of rows and every channel capacity, IInv is inductive; with it the      *)
(* safety properties that hold of any users, the refinement of JobQueue,   *)
(* and the properties that hold of careful users.  Then, about LibraryScan *)
(* on top of it: a scan beside the pipeline keeps that invariant, and      *)
(* heals every book that nobody changes while it runs.                     *)
(***************************************************************************)
EXTENDS LibraryScan, FiniteSetTheorems, TLAPS

(* The book of a job in hand, or at the head of a channel, is a book.      *)
LEMMA JobHasBook ==
    ASSUME TypeOK, RowsInOrder, JobsInHand
    PROVE  /\ \A w \in Workers : pc[w] \notin EmptyHanded =>
                 /\ holding[w] \in Job
                 /\ BookOf(w) \in Books
           /\ \A j \in InChannels : j \in Job /\ rowBook[j.row] \in Books
<1>1. ASSUME NEW w \in Workers, pc[w] \notin EmptyHanded
      PROVE  holding[w] \in Job /\ BookOf(w) \in Books
  <2>1. holding[w] \in Job /\ holding[w].row < nextRow
    BY <1>1 DEF TypeOK, JobsInHand
  <2> QED BY <2>1 DEF RowsInOrder, BookOf, Job
<1>2. ASSUME NEW j \in InChannels
      PROVE  j \in Job /\ rowBook[j.row] \in Books
  <2>1. j \in Job
    BY <1>2 DEF TypeOK, InChannels
  <2> QED BY <2>1 DEF RowsInOrder, JobsInHand, Job
<1> QED BY <1>1, <1>2

(* What a worker receives was in the channel.                              *)
LEMMA HeadInChannel ==
    /\ decryptQ # <<>> /\ TypeOK => Head(decryptQ) \in InChannels
    /\ processQ # <<>> /\ TypeOK => Head(processQ) \in InChannels
BY DEF InChannels, TypeOK

-----------------------------------------------------------------------------
(* Type correctness *)

(* The pool that NewDownloadManager sets up is well typed.                 *)
LEMMA TypeInit == Init => TypeOK
<1> SUFFICES ASSUME Init PROVE TypeOK
  OBVIOUS
<1> USE PipelineAssumption DEF Init
<1>1. /\ rowSt \in [Rows -> RowStatus]
      /\ rowBook \in [Rows -> Books \cup {NoBook}]
      /\ nextRow \in 1..MaxRows + 1
      /\ bookSt \in [Books -> BookStatus]
      /\ bookPath \in [Books -> {"none", "valid", "stale"}]
      /\ enc \subseteq Books /\ dec \subseteq Books /\ library \subseteq Books
  BY DEF RowStatus, BookStatus
<1>2. /\ phase \in {"running", "stopping", "stopped", "crashed"}
      /\ paused \in BOOLEAN
      /\ pc \in [Workers -> DownloadPCs \cup DecryptPCs \cup ProcessPCs]
      /\ holding \in [Workers -> Job \cup {NoJob}]
      /\ cancelTok \in [Workers -> Books \cup {NoBook}]
      /\ cancelled \subseteq Workers
      /\ slot \in [Books -> Workers \cup {NoWorker}]
  BY DEF DownloadPCs
<1>3. /\ decryptQ \in Seq(Job) /\ Len(decryptQ) <= QueueCap
      /\ processQ \in Seq(Job) /\ Len(processQ) <= QueueCap
  BY DEF Init
<1>4. /\ fanning \subseteq Rows
      /\ request \in [Books -> {"none", "insert", "status"}]
      /\ asReorg \subseteq Rows
      /\ budget \in [Events -> Nat]
  OBVIOUS
<1> QED BY <1>1, <1>2, <1>3, <1>4 DEF TypeOK

(* No step of a worker stores a value of another type: jobs come from rows *)
(* and channels, never past the channel's capacity.                        *)
LEMMA TypeWorkerStep ==
    ASSUME TypeOK, RowsInOrder, JobsInHand, NEW w \in Workers, WorkerStep(w)
    PROVE  TypeOK'
<1> USE JobHasBook, PipelineAssumption
        DEF TypeOK, RowStatus, BookStatus, Claimable, Claimed, Transitional, DownloadPCs,
            DecryptPCs, ProcessPCs, EmptyHanded, Goto, Hold, SetRow, SetBook,
            Job, NoJob, StatusInMemory, dbVars, diskVars, stageVars, chanVars
<1>1. CASE DownloadStep(w)
  <2>1. CASE PollCheck(w) BY <2>1 DEF PollCheck
  <2>2. CASE ClaimNext(w)
    <3>1. CASE \E r \in Rows :
                 /\ Up /\ rowSt[r] \in Claimable
                 /\ rowSt' = [rowSt EXCEPT ![r] = ClaimStatus(@)]
                 /\ Hold(w, [row |-> r, reorg |-> rowSt[r] = "reorganize"])
                 /\ Goto(w, "claimed")
      <4>1. PICK r \in Rows :
                 /\ rowSt' = [rowSt EXCEPT ![r] = ClaimStatus(@)]
                 /\ holding' = [holding EXCEPT ![w] =
                       [row |-> r, reorg |-> rowSt[r] = "reorganize"]]
                 /\ pc' = [pc EXCEPT ![w] = "claimed"]
        BY <3>1
      <4>2. (rowSt[r] = "reorganize") \in BOOLEAN
        OBVIOUS
      <4>3. [row |-> r, reorg |-> rowSt[r] = "reorganize"] \in Job
        BY <4>2
      <4>4. ClaimStatus(rowSt[r]) \in RowStatus
        BY DEF ClaimStatus
      <4> QED BY <2>2, <4>1, <4>3, <4>4 DEF ClaimNext
    <3>2. CASE Goto(w, "idle") /\ UNCHANGED <<rowSt, holding>>
      BY <2>2, <3>2 DEF ClaimNext
    <3> QED BY <2>2, <3>1, <3>2 DEF ClaimNext
  <2>3. CASE RequeueClaimed(w) BY <2>3 DEF RequeueClaimed, RequeueStatus
  <2>4. CASE LoadFails(w) BY <2>4 DEF LoadFails
  <2>5. CASE BeginDownload(w) BY <2>5 DEF BeginDownload, RegisterActiveCancel
  <2>6. CASE BeginReorganize(w) BY <2>6 DEF BeginReorganize
  <2>7. CASE DownloadDone(w) BY <2>7 DEF DownloadDone
  <2>8. CASE PushDecrypt(w)
    <3>1. holding[w] \in Job
      BY <2>8 DEF PushDecrypt
    <3>2. /\ decryptQ' \in Seq(Job) /\ Len(decryptQ') <= QueueCap
      BY <2>8, <3>1 DEF PushDecrypt, HandOver
    <3> QED BY <2>8, <3>2 DEF PushDecrypt
  <2> QED BY <1>1, <2>1, <2>2, <2>3, <2>4, <2>5, <2>6, <2>7, <2>8 DEF DownloadStep
<1>2. CASE DecryptStep(w)
  <2>1. CASE TakeDecrypt(w)
        BY <2>1, HeadInChannel DEF TakeDecrypt, RegisterActiveCancel
  <2>2. CASE MetadataReady(w) BY <2>2 DEF MetadataReady
  <2>3. CASE DecryptDone(w) BY <2>3 DEF DecryptDone
  <2> QED BY <1>2, <2>1, <2>2, <2>3 DEF DecryptStep
<1>3. CASE ProcessStep(w)
  <2>1. CASE TakeProcess(w)
        BY <2>1, HeadInChannel DEF TakeProcess, RegisterActiveCancel
  <2>2. CASE MoveFile(w) BY <2>2 DEF MoveFile
  <2>3. CASE RenameFile(w) BY <2>3 DEF RenameFile
  <2>4. CASE MoveFails(w) BY <2>4 DEF MoveFails, DropWorkFiles, CleanupDownloadFiles
  <2>5. CASE RecordBook(w)
        BY <2>5 DEF RecordBook, DropWorkFiles, CleanupDownloadFiles
  <2>6. CASE RecordRefused(w)
        BY <2>6 DEF RecordRefused, DropWorkFiles, CleanupDownloadFiles
  <2>7. CASE Complete(w) BY <2>7 DEF Complete
  <2> QED BY <1>3, <2>1, <2>2, <2>3, <2>4, <2>5, <2>6, <2>7 DEF ProcessStep
<1>4. CASE EndStep(w)
  <2>1. CASE StageFails(w) BY <2>1 DEF StageFails, CleanupDownloadFiles
  <2>2. CASE PushProcess(w)
    <3>1. holding[w] \in Job
      BY <2>2 DEF PushProcess
    <3>2. /\ processQ' \in Seq(Job) /\ Len(processQ') <= QueueCap
      BY <2>2, <3>1 DEF PushProcess, HandOver
    <3> QED BY <2>2, <3>2 DEF PushProcess
  <2>3. CASE Abandon(w) BY <2>3 DEF Abandon
  <2>4. CASE FailRow(w) BY <2>4 DEF FailRow
  <2>5. CASE FailBook(w)
    <3>1. paused' \in BOOLEAN
      BY <2>5 DEF FailBook
    <3>2. budget' \in [Events -> Nat]
      BY <2>5 DEF FailBook, Spend, Events
    <3> QED BY <2>5, <3>1, <3>2 DEF FailBook
  <2>6. CASE Leave(w) BY <2>6 DEF Leave, UnregisterActiveCancel
  <2>7. CASE WorkerExits(w) BY <2>7 DEF WorkerExits
  <2> QED BY <1>4, <2>1, <2>2, <2>3, <2>4, <2>5, <2>6, <2>7 DEF EndStep
<1> QED BY <1>1, <1>2, <1>3, <1>4 DEF WorkerStep

(* RetryAllDownloads opens finitely many rows.                             *)
LEMMA RetryBooksFinite ==
    RetryBooks # {} => Cardinality(RetryBooks) \in Nat \ {0}
<1>1. IsFiniteSet(RetryBooks)
  BY FS_Subset, PipelineAssumption DEF RetryBooks
<1> QED BY <1>1, FS_CardinalityType, FS_EmptySet

(* No web handler, nor either write of QueueBook, stores a value of        *)
(* another type; the new row is within the bound.                          *)
LEMMA TypeUserStep ==
    ASSUME TypeOK, RowsInOrder, UserStep
    PROVE  TypeOK'
<1> USE PipelineAssumption
        DEF TypeOK, RowStatus, BookStatus, Claimable, Claimed, Transitional,
            SetBook, InsertRow, Spend, Events, Rows,
            dbVars, diskVars, stageVars, chanVars
<1>1. ASSUME NEW b \in Books, RequestQueue(b) PROVE TypeOK'
  BY <1>1 DEF RequestQueue
<1>2. ASSUME NEW b \in Books, QueueReorganize(b) PROVE TypeOK'
  BY <1>2 DEF QueueReorganize
<1>3. ASSUME NEW b \in Books, NEW requeue \in BOOLEAN, ResetMedia(b, requeue)
      PROVE  TypeOK'
  BY <1>3 DEF ResetMedia
<1>4. ASSUME NEW b \in Books, CancelActive(b) PROVE TypeOK'
  BY <1>4 DEF CancelActive, CancelStage
<1>5. ASSUME NEW b \in Books, CancelByASIN(b) PROVE TypeOK'
  BY <1>5 DEF CancelByASIN, CancelStage
<1>6. ASSUME NEW r \in Rows, CancelDownload(r) \/ ClearStaleFailed(r)
      PROVE  TypeOK'
  BY <1>6 DEF CancelDownload, ClearStaleFailed
<1>7. ASSUME NEW r \in Rows, RetryDownload(r) PROVE TypeOK'
  <2>1. nextRow' \in 1..MaxRows + 1
    BY <1>7 DEF RetryDownload
  <2>2. rowSt' \in [Rows -> RowStatus]
    BY <1>7 DEF RetryDownload
  <2>3. rowBook' \in [Rows -> Books \cup {NoBook}] /\ bookSt' \in [Books -> BookStatus]
    BY <1>7 DEF RetryDownload
  <2> QED BY <1>7, <2>1, <2>2, <2>3 DEF RetryDownload
<1>8. CASE RetryAllDownloads
  <2>1. Cardinality(RetryBooks) \in Nat \ {0}
    BY <1>8, RetryBooksFinite DEF RetryAllDownloads
  <2>2. nextRow' \in 1..MaxRows + 1
    BY <1>8, <2>1 DEF RetryAllDownloads
  <2>3. PICK ids \in [nextRow..nextRow + Cardinality(RetryBooks) - 1 -> RetryBooks] :
          /\ rowBook' = [r \in Rows |-> IF r \in DOMAIN ids THEN ids[r] ELSE rowBook[r]]
          /\ rowSt' = [r \in Rows |->
                          IF r \in DOMAIN ids THEN "pending"
                          ELSE IF rowBook[r] \in RetryBooks /\ rowSt[r] = "failed"
                               THEN "cancelled" ELSE rowSt[r]]
    BY <1>8 DEF RetryAllDownloads
  <2>4. rowBook' \in [Rows -> Books \cup {NoBook}] /\ rowSt' \in [Rows -> RowStatus]
    BY <2>3 DEF RetryBooks
  <2>5. bookSt' \in [Books -> BookStatus]
    BY <1>8 DEF RetryAllDownloads
  <2> QED BY <1>8, <2>2, <2>4, <2>5 DEF RetryAllDownloads
<1>9. CASE Pause BY <1>9 DEF Pause
<1>10. CASE Resume BY <1>10 DEF Resume
<1> QED BY <1>1, <1>2, <1>3, <1>4, <1>5, <1>6, <1>7, <1>8, <1>9, <1>10 DEF UserStep

(* Stopping, crashing, starting and the factory reset keep the types:      *)
(* recovery maps statuses to statuses.                                     *)
LEMMA TypeProcessLife ==
    ASSUME TypeOK, ProcessLife
    PROVE  TypeOK'
<1> USE PipelineAssumption
        DEF TypeOK, dbVars, diskVars, stageVars, chanVars, Spend, Events
<1>1. CASE Stop BY <1>1 DEF Stop
<1>2. CASE StopAndWaitReturns BY <1>2 DEF StopAndWaitReturns
<1>3. CASE Crash
  <2>1. /\ phase' \in {"running", "stopping", "stopped", "crashed"}
        /\ paused' \in BOOLEAN
        /\ pc' \in [Workers -> DownloadPCs \cup DecryptPCs \cup ProcessPCs]
        /\ holding' \in [Workers -> Job \cup {NoJob}]
        /\ cancelTok' \in [Workers -> Books \cup {NoBook}]
        /\ cancelled' \subseteq Workers
        /\ slot' \in [Books -> Workers \cup {NoWorker}]
    BY <1>3 DEF Crash, DownloadPCs
  <2>2. /\ decryptQ' \in Seq(Job) /\ Len(decryptQ') <= QueueCap
        /\ processQ' \in Seq(Job) /\ Len(processQ') <= QueueCap
    BY <1>3 DEF Crash
  <2>3. /\ fanning' \subseteq Rows
        /\ request' \in [Books -> {"none", "insert", "status"}]
        /\ budget' \in [Events -> Nat]
    BY <1>3 DEF Crash
  <2> QED BY <1>3, <2>1, <2>2, <2>3 DEF Crash
<1>4. CASE Start
  <2>1. rowSt' \in [Rows -> RowStatus]
    BY <1>4 DEF Start, Recovered, RowStatus, Claimable, Claimed
  <2>2. \A b \in Books : ReconciledBook(b) \in BookStatus
    BY DEF ReconciledBook, BookStatus, Transitional
  <2>3. /\ bookSt' \in [Books -> BookStatus]
        /\ bookPath' \in [Books -> {"none", "valid", "stale"}]
    BY <1>4, <2>2 DEF Start, ScannedBook, BookStatus
  <2>4. /\ phase' \in {"running", "stopping", "stopped", "crashed"}
        /\ pc' \in [Workers -> DownloadPCs \cup DecryptPCs \cup ProcessPCs]
        /\ decryptQ' \in Seq(Job) /\ Len(decryptQ') <= QueueCap
        /\ processQ' \in Seq(Job) /\ Len(processQ') <= QueueCap
    BY <1>4 DEF Start, NewPool, DownloadPCs
  <2>5. enc' \subseteq Books /\ dec' \subseteq Books
    BY <1>4 DEF Start
  <2> QED BY <1>4, <2>1, <2>3, <2>4, <2>5 DEF Start
<1>5. CASE FactoryReset
  BY <1>5 DEF FactoryReset, NewPool, RowStatus, BookStatus, DownloadPCs
<1> QED BY <1>1, <1>2, <1>3, <1>4, <1>5 DEF ProcessLife

(* Every step keeps the types.                                             *)
LEMMA TypeStep ==
    ASSUME TypeOK, RowsInOrder, JobsInHand, [Next]_vars
    PROVE  TypeOK'
<1>1. ASSUME NEW w \in Workers, WorkerStep(w) PROVE TypeOK'
  BY <1>1, TypeWorkerStep
<1>2. ASSUME NEW b \in Books, QueueFound(b) \/ QueueForget(b) PROVE TypeOK'
  BY <1>2 DEF QueueFound, QueueForget, SetBook, TypeOK, BookStatus, diskVars,
              stageVars, chanVars
<1>3. ASSUME NEW b \in Books, QueueInsert(b) PROVE TypeOK'
  BY <1>3, PipelineAssumption
  DEF QueueInsert, InsertRow, TypeOK, RowStatus, Claimable, Rows, diskVars,
      stageVars, chanVars
<1>4. ASSUME NEW b \in Books, QueueStatus(b) PROVE TypeOK'
  BY <1>4 DEF QueueStatus, SetBook, TypeOK, BookStatus, diskVars, stageVars, chanVars
<1>5. ASSUME NEW r \in Rows, FanOutDone(r) PROVE TypeOK'
  BY <1>5 DEF FanOutDone, TypeOK, dbVars, diskVars, stageVars, chanVars
<1>6. CASE UserStep BY <1>6, TypeUserStep
<1>7. CASE ProcessLife BY <1>7, TypeProcessLife
<1>8. CASE UNCHANGED vars
  BY <1>8 DEF TypeOK, vars, dbVars, diskVars, stageVars, chanVars
<1> QED BY <1>1, <1>2, <1>3, <1>4, <1>5, <1>6, <1>7, <1>8 DEF Next, QueueBookStep

-----------------------------------------------------------------------------
(* Rows and jobs *)

(* A worker inserts no row and touches none that is not inserted.          *)
LEMMA WorkerRows ==
    ASSUME TypeOK, RowsInOrder, JobsInHand, NEW w \in Workers, WorkerStep(w)
    PROVE  /\ UNCHANGED <<rowBook, nextRow, asReorg, phase>>
           /\ \A r \in Rows : r >= nextRow => rowSt'[r] = rowSt[r]
<1> USE DEF dbVars, diskVars, stageVars, chanVars
<1>1. pc[w] \notin EmptyHanded => holding[w].row < nextRow /\ holding[w].row \in Nat
  BY JobHasBook DEF JobsInHand, TypeOK, Job, Rows
<1>2. CASE ClaimNext(w)
  BY <1>2 DEF ClaimNext, RowsInOrder, Claimable, TypeOK
<1>3. CASE \/ RequeueClaimed(w) \/ BeginDownload(w) \/ BeginReorganize(w)
           \/ DownloadDone(w) \/ Complete(w) \/ FailRow(w)
  <2>1. PICK s : SetRow(holding[w].row, s, TRUE) \/ UNCHANGED rowSt
    BY <1>3 DEF RequeueClaimed, BeginDownload, BeginReorganize, DownloadDone, Complete,
       FailRow, SetRow
  <2>2. pc[w] \notin EmptyHanded
    BY <1>3 DEF RequeueClaimed, BeginDownload, BeginReorganize, DownloadDone, Complete,
       FailRow, EmptyHanded
  <2>3. UNCHANGED <<rowBook, nextRow, asReorg, phase>>
    BY <1>3 DEF RequeueClaimed, BeginDownload, BeginReorganize, DownloadDone,
       Complete, FailRow
  <2>4. ASSUME NEW r \in Rows, r >= nextRow PROVE rowSt'[r] = rowSt[r]
    <3>1. r # holding[w].row
      BY <1>1, <2>2, <2>4 DEF TypeOK, Rows
    <3> QED BY <2>1, <2>4, <3>1 DEF SetRow, TypeOK
  <2> QED BY <2>3, <2>4
<1>4. CASE PollCheck(w) \/ LoadFails(w) \/ PushDecrypt(w) \/ DecryptStep(w)
  BY <1>4 DEF PollCheck, LoadFails, PushDecrypt, DecryptStep,
     TakeDecrypt, MetadataReady, DecryptDone
<1>5. CASE \/ TakeProcess(w) \/ MoveFile(w) \/ RenameFile(w) \/ MoveFails(w)
           \/ RecordBook(w) \/ RecordRefused(w)
  BY <1>5 DEF TakeProcess, MoveFile, RenameFile, MoveFails, RecordBook, RecordRefused
<1>6. CASE \/ StageFails(w) \/ PushProcess(w) \/ Abandon(w) \/ FailBook(w)
           \/ Leave(w) \/ WorkerExits(w)
  BY <1>6 DEF StageFails, PushProcess, Abandon, FailBook, Leave, WorkerExits
<1> QED BY <1>2, <1>3, <1>4, <1>5, <1>6
        DEF WorkerStep, DownloadStep, ProcessStep, EndStep

(* Every step keeps the rows in order of their ids: only InsertRow, the    *)
(* two retries and the factory reset change which rows exist.              *)
LEMMA RowsInOrderStep ==
    ASSUME TypeOK, RowsInOrder, JobsInHand, [Next]_vars
    PROVE  RowsInOrder'
<1> USE PipelineAssumption
        DEF RowsInOrder, dbVars, diskVars, stageVars, chanVars, Rows
<1>1. ASSUME NEW w \in Workers, WorkerStep(w) PROVE RowsInOrder'
  BY <1>1, WorkerRows
<1>2. ASSUME NEW b \in Books, QueueBookStep(b) PROVE RowsInOrder'
  <2>1. CASE QueueInsert(b)
    BY <2>1 DEF QueueInsert, InsertRow, TypeOK
  <2>2. CASE QueueFound(b) \/ QueueForget(b) \/ QueueStatus(b)
    BY <2>2 DEF QueueFound, QueueForget, QueueStatus
  <2> QED BY <1>2, <2>1, <2>2 DEF QueueBookStep
<1>3. ASSUME NEW r \in Rows, FanOutDone(r) PROVE RowsInOrder'
  BY <1>3 DEF FanOutDone
<1>4. CASE UserStep
  <2>1. ASSUME NEW b \in Books, QueueReorganize(b) PROVE RowsInOrder'
    BY <2>1 DEF QueueReorganize, InsertRow, TypeOK
  <2>2. ASSUME NEW b \in Books, CancelByASIN(b) PROVE RowsInOrder'
    BY <2>2 DEF CancelByASIN, Cancellable
  <2>3. ASSUME NEW r \in Rows, CancelDownload(r) \/ ClearStaleFailed(r)
        PROVE  RowsInOrder'
    BY <2>3 DEF CancelDownload, ClearStaleFailed, Cancellable, TypeOK
  <2>4. ASSUME NEW r \in Rows, RetryDownload(r) PROVE RowsInOrder'
    BY <2>4 DEF RetryDownload, TypeOK
  <2>5. CASE RetryAllDownloads
    <3>1. Cardinality(RetryBooks) \in Nat \ {0}
      BY <2>5, RetryBooksFinite DEF RetryAllDownloads
    <3>2. PICK ids \in [nextRow..nextRow + Cardinality(RetryBooks) - 1 -> RetryBooks] :
          /\ rowBook' = [r \in Rows |-> IF r \in DOMAIN ids THEN ids[r] ELSE rowBook[r]]
          /\ rowSt' = [r \in Rows |->
                          IF r \in DOMAIN ids THEN "pending"
                          ELSE IF rowBook[r] \in RetryBooks /\ rowSt[r] = "failed"
                               THEN "cancelled" ELSE rowSt[r]]
      BY <2>5 DEF RetryAllDownloads
    <3>3. nextRow' = nextRow + Cardinality(RetryBooks) /\ UNCHANGED asReorg
      BY <2>5 DEF RetryAllDownloads
    <3>4. RetryBooks \subseteq Books
      BY DEF RetryBooks
    <3>5. ASSUME NEW r \in Rows, r >= nextRow'
          PROVE  rowSt'[r] = "none" /\ r \notin asReorg'
      BY <3>1, <3>2, <3>3, <3>5 DEF TypeOK
    <3>6. ASSUME NEW r \in Rows, r < nextRow'
          PROVE  rowBook'[r] \in Books
      <4>1. CASE r < nextRow
        BY <3>1, <3>2, <4>1 DEF TypeOK
      <4>2. CASE r \in DOMAIN ids
        BY <3>2, <3>4, <4>2
      <4> QED BY <3>1, <3>2, <3>3, <3>6, <4>1, <4>2 DEF TypeOK
    <3> QED BY <3>5, <3>6
  <2>6. CASE \/ \E b \in Books : \/ RequestQueue(b) \/ CancelActive(b)
                                \/ \E requeue \in BOOLEAN : ResetMedia(b, requeue)
             \/ Pause \/ Resume
    BY <2>6 DEF RequestQueue, CancelActive, ResetMedia, Pause, Resume
  <2> QED BY <1>4, <2>1, <2>2, <2>3, <2>4, <2>5, <2>6 DEF UserStep
<1>5. CASE ProcessLife
  <2>1. CASE Stop \/ StopAndWaitReturns \/ Crash
    BY <2>1 DEF Stop, StopAndWaitReturns, Crash
  <2>2. CASE Start
    BY <2>2 DEF Start, Recovered
  <2>3. CASE FactoryReset
    BY <2>3 DEF FactoryReset
  <2> QED BY <1>5, <2>1, <2>2, <2>3 DEF ProcessLife
<1>6. CASE UNCHANGED vars
  BY <1>6 DEF vars
<1> QED BY <1>1, <1>2, <1>3, <1>4, <1>5, <1>6 DEF Next

(* What a send and a receive do to a channel.                              *)
LEMMA Sent ==
    ASSUME NEW S, NEW q \in Seq(S), NEW j \in S
    PROVE  /\ DOMAIN Append(q, j) = 1..Len(q) + 1
           /\ \A i \in 1..Len(q) : Append(q, j)[i] = q[i]
           /\ Append(q, j)[Len(q) + 1] = j
           /\ DOMAIN q = 1..Len(q)
           /\ \A i \in DOMAIN Append(q, j) :
                 Append(q, j)[i] = j \/ \E k \in DOMAIN q : Append(q, j)[i] = q[k]
OBVIOUS

(* After a receive the channel holds what it held, but its head.           *)
LEMMA Received ==
    ASSUME NEW S, NEW q \in Seq(S), q # <<>>
    PROVE  /\ DOMAIN Tail(q) = 1..Len(q) - 1
           /\ \A i \in 1..Len(q) - 1 : Tail(q)[i] = q[i + 1]
           /\ Head(q) = q[1] /\ Len(q) >= 1
           /\ DOMAIN q = 1..Len(q)
           /\ \A i \in DOMAIN Tail(q) : \E k \in DOMAIN q : Tail(q)[i] = q[k]
OBVIOUS

(* A step that leaves jobs where they are, makes no row claimable that     *)
(* somebody has, and moves nobody between the steps with and without job.  *)
LEMMA JobsStay ==
    ASSUME JobsInHand, SingleOwner, TypeOK,
           UNCHANGED <<holding, decryptQ, processQ>>,
           nextRow' \in Int, nextRow' >= nextRow,
           \A v \in Workers : pc'[v] \in EmptyHanded <=> pc[v] \in EmptyHanded,
           \A r \in Rows : r < nextRow /\ rowSt[r] \notin Claimable
                             => rowSt'[r] \notin Claimable
    PROVE  JobsInHand' /\ SingleOwner'
<1>1. InChannels' = InChannels /\ \A j \in InChannels : j \in Job
  BY DEF InChannels, TypeOK
<1>2. \A v \in Workers : holding[v] # NoJob => holding[v] \in Job
  BY DEF TypeOK
<1>3. JobsInHand'
  BY <1>1, <1>2 DEF JobsInHand, Job, TypeOK, Rows
<1>4. SingleOwner'
  BY <1>1 DEF SingleOwner
<1> QED BY <1>3, <1>4

(* A worker that gives its job up.                                         *)
LEMMA JobGone ==
    ASSUME JobsInHand, SingleOwner, TypeOK, NEW w \in Workers,
           UNCHANGED <<decryptQ, processQ, nextRow>>, pc[w] \notin EmptyHanded,
           holding' = [holding EXCEPT ![w] = NoJob],
           \E l \in EmptyHanded : pc' = [pc EXCEPT ![w] = l],
           \A r \in Rows : r # holding[w].row /\ rowSt[r] \notin Claimable
                             => rowSt'[r] \notin Claimable
    PROVE  JobsInHand' /\ SingleOwner'
<1>1. InChannels' = InChannels /\ \A j \in InChannels : j \in Job
  BY DEF InChannels, TypeOK
<1>2. \A v \in Workers : holding[v] # NoJob => holding[v] \in Job
  BY DEF TypeOK
<1>3. \A v \in Workers : holding'[v] # NoJob => v # w /\ holding'[v] = holding[v]
  BY DEF TypeOK
<1>4. \A v \in Workers : holding'[v] = NoJob \/ holding'[v] = holding[v]
  BY <1>3
<1>5. \A v \in Workers : pc'[v] \in EmptyHanded <=> holding'[v] = NoJob
  BY <1>3 DEF JobsInHand, TypeOK
<1>6. \A v \in Workers : holding'[v] # NoJob =>
          holding'[v].row < nextRow' /\ rowSt'[holding'[v].row] \notin Claimable
  BY <1>2, <1>3 DEF JobsInHand, SingleOwner, Job
<1>7. \A j \in InChannels : j.row < nextRow' /\ rowSt'[j.row] \notin Claimable
  BY <1>1 DEF JobsInHand, SingleOwner, Job
<1>8. JobsInHand'
  BY <1>1, <1>5, <1>6, <1>7 DEF JobsInHand
<1>9. \A j \in InChannels : j.row # 0
  BY <1>1 DEF Job, Rows
<1>10. \A u, v \in Workers :
          u # v /\ holding'[u] # NoJob => holding'[u].row # holding'[v].row
  BY <1>2, <1>3, <1>4 DEF SingleOwner, NoJob, Job, Rows
<1>11. \A v \in Workers, j \in InChannels : holding'[v].row # j.row
  BY <1>4, <1>9 DEF SingleOwner, NoJob
<1>12. SingleOwner'
  BY <1>1, <1>10, <1>11 DEF SingleOwner
<1> QED BY <1>8, <1>12

(* GetNextPendingDownload gives a row to one worker: a claimable row is in *)
(* nobody's hands.                                                         *)
LEMMA ClaimOwnership ==
    ASSUME TypeOK, RowsInOrder, JobsInHand, SingleOwner,
           NEW w \in Workers, ClaimNext(w)
    PROVE  JobsInHand' /\ SingleOwner'
<1>1. CASE Goto(w, "idle") /\ UNCHANGED <<rowSt, holding>>
  BY <1>1, ClaimNext(w), JobsStay
  DEF ClaimNext, Goto, TypeOK, EmptyHanded, chanVars
<1>2. CASE \E r \in Rows :
             /\ Up /\ rowSt[r] \in Claimable
             /\ rowSt' = [rowSt EXCEPT ![r] = ClaimStatus(@)]
             /\ Hold(w, [row |-> r, reorg |-> rowSt[r] = "reorganize"])
             /\ Goto(w, "claimed")
  <2>1. PICK r \in Rows :
             /\ rowSt[r] \in Claimable
             /\ rowSt' = [rowSt EXCEPT ![r] = ClaimStatus(@)]
             /\ holding' = [holding EXCEPT ![w] =
                   [row |-> r, reorg |-> rowSt[r] = "reorganize"]]
             /\ pc' = [pc EXCEPT ![w] = "claimed"]
    BY <1>2 DEF Hold, Goto
  <2>2. /\ UNCHANGED <<decryptQ, processQ, nextRow>> /\ InChannels' = InChannels
        /\ \A j \in InChannels : j \in Job
    BY ClaimNext(w) DEF ClaimNext, chanVars, InChannels, TypeOK
  <2>3. r < nextRow /\ r # 0
    BY <2>1 DEF RowsInOrder, Claimable, TypeOK, Rows
  <2>4. \A s \in Rows : rowSt[s] \notin Claimable => rowSt'[s] = rowSt[s]
    BY <2>1 DEF TypeOK
  <2>5. rowSt'[r] \notin Claimable
    BY <2>1 DEF ClaimStatus, Claimable, TypeOK
  <2>6. /\ holding'[w] # NoJob /\ holding'[w].row = r
        /\ \A v \in Workers : v # w => holding'[v] = holding[v]
    BY <2>1, <2>3 DEF TypeOK, NoJob
  <2>7. /\ \A v \in Workers : holding[v] # NoJob =>
                holding[v] \in Job /\ holding[v].row # r
        /\ \A j \in InChannels : j.row # r
    BY <2>1 DEF JobsInHand, TypeOK
  <2>8. \A v \in Workers : holding[v].row # r
    BY <2>3, <2>7 DEF NoJob
  <2>9. JobsInHand'
    <3>1. \A v \in Workers : pc'[v] \in EmptyHanded <=> holding'[v] = NoJob
      BY <2>1, <2>6 DEF JobsInHand, TypeOK, EmptyHanded
    <3>2. \A v \in Workers : holding'[v] # NoJob =>
              holding'[v].row < nextRow' /\ rowSt'[holding'[v].row] \notin Claimable
      BY <2>2, <2>3, <2>4, <2>5, <2>6, <2>7 DEF JobsInHand, Job
    <3>3. \A j \in InChannels : j.row < nextRow' /\ rowSt'[j.row] \notin Claimable
      BY <2>2, <2>4 DEF JobsInHand, Job
    <3> QED BY <2>2, <3>1, <3>2, <3>3 DEF JobsInHand
  <2>10. SingleOwner'
    BY <2>2, <2>6, <2>7, <2>8 DEF SingleOwner
  <2> QED BY <2>9, <2>10
<1> QED BY <1>1, <1>2, ClaimNext(w) DEF ClaimNext

(* A worker that passes its job on.                                        *)
LEMMA SendOwnership ==
    ASSUME TypeOK, RowsInOrder, JobsInHand, SingleOwner,
           NEW w \in Workers, PushDecrypt(w) \/ PushProcess(w)
    PROVE  JobsInHand' /\ SingleOwner'
<1> DEFINE j == holding[w]
<1>1. /\ UNCHANGED <<rowSt, nextRow>>
      /\ pc[w] \notin EmptyHanded
      /\ holding' = [holding EXCEPT ![w] = NoJob]
      /\ pc' = [pc EXCEPT ![w] = "leaving"]
      /\ \/ decryptQ' = Append(decryptQ, j) /\ UNCHANGED processQ
         \/ processQ' = Append(processQ, j) /\ UNCHANGED decryptQ
  BY DEF PushDecrypt, PushProcess, HandOver, Hold, Goto, EmptyHanded, dbVars, chanVars
<1>2. j \in Job /\ j # NoJob
  BY <1>1, JobHasBook DEF JobsInHand
<1>3. /\ decryptQ \in Seq(Job) /\ processQ \in Seq(Job)
      /\ \A v \in Workers : holding[v] # NoJob => holding[v] \in Job
  BY DEF TypeOK
<1>4. InChannels' \subseteq InChannels \cup {j} /\ \A i \in InChannels : i \in Job
  <2>1. \A i \in InChannels : i \in Job
    BY <1>3 DEF InChannels
  <2>2. CASE decryptQ' = Append(decryptQ, j) /\ UNCHANGED processQ
    <3>1. \A i \in DOMAIN decryptQ' :
             decryptQ'[i] = j \/ \E k \in DOMAIN decryptQ : decryptQ'[i] = decryptQ[k]
      BY <1>2, <1>3, <2>2, Sent
    <3> QED BY <2>1, <2>2, <3>1 DEF InChannels
  <2>3. CASE processQ' = Append(processQ, j) /\ UNCHANGED decryptQ
    <3>1. \A i \in DOMAIN processQ' :
             processQ'[i] = j \/ \E k \in DOMAIN processQ : processQ'[i] = processQ[k]
      BY <1>2, <1>3, <2>3, Sent
    <3> QED BY <2>1, <2>3, <3>1 DEF InChannels
  <2> QED BY <1>1, <2>2, <2>3
<1>5. /\ \A v \in Workers : holding'[v] # NoJob => v # w /\ holding'[v] = holding[v]
      /\ \A v \in Workers : pc'[v] \in EmptyHanded <=> holding'[v] = NoJob
  BY <1>1 DEF JobsInHand, TypeOK, EmptyHanded
<1>6. JobsInHand'
  <2>1. \A v \in Workers : holding'[v] # NoJob =>
            holding'[v].row < nextRow' /\ rowSt'[holding'[v].row] \notin Claimable
    BY <1>1, <1>5 DEF JobsInHand
  <2>2. \A i \in InChannels' : i.row < nextRow' /\ rowSt'[i.row] \notin Claimable
    BY <1>1, <1>2, <1>4 DEF JobsInHand
  <2> QED BY <1>5, <2>1, <2>2 DEF JobsInHand
<1>7. SingleOwner'
  <2>1. \A i \in InChannels : i.row # j.row /\ i.row # 0
    BY <1>4 DEF SingleOwner, Job, Rows
  <2>2. \A v \in Workers : v # w => holding[v].row # j.row
    BY <1>2 DEF SingleOwner
  <2>3. \A u, v \in Workers :
            u # v /\ holding'[u] # NoJob => holding'[u].row # holding'[v].row
    BY <1>3, <1>5 DEF SingleOwner, NoJob, Job, Rows
  <2>4. \A v \in Workers : holding'[v] = NoJob \/ (v # w /\ holding'[v] = holding[v])
    BY <1>5
  <2>5. \A v \in Workers, i \in InChannels' : holding'[v].row # i.row
    <3>1. SUFFICES ASSUME NEW v \in Workers, NEW i \in InChannels'
                   PROVE  holding'[v].row # i.row
      OBVIOUS
    <3>2. i \in Job /\ i.row # 0
      BY <1>2, <1>4 DEF Job, Rows
    <3>3. CASE holding'[v] = NoJob
      BY <3>2, <3>3 DEF NoJob
    <3>4. CASE v # w /\ holding'[v] = holding[v]
      BY <1>4, <2>2, <3>4 DEF SingleOwner
    <3> QED BY <2>4, <3>3, <3>4
  <2>6. /\ \A i \in DOMAIN decryptQ : decryptQ[i] \in InChannels
        /\ \A i \in DOMAIN processQ : processQ[i] \in InChannels
    BY DEF InChannels
  <2>7. CASE decryptQ' = Append(decryptQ, j) /\ UNCHANGED processQ
    <3>1. /\ DOMAIN decryptQ' = 1..Len(decryptQ) + 1
          /\ DOMAIN decryptQ = 1..Len(decryptQ) /\ Len(decryptQ) \in Nat
          /\ \A i \in 1..Len(decryptQ) : decryptQ'[i] = decryptQ[i]
          /\ decryptQ'[Len(decryptQ) + 1] = j
      BY <1>2, <1>3, <2>7, Sent
    <3>2. \A i, k \in DOMAIN decryptQ' : decryptQ'[i].row = decryptQ'[k].row => i = k
      BY <2>1, <2>6, <3>1 DEF SingleOwner
    <3>3. \A i \in DOMAIN decryptQ', k \in DOMAIN processQ :
              decryptQ'[i].row # processQ[k].row
      BY <2>1, <2>6, <3>1 DEF SingleOwner
    <3> QED BY <2>3, <2>5, <2>7, <3>2, <3>3 DEF SingleOwner
  <2>8. CASE processQ' = Append(processQ, j) /\ UNCHANGED decryptQ
    <3>1. /\ DOMAIN processQ' = 1..Len(processQ) + 1
          /\ DOMAIN processQ = 1..Len(processQ) /\ Len(processQ) \in Nat
          /\ \A i \in 1..Len(processQ) : processQ'[i] = processQ[i]
          /\ processQ'[Len(processQ) + 1] = j
      BY <1>2, <1>3, <2>8, Sent
    <3>2. \A i, k \in DOMAIN processQ' : processQ'[i].row = processQ'[k].row => i = k
      BY <2>1, <2>6, <3>1 DEF SingleOwner
    <3>3. \A i \in DOMAIN decryptQ, k \in DOMAIN processQ' :
              decryptQ[i].row # processQ'[k].row
      BY <2>1, <2>6, <3>1 DEF SingleOwner
    <3> QED BY <2>3, <2>5, <2>8, <3>2, <3>3 DEF SingleOwner
  <2> QED BY <1>1, <2>7, <2>8
<1> QED BY <1>6, <1>7

(* A worker that takes the job at the head of its channel.                 *)
LEMMA ReceiveOwnership ==
    ASSUME TypeOK, RowsInOrder, JobsInHand, SingleOwner,
           NEW w \in Workers, TakeDecrypt(w) \/ TakeProcess(w)
    PROVE  JobsInHand' /\ SingleOwner'
<1>1. PICK j :
      /\ UNCHANGED <<rowSt, nextRow>>
      /\ pc[w] = "idle"
      /\ holding' = [holding EXCEPT ![w] = j]
      /\ pc' = [pc EXCEPT ![w] = "awaitMeta"] \/ pc' = [pc EXCEPT ![w] = "moving"]
      /\ \/ /\ decryptQ # <<>> /\ j = Head(decryptQ)
            /\ decryptQ' = Tail(decryptQ) /\ UNCHANGED processQ
         \/ /\ processQ # <<>> /\ j = Head(processQ)
            /\ processQ' = Tail(processQ) /\ UNCHANGED decryptQ
  BY DEF TakeDecrypt, TakeProcess, Hold, Goto, dbVars, chanVars
<1>2. j \in InChannels /\ j \in Job /\ j # NoJob /\ j.row # 0
  BY <1>1, HeadInChannel, JobHasBook DEF Job, NoJob, Rows
<1>3. /\ decryptQ \in Seq(Job) /\ processQ \in Seq(Job)
      /\ \A v \in Workers : holding[v] # NoJob => holding[v] \in Job
  BY DEF TypeOK
<1>4. InChannels' \subseteq InChannels
  <2>1. CASE decryptQ # <<>> /\ decryptQ' = Tail(decryptQ) /\ UNCHANGED processQ
    <3>1. \A i \in DOMAIN decryptQ' :
             \E k \in DOMAIN decryptQ : decryptQ'[i] = decryptQ[k]
      BY <1>3, <2>1, Received
    <3> QED BY <2>1, <3>1 DEF InChannels
  <2>2. CASE processQ # <<>> /\ processQ' = Tail(processQ) /\ UNCHANGED decryptQ
    <3>1. \A i \in DOMAIN processQ' :
             \E k \in DOMAIN processQ : processQ'[i] = processQ[k]
      BY <1>3, <2>2, Received
    <3> QED BY <2>2, <3>1 DEF InChannels
  <2> QED BY <1>1, <2>1, <2>2
<1>5. /\ holding'[w] = j
      /\ \A v \in Workers : v # w => holding'[v] = holding[v]
      /\ \A v \in Workers : pc'[v] \in EmptyHanded <=> holding'[v] = NoJob
  BY <1>1, <1>2 DEF JobsInHand, TypeOK, EmptyHanded
<1>6. JobsInHand'
  BY <1>1, <1>2, <1>4, <1>5 DEF JobsInHand
<1>7. \A v \in Workers : holding[v].row # j.row
  BY <1>2 DEF SingleOwner
<1>8. /\ \A i \in DOMAIN decryptQ' : decryptQ'[i].row # j.row
      /\ \A i \in DOMAIN processQ' : processQ'[i].row # j.row
  <2>1. CASE decryptQ # <<>> /\ j = Head(decryptQ)
             /\ decryptQ' = Tail(decryptQ) /\ UNCHANGED processQ
    BY <1>3, <2>1, Received DEF SingleOwner
  <2>2. CASE processQ # <<>> /\ j = Head(processQ)
             /\ processQ' = Tail(processQ) /\ UNCHANGED decryptQ
    BY <1>3, <2>2, Received DEF SingleOwner
  <2> QED BY <1>1, <2>1, <2>2
<1>9. \A i \in InChannels' : i.row # j.row
  BY <1>8 DEF InChannels
<1>10. /\ \A i, k \in DOMAIN decryptQ' : decryptQ'[i].row = decryptQ'[k].row => i = k
       /\ \A i, k \in DOMAIN processQ' : processQ'[i].row = processQ'[k].row => i = k
       /\ \A i \in DOMAIN decryptQ', k \in DOMAIN processQ' :
              decryptQ'[i].row # processQ'[k].row
  <2>1. CASE decryptQ # <<>> /\ decryptQ' = Tail(decryptQ) /\ UNCHANGED processQ
    BY <1>3, <2>1, Received DEF SingleOwner
  <2>2. CASE processQ # <<>> /\ processQ' = Tail(processQ) /\ UNCHANGED decryptQ
    BY <1>3, <2>2, Received DEF SingleOwner
  <2> QED BY <1>1, <2>1, <2>2
<1>11. /\ \A u, v \in Workers :
              u # v /\ holding'[u] # NoJob => holding'[u].row # holding'[v].row
       /\ \A v \in Workers, i \in InChannels' : holding'[v].row # i.row
  BY <1>4, <1>5, <1>7, <1>9 DEF SingleOwner
<1> QED BY <1>6, <1>10, <1>11 DEF SingleOwner

(* Every step of a worker keeps each job in one place.                     *)
LEMMA WorkerOwnership ==
    ASSUME TypeOK, RowsInOrder, JobsInHand, SingleOwner,
           NEW w \in Workers, WorkerStep(w)
    PROVE  JobsInHand' /\ SingleOwner'
<1> USE DEF dbVars, diskVars, stageVars, chanVars, Goto, Hold
<1>0. nextRow' = nextRow /\ nextRow \in Int
  BY WorkerRows DEF TypeOK
<1>1. CASE ClaimNext(w)
  BY <1>1, ClaimOwnership
<1>2. CASE \/ PollCheck(w) \/ LoadFails(w) \/ MetadataReady(w)
           \/ DecryptDone(w) \/ MoveFile(w) \/ RenameFile(w) \/ MoveFails(w)
           \/ RecordBook(w) \/ RecordRefused(w)
           \/ StageFails(w) \/ Leave(w) \/ WorkerExits(w)
  <2>1. UNCHANGED <<holding, decryptQ, processQ, rowSt>>
    BY <1>2 DEF PollCheck, LoadFails, MetadataReady, DecryptDone,
       MoveFile, RenameFile, MoveFails, RecordBook, RecordRefused, StageFails,
       Leave, WorkerExits
  <2>2. \A v \in Workers : pc'[v] \in EmptyHanded <=> pc[v] \in EmptyHanded
    <3>1. CASE \/ PollCheck(w) \/ LoadFails(w) \/ MetadataReady(w)
               \/ DecryptDone(w) \/ StageFails(w)
      BY <3>1 DEF PollCheck, LoadFails, MetadataReady, DecryptDone,
         StageFails, EmptyHanded, TypeOK
    <3>2. CASE MoveFile(w) \/ RenameFile(w) \/ MoveFails(w) \/ RecordBook(w)
      BY <3>2 DEF MoveFile, RenameFile, MoveFails, RecordBook, EmptyHanded, TypeOK
    <3>3. CASE RecordRefused(w) \/ Leave(w) \/ WorkerExits(w)
      BY <3>3 DEF RecordRefused, Leave, WorkerExits, EmptyHanded, TypeOK
    <3> QED BY <1>2, <3>1, <3>2, <3>3
  <2> QED BY <1>0, <2>1, <2>2, JobsStay
<1>3. CASE BeginDownload(w) \/ BeginReorganize(w) \/ DownloadDone(w) \/ FailRow(w)
  <2>1. UNCHANGED <<holding, decryptQ, processQ>>
    BY <1>3 DEF BeginDownload, BeginReorganize, DownloadDone, FailRow,
       RegisterActiveCancel
  <2>2. \A v \in Workers : pc'[v] \in EmptyHanded <=> pc[v] \in EmptyHanded
    BY <1>3 DEF BeginDownload, BeginReorganize, DownloadDone, FailRow,
       EmptyHanded, TypeOK
  <2>3. \A r \in Rows : rowSt[r] \notin Claimable => rowSt'[r] \notin Claimable
    <3>1. \E s \in {"active", "reorganizing", "failed"} :
              SetRow(holding[w].row, s, TRUE) \/ UNCHANGED rowSt
      BY <1>3 DEF BeginDownload, BeginReorganize, DownloadDone, FailRow, SetRow,
         StatusInMemory
    <3> QED BY <3>1 DEF SetRow, Claimable, TypeOK
  <2> QED BY <1>0, <2>1, <2>2, <2>3, JobsStay
<1>4. CASE RequeueClaimed(w) \/ Abandon(w) \/ FailBook(w) \/ Complete(w)
  <2>1. /\ UNCHANGED <<decryptQ, processQ>>
        /\ holding' = [holding EXCEPT ![w] = NoJob]
        /\ \E l \in EmptyHanded : pc' = [pc EXCEPT ![w] = l]
        /\ pc[w] \notin EmptyHanded
    BY <1>4 DEF RequeueClaimed, Abandon, FailBook, Complete, EmptyHanded
  <2>2. \A r \in Rows : r # holding[w].row /\ rowSt[r] \notin Claimable
                          => rowSt'[r] \notin Claimable
    BY <1>4 DEF RequeueClaimed, Abandon, FailBook, Complete, SetRow, TypeOK
  <2> QED BY <1>0, <2>1, <2>2, JobGone
<1>5. CASE PushDecrypt(w) \/ PushProcess(w)
  BY <1>5, SendOwnership
<1>6. CASE TakeDecrypt(w) \/ TakeProcess(w)
  BY <1>6, ReceiveOwnership
<1> QED BY <1>1, <1>2, <1>3, <1>4, <1>5, <1>6
        DEF WorkerStep, DownloadStep, DecryptStep, ProcessStep, EndStep

(* No handler makes a row claimable while somebody has it: the retries     *)
(* take failed rows only, the cancel pending ones.                         *)
LEMMA UserOwnership ==
    ASSUME TypeOK, RowsInOrder, JobsInHand, SingleOwner, UserStep
    PROVE  JobsInHand' /\ SingleOwner'
<1> USE DEF dbVars, diskVars, stageVars, chanVars
<1>1. UNCHANGED <<holding, decryptQ, processQ, pc>>
  BY DEF UserStep, RequestQueue, QueueReorganize, ResetMedia, CancelActive,
     CancelByASIN, CancelDownload, RetryDownload, ClearStaleFailed,
     RetryAllDownloads, Pause, Resume
<1> DEFINE HeldKept ==
             /\ nextRow' \in Int /\ nextRow' >= nextRow
             /\ \A r \in Rows : r < nextRow /\ rowSt[r] \notin Claimable
                               => rowSt'[r] \notin Claimable
<1>2. SUFFICES HeldKept
  BY <1>1, JobsStay
<1>3. ASSUME NEW b \in Books, QueueReorganize(b) PROVE HeldKept
  BY <1>3 DEF QueueReorganize, InsertRow, Rows, TypeOK
<1>4. ASSUME NEW b \in Books, CancelByASIN(b) PROVE HeldKept
  BY <1>4 DEF CancelByASIN, Claimable, Rows, TypeOK
<1>5. ASSUME NEW r \in Rows, CancelDownload(r) \/ ClearStaleFailed(r)
      PROVE  HeldKept
  <2>1. CASE CancelDownload(r)
    BY <2>1 DEF CancelDownload, Claimable, Rows, TypeOK
  <2>2. CASE ClearStaleFailed(r)
    BY <2>2 DEF ClearStaleFailed, Claimable, Rows, TypeOK
  <2> QED BY <1>5, <2>1, <2>2
<1>6. ASSUME NEW r \in Rows, RetryDownload(r) PROVE HeldKept
  BY <1>6 DEF RetryDownload, Claimable, Rows, TypeOK
<1>7. CASE RetryAllDownloads
  <2>1. Cardinality(RetryBooks) \in Nat \ {0}
    BY <1>7, RetryBooksFinite DEF RetryAllDownloads
  <2>2. PICK ids \in [nextRow..nextRow + Cardinality(RetryBooks) - 1 -> RetryBooks] :
           rowSt' = [r \in Rows |->
                          IF r \in DOMAIN ids THEN "pending"
                          ELSE IF rowBook[r] \in RetryBooks /\ rowSt[r] = "failed"
                               THEN "cancelled" ELSE rowSt[r]]
    BY <1>7 DEF RetryAllDownloads
  <2>3. nextRow' = nextRow + Cardinality(RetryBooks)
    BY <1>7 DEF RetryAllDownloads
  <2> QED BY <2>1, <2>2, <2>3 DEF Claimable, Rows, TypeOK
<1>8. CASE \/ \E b \in Books : \/ RequestQueue(b) \/ CancelActive(b)
                              \/ \E requeue \in BOOLEAN : ResetMedia(b, requeue)
           \/ Pause \/ Resume
  <2>1. UNCHANGED rowSt /\ UNCHANGED nextRow
    <3>1. CASE Pause \/ Resume
      BY <3>1 DEF Pause, Resume
    <3>2. ASSUME NEW b \in Books, RequestQueue(b) \/ CancelActive(b)
          PROVE  UNCHANGED rowSt /\ UNCHANGED nextRow
      BY <3>2 DEF RequestQueue, CancelActive
    <3>3. ASSUME NEW b \in Books, NEW requeue \in BOOLEAN, ResetMedia(b, requeue)
          PROVE  UNCHANGED rowSt /\ UNCHANGED nextRow
      BY <3>3 DEF ResetMedia
    <3> QED BY <1>8, <3>1, <3>2, <3>3
  <2> QED BY <2>1 DEF TypeOK
<1> QED BY <1>3, <1>4, <1>5, <1>6, <1>7, <1>8 DEF UserStep

(* A crash or a stopped pool takes the jobs with it, so that recovery      *)
(* reopens rows nobody has.                                                *)
LEMMA ProcessOwnership ==
    ASSUME TypeOK, RowsInOrder, JobsInHand, SingleOwner, PoolGone, ProcessLife
    PROVE  JobsInHand' /\ SingleOwner'
<1> USE DEF dbVars, diskVars, stageVars, chanVars
<1>1. CASE Stop \/ StopAndWaitReturns
  BY <1>1, JobsStay DEF Stop, StopAndWaitReturns, TypeOK
<1>2. CASE Crash
  <2>1. /\ holding' = [w \in Workers |-> NoJob]
        /\ pc' = [w \in Workers |-> "exited"]
        /\ decryptQ' = <<>> /\ processQ' = <<>>
    BY <1>2 DEF Crash
  <2> QED BY <2>1 DEF JobsInHand, SingleOwner, InChannels, EmptyHanded
<1>3. CASE Start \/ FactoryReset
  <2>1. \A w \in Workers : holding[w] = NoJob
    BY <1>3 DEF Start, FactoryReset, PoolGone, JobsInHand, EmptyHanded
  <2>2. /\ UNCHANGED holding
        /\ pc' = [w \in Workers |-> "idle"]
        /\ decryptQ' = <<>> /\ processQ' = <<>>
    BY <1>3 DEF Start, FactoryReset, NewPool
  <2> QED BY <2>1, <2>2 DEF JobsInHand, SingleOwner, InChannels, EmptyHanded
<1> QED BY <1>1, <1>2, <1>3 DEF ProcessLife

(* Every step keeps each job in one place, and its row out of the          *)
(* claimable ones.                                                         *)
LEMMA OwnershipStep ==
    ASSUME TypeOK, RowsInOrder, JobsInHand, SingleOwner, PoolGone, [Next]_vars
    PROVE  JobsInHand' /\ SingleOwner'
<1> USE DEF dbVars, diskVars, stageVars, chanVars
<1>1. ASSUME NEW w \in Workers, WorkerStep(w) PROVE JobsInHand' /\ SingleOwner'
  BY <1>1, WorkerOwnership
<1>2. ASSUME NEW b \in Books, QueueBookStep(b) PROVE JobsInHand' /\ SingleOwner'
  <2>1. UNCHANGED <<holding, decryptQ, processQ, pc>>
    BY <1>2 DEF QueueBookStep, QueueFound, QueueForget, QueueInsert, QueueStatus
  <2>2. /\ nextRow' \in Int /\ nextRow' >= nextRow
        /\ \A r \in Rows : r < nextRow => rowSt'[r] = rowSt[r]
    <3>1. CASE QueueInsert(b)
      BY <3>1 DEF QueueInsert, InsertRow, TypeOK, Rows
    <3>2. CASE QueueFound(b) \/ QueueForget(b) \/ QueueStatus(b)
      <4>1. UNCHANGED rowSt /\ UNCHANGED nextRow
        BY <3>2 DEF QueueFound, QueueForget, QueueStatus
      <4> QED BY <4>1 DEF TypeOK
    <3> QED BY <1>2, <3>1, <3>2 DEF QueueBookStep
  <2> QED BY <2>1, <2>2, JobsStay
<1>3. ASSUME NEW r \in Rows, FanOutDone(r) PROVE JobsInHand' /\ SingleOwner'
  BY <1>3, JobsStay DEF FanOutDone, TypeOK
<1>4. CASE UserStep BY <1>4, UserOwnership
<1>5. CASE ProcessLife BY <1>5, ProcessOwnership
<1>6. CASE UNCHANGED vars
  BY <1>6, JobsStay DEF vars, TypeOK
<1> QED BY <1>1, <1>2, <1>3, <1>4, <1>5, <1>6 DEF Next

-----------------------------------------------------------------------------
(* The kind of a job *)

(* A worker puts nothing into a channel but the job it holds.              *)
LEMMA ChannelJobs ==
    ASSUME TypeOK, RowsInOrder, JobsInHand, NEW w \in Workers, WorkerStep(w)
    PROVE  \A j \in InChannels' :
              \/ j \in InChannels
              \/ /\ j = holding[w] /\ holding[w] # NoJob
                 /\ PushDecrypt(w) \/ PushProcess(w)
<1> USE DEF chanVars
<1>1. decryptQ \in Seq(Job) /\ processQ \in Seq(Job)
  BY DEF TypeOK
<1>2. CASE PushDecrypt(w) \/ PushProcess(w)
  <2>1. holding[w] \in Job /\ holding[w] # NoJob
    BY <1>2, JobHasBook DEF PushDecrypt, PushProcess, EmptyHanded, JobsInHand
  <2>2. \/ decryptQ' = Append(decryptQ, holding[w]) /\ UNCHANGED processQ
        \/ processQ' = Append(processQ, holding[w]) /\ UNCHANGED decryptQ
    BY <1>2 DEF PushDecrypt, PushProcess, HandOver
  <2>3. CASE decryptQ' = Append(decryptQ, holding[w]) /\ UNCHANGED processQ
    <3>1. \A i \in DOMAIN decryptQ' :
             \/ decryptQ'[i] = holding[w]
             \/ \E k \in DOMAIN decryptQ : decryptQ'[i] = decryptQ[k]
      BY <1>1, <2>1, <2>3, Sent
    <3> QED BY <1>2, <2>1, <2>3, <3>1 DEF InChannels
  <2>4. CASE processQ' = Append(processQ, holding[w]) /\ UNCHANGED decryptQ
    <3>1. \A i \in DOMAIN processQ' :
             \/ processQ'[i] = holding[w]
             \/ \E k \in DOMAIN processQ : processQ'[i] = processQ[k]
      BY <1>1, <2>1, <2>4, Sent
    <3> QED BY <1>2, <2>1, <2>4, <3>1 DEF InChannels
  <2> QED BY <2>2, <2>3, <2>4
<1>3. CASE TakeDecrypt(w)
  <2>1. decryptQ # <<>> /\ decryptQ' = Tail(decryptQ) /\ UNCHANGED processQ
    BY <1>3 DEF TakeDecrypt
  <2>2. \A i \in DOMAIN decryptQ' :
           \E k \in DOMAIN decryptQ : decryptQ'[i] = decryptQ[k]
    BY <1>1, <2>1, Received
  <2> QED BY <2>1, <2>2 DEF InChannels
<1>4. CASE TakeProcess(w)
  <2>1. processQ # <<>> /\ processQ' = Tail(processQ) /\ UNCHANGED decryptQ
    BY <1>4 DEF TakeProcess
  <2>2. \A i \in DOMAIN processQ' :
           \E k \in DOMAIN processQ : processQ'[i] = processQ[k]
    BY <1>1, <2>1, Received
  <2> QED BY <2>1, <2>2 DEF InChannels
<1>5. ASSUME UNCHANGED <<decryptQ, processQ>>
      PROVE  \A j \in InChannels' : j \in InChannels
  BY <1>5 DEF InChannels
<1>6. CASE \/ PollCheck(w) \/ ClaimNext(w) \/ RequeueClaimed(w) \/ LoadFails(w)
           \/ BeginDownload(w) \/ BeginReorganize(w) \/ DownloadDone(w)
           \/ MetadataReady(w) \/ DecryptDone(w)
  BY <1>5, <1>6 DEF PollCheck, ClaimNext, RequeueClaimed, LoadFails, BeginDownload,
     BeginReorganize, DownloadDone, MetadataReady, DecryptDone
<1>7. CASE \/ MoveFile(w) \/ RenameFile(w) \/ MoveFails(w) \/ RecordBook(w)
           \/ RecordRefused(w) \/ Complete(w)
  BY <1>5, <1>7 DEF MoveFile, RenameFile, MoveFails, RecordBook, RecordRefused, Complete
<1>8. CASE \/ StageFails(w) \/ Abandon(w) \/ FailRow(w) \/ FailBook(w)
           \/ Leave(w) \/ WorkerExits(w)
  BY <1>5, <1>8 DEF StageFails, Abandon, FailRow, FailBook, Leave, WorkerExits
<1> QED BY <1>2, <1>3, <1>4, <1>6, <1>7, <1>8
        DEF WorkerStep, DownloadStep, DecryptStep, ProcessStep, EndStep

(* A worker's step moves no other worker and takes no other worker's job.   *)
LEMMA OthersStay ==
    ASSUME TypeOK, NEW w \in Workers, WorkerStep(w)
    PROVE  \A v \in Workers : v # w => holding'[v] = holding[v] /\ pc'[v] = pc[v]
<1> USE DEF Hold, Goto, TypeOK
<1>1. CASE DownloadStep(w)
  BY <1>1 DEF DownloadStep, PollCheck, ClaimNext, RequeueClaimed, LoadFails,
     BeginDownload, BeginReorganize, DownloadDone, PushDecrypt
<1>2. CASE DecryptStep(w)
  BY <1>2 DEF DecryptStep, TakeDecrypt, MetadataReady, DecryptDone
<1>3. CASE ProcessStep(w)
  BY <1>3 DEF ProcessStep, TakeProcess, MoveFile, RenameFile, MoveFails,
     RecordBook, RecordRefused, Complete
<1>4. CASE EndStep(w)
  BY <1>4 DEF EndStep, StageFails, PushProcess, Abandon, FailRow, FailBook,
     Leave, WorkerExits
<1> QED BY <1>1, <1>2, <1>3, <1>4 DEF WorkerStep

(* A worker that has left the pool takes no step.                          *)
LEMMA ExitedRest ==
    ASSUME NEW w \in Workers, WorkerStep(w)
    PROVE  pc[w] # "exited"
<1>1. CASE DownloadStep(w)
  BY <1>1 DEF DownloadStep, PollCheck, ClaimNext, RequeueClaimed, LoadFails,
     BeginDownload, BeginReorganize, DownloadDone, PushDecrypt
<1>2. CASE DecryptStep(w)
  BY <1>2 DEF DecryptStep, TakeDecrypt, MetadataReady, DecryptDone
<1>3. CASE ProcessStep(w)
  BY <1>3 DEF ProcessStep, TakeProcess, MoveFile, RenameFile, MoveFails,
     RecordBook, RecordRefused, Complete
<1>4. CASE EndStep(w)
  BY <1>4 DEF EndStep, StageFails, PushProcess, Abandon, FailRow, FailBook,
     Leave, WorkerExits
<1> QED BY <1>1, <1>2, <1>3, <1>4 DEF WorkerStep

(* The kind of a claim is read from the row, and given back to it.         *)
LEMMA WorkerKinds ==
    ASSUME TypeOK, RowsInOrder, JobsInHand, KindKept,
           NEW w \in Workers, WorkerStep(w)
    PROVE  KindKept'
<1> USE DEF dbVars, stageVars
<1>1. UNCHANGED asReorg
  BY WorkerRows
<1>2. \A j \in InChannels' : j.reorg <=> j.row \in asReorg'
  BY <1>1, ChannelJobs DEF KindKept
<1>3. \A v \in Workers : v # w => holding'[v] = holding[v]
  BY OthersStay
<1>4. /\ \A r \in Rows :
            /\ rowSt'[r] \in {"pending", "active"} => r \notin asReorg
            /\ rowSt'[r] \in {"reorganize", "reorganizing"} => r \in asReorg
      /\ holding'[w] # NoJob => (holding'[w].reorg <=> holding'[w].row \in asReorg)
  <2>1. CASE ClaimNext(w)
    <3>1. CASE UNCHANGED <<rowSt, holding>>
      BY <3>1 DEF KindKept
    <3>2. CASE \E r \in Rows :
                 /\ rowSt[r] \in Claimable
                 /\ rowSt' = [rowSt EXCEPT ![r] = ClaimStatus(@)]
                 /\ Hold(w, [row |-> r, reorg |-> rowSt[r] = "reorganize"])
      <4>1. PICK r \in Rows :
                 /\ rowSt[r] \in Claimable
                 /\ rowSt' = [rowSt EXCEPT ![r] = ClaimStatus(@)]
                 /\ holding' = [holding EXCEPT ![w] =
                       [row |-> r, reorg |-> rowSt[r] = "reorganize"]]
        BY <3>2 DEF Hold
      <4>2. rowSt[r] = "reorganize" <=> r \in asReorg
        BY <4>1 DEF KindKept, Claimable
      <4>3. holding'[w].row = r /\ (holding'[w].reorg <=> rowSt[r] = "reorganize")
        BY <4>1 DEF TypeOK
      <4>4. \A s \in Rows : s # r => rowSt'[s] = rowSt[s]
        BY <4>1 DEF TypeOK
      <4>5. rowSt'[r] = IF rowSt[r] = "reorganize" THEN "reorganizing" ELSE "active"
        BY <4>1 DEF ClaimStatus, TypeOK
      <4>6. \A s \in Rows :
               /\ rowSt'[s] \in {"pending", "active"} => s \notin asReorg
               /\ rowSt'[s] \in {"reorganize", "reorganizing"} => s \in asReorg
        BY <4>2, <4>4, <4>5 DEF KindKept
      <4> QED BY <4>2, <4>3, <4>6
    <3> QED BY <2>1, <3>1, <3>2 DEF ClaimNext
  <2>2. CASE RequeueClaimed(w)
    <3>1. holding[w] \in Job /\ (holding[w].reorg <=> holding[w].row \in asReorg)
      BY <2>2, JobHasBook DEF RequeueClaimed, EmptyHanded, JobsInHand, KindKept
    <3>2. holding'[w] = NoJob
      BY <2>2 DEF RequeueClaimed, Hold, TypeOK
    <3> QED BY <2>2, <3>1, <3>2
            DEF RequeueClaimed, SetRow, RequeueStatus, KindKept, Job, TypeOK
  <2>3. CASE BeginDownload(w) \/ BeginReorganize(w) \/ DownloadDone(w)
    <3>1. holding[w] \in Job /\ (holding[w].reorg <=> holding[w].row \in asReorg)
      BY <2>3, JobHasBook
      DEF BeginDownload, BeginReorganize, DownloadDone, EmptyHanded,
          JobsInHand, KindKept
    <3>2. UNCHANGED holding
      BY <2>3 DEF BeginDownload, BeginReorganize, DownloadDone
    <3> QED BY <2>3, <3>1, <3>2
            DEF BeginDownload, BeginReorganize, DownloadDone, StatusInMemory,
                SetRow, KindKept, Job, TypeOK
  <2>4. CASE FailRow(w) \/ Complete(w)
    BY <2>4 DEF FailRow, Complete, SetRow, Hold, KindKept, TypeOK
  <2>5. CASE TakeDecrypt(w) \/ TakeProcess(w)
    <3>1. UNCHANGED rowSt /\ holding'[w] \in InChannels
      BY <2>5, HeadInChannel DEF TakeDecrypt, TakeProcess, Hold, TypeOK
    <3> QED BY <3>1 DEF KindKept
  <2>6. CASE PushDecrypt(w) \/ PushProcess(w) \/ Abandon(w) \/ FailBook(w)
    BY <2>6 DEF PushDecrypt, PushProcess, Abandon, FailBook, Hold, KindKept, TypeOK
  <2>7. CASE \/ PollCheck(w) \/ LoadFails(w) \/ MetadataReady(w)
             \/ DecryptDone(w) \/ MoveFile(w) \/ RenameFile(w)
             \/ MoveFails(w) \/ RecordBook(w) \/ RecordRefused(w)
             \/ StageFails(w) \/ Leave(w) \/ WorkerExits(w)
    <3>1. UNCHANGED <<rowSt, holding>>
      BY <2>7 DEF PollCheck, LoadFails, MetadataReady, DecryptDone,
         MoveFile, RenameFile, MoveFails, RecordBook, RecordRefused, StageFails,
         Leave, WorkerExits
    <3> QED BY <3>1 DEF KindKept
  <2> QED BY <2>1, <2>2, <2>3, <2>4, <2>5, <2>6, <2>7
          DEF WorkerStep, DownloadStep, DecryptStep, ProcessStep, EndStep
<1> QED BY <1>1, <1>2, <1>3, <1>4 DEF KindKept

(* A new row has an id no job was ever inserted under.                     *)
LEMMA KindKeptStep ==
    ASSUME TypeOK, RowsInOrder, JobsInHand, PoolGone, KindKept, [Next]_vars
    PROVE  KindKept'
<1> USE PipelineAssumption DEF dbVars, diskVars, stageVars, chanVars
<1> DEFINE RowKinds ==
             \A r \in Rows :
                /\ rowSt[r] \in {"pending", "active"} => r \notin asReorg
                /\ rowSt[r] \in {"reorganize", "reorganizing"} => r \in asReorg
<1>1. ASSUME UNCHANGED <<holding, decryptQ, processQ, asReorg>>, RowKinds'
      PROVE  KindKept'
  <2>1. InChannels' = InChannels
    BY <1>1 DEF InChannels
  <2> QED BY <1>1, <2>1 DEF KindKept
<1>2. ASSUME UNCHANGED <<rowSt, asReorg>> PROVE RowKinds'
  BY <1>2 DEF KindKept
<1>3. nextRow \in Rows => nextRow \notin asReorg
  BY DEF RowsInOrder, TypeOK, Rows
<1>4. ASSUME NEW w \in Workers, WorkerStep(w) PROVE KindKept'
  BY <1>4, WorkerKinds
<1>5. ASSUME NEW b \in Books, QueueBookStep(b) PROVE KindKept'
  <2>1. CASE QueueInsert(b)
    <3>1. RowKinds'
      BY <1>3, <2>1 DEF QueueInsert, InsertRow, KindKept, TypeOK
    <3> QED BY <1>1, <2>1, <3>1 DEF QueueInsert
  <2>2. CASE QueueFound(b) \/ QueueForget(b) \/ QueueStatus(b)
    <3>1. UNCHANGED <<holding, decryptQ, processQ, asReorg, rowSt>>
      BY <2>2 DEF QueueFound, QueueForget, QueueStatus
    <3> QED BY <1>1, <1>2, <3>1
  <2> QED BY <1>5, <2>1, <2>2 DEF QueueBookStep
<1>6. ASSUME NEW r \in Rows, FanOutDone(r) PROVE KindKept'
  <2>1. UNCHANGED <<holding, decryptQ, processQ, asReorg, rowSt>>
    BY <1>6 DEF FanOutDone
  <2> QED BY <1>1, <1>2, <2>1
<1>7. CASE UserStep
  <2>1. ASSUME NEW b \in Books, QueueReorganize(b) PROVE KindKept'
    <3>1. /\ asReorg' = asReorg \cup {nextRow}
          /\ rowSt' = [rowSt EXCEPT ![nextRow] = "reorganize"]
          /\ InChannels' = InChannels /\ UNCHANGED holding
      BY <2>1 DEF QueueReorganize, InsertRow, InChannels
    <3>2. RowKinds'
      BY <3>1 DEF KindKept, TypeOK
    <3>3. nextRow \in Int
      BY DEF TypeOK
    <3>4. \A w \in Workers : holding[w] # NoJob => holding[w].row # nextRow
      BY <3>3 DEF JobsInHand
    <3>5. \A j \in InChannels : j.row # nextRow
      BY <3>3 DEF JobsInHand
    <3> QED BY <3>1, <3>2, <3>4, <3>5 DEF KindKept
  <2>2. ASSUME NEW b \in Books, CancelByASIN(b) PROVE KindKept'
    <3>1. RowKinds'
      BY <2>2 DEF CancelByASIN, KindKept, TypeOK
    <3> QED BY <1>1, <2>2, <3>1 DEF CancelByASIN
  <2>3. ASSUME NEW r \in Rows, CancelDownload(r) \/ ClearStaleFailed(r)
        PROVE  KindKept'
    <3>1. RowKinds'
      BY <2>3 DEF CancelDownload, ClearStaleFailed, KindKept, TypeOK
    <3> QED BY <1>1, <2>3, <3>1 DEF CancelDownload, ClearStaleFailed
  <2>4. ASSUME NEW r \in Rows, RetryDownload(r) PROVE KindKept'
    <3>1. RowKinds'
      BY <1>3, <2>4 DEF RetryDownload, KindKept, TypeOK
    <3> QED BY <1>1, <2>4, <3>1 DEF RetryDownload
  <2>5. CASE RetryAllDownloads
    <3>1. Cardinality(RetryBooks) \in Nat \ {0}
      BY <2>5, RetryBooksFinite DEF RetryAllDownloads
    <3>2. PICK ids \in [nextRow..nextRow + Cardinality(RetryBooks) - 1 -> RetryBooks] :
             rowSt' = [r \in Rows |->
                          IF r \in DOMAIN ids THEN "pending"
                          ELSE IF rowBook[r] \in RetryBooks /\ rowSt[r] = "failed"
                               THEN "cancelled" ELSE rowSt[r]]
      BY <2>5 DEF RetryAllDownloads
    <3>3. UNCHANGED <<holding, decryptQ, processQ, asReorg>>
      BY <2>5 DEF RetryAllDownloads
    <3>4. \A r \in Rows : r \in DOMAIN ids => r \notin asReorg
      BY <3>1, <3>2 DEF RowsInOrder, TypeOK
    <3>5. RowKinds'
      BY <3>2, <3>3, <3>4 DEF KindKept
    <3> QED BY <1>1, <3>3, <3>5
  <2>6. ASSUME NEW b \in Books, NEW requeue \in BOOLEAN, ResetMedia(b, requeue)
        PROVE  KindKept'
    <3>1. UNCHANGED <<holding, decryptQ, processQ, asReorg, rowSt>>
      BY <2>6 DEF ResetMedia
    <3> QED BY <1>1, <1>2, <3>1
  <2>7. ASSUME NEW b \in Books, RequestQueue(b) \/ CancelActive(b)
        PROVE  KindKept'
    <3>1. UNCHANGED <<holding, decryptQ, processQ, asReorg, rowSt>>
      BY <2>7 DEF RequestQueue, CancelActive
    <3> QED BY <1>1, <1>2, <3>1
  <2>8. CASE Pause \/ Resume
    <3>1. UNCHANGED <<holding, decryptQ, processQ, asReorg, rowSt>>
      BY <2>8 DEF Pause, Resume
    <3> QED BY <1>1, <1>2, <3>1
  <2> QED BY <1>7, <2>1, <2>2, <2>3, <2>4, <2>5, <2>6, <2>7, <2>8 DEF UserStep
<1>8. CASE ProcessLife
  <2>1. CASE Stop \/ StopAndWaitReturns
    <3>1. UNCHANGED <<holding, decryptQ, processQ, asReorg, rowSt>>
      BY <2>1 DEF Stop, StopAndWaitReturns
    <3> QED BY <1>1, <1>2, <3>1
  <2>2. CASE Crash
    <3>1. /\ holding' = [w \in Workers |-> NoJob] /\ UNCHANGED <<rowSt, asReorg>>
          /\ decryptQ' = <<>> /\ processQ' = <<>>
      BY <2>2 DEF Crash
    <3> QED BY <3>1 DEF KindKept, InChannels
  <2>3. CASE Start
    <3>1. /\ decryptQ' = <<>> /\ processQ' = <<>> /\ UNCHANGED <<holding, asReorg>>
          /\ rowSt' = [r \in Rows |-> Recovered(rowSt[r])]
      BY <2>3 DEF Start, NewPool
    <3> QED BY <3>1 DEF KindKept, InChannels, Recovered
  <2>4. CASE FactoryReset
    <3>1. /\ decryptQ' = <<>> /\ processQ' = <<>> /\ UNCHANGED holding
          /\ rowSt' = [r \in Rows |-> "none"]
      BY <2>4 DEF FactoryReset, NewPool
    <3>2. \A w \in Workers : holding[w] = NoJob
      BY <2>4 DEF FactoryReset, PoolGone, JobsInHand, EmptyHanded
    <3> QED BY <3>1, <3>2 DEF KindKept, InChannels
  <2> QED BY <1>8, <2>1, <2>2, <2>3, <2>4 DEF ProcessLife
<1>9. CASE UNCHANGED vars
  <2>1. UNCHANGED <<holding, decryptQ, processQ, asReorg, rowSt>>
    BY <1>9 DEF vars
  <2> QED BY <1>1, <1>2, <2>1
<1> QED BY <1>4, <1>5, <1>6, <1>7, <1>8, <1>9 DEF Next

-----------------------------------------------------------------------------
(* A job in hand is of a claimed row *)

(* If no worker takes a job and no row in hand changes status, the rows in *)
(* hand stay claimed.                                                      *)
LEMMA HeldStay ==
    ASSUME TypeOK, HeldClaimed, UNCHANGED <<holding, pc, decryptQ, processQ>>,
           \A r \in Rows : rowSt[r] \in Claimed => rowSt'[r] \in Claimed
    PROVE  HeldClaimed'
<1>1. InChannels' = InChannels /\ \A j \in InChannels : j \in Job
  BY DEF InChannels, TypeOK
<1>2. \A v \in Workers : holding[v] # NoJob => holding[v] \in Job
  BY DEF TypeOK
<1> QED BY <1>1, <1>2 DEF HeldClaimed, Job

(* A worker writes no row but its own.                                     *)
LEMMA OwnRowOnly ==
    ASSUME TypeOK, JobsInHand, NEW w \in Workers, WorkerStep(w)
    PROVE  \A r \in Rows : rowSt[r] \notin Claimable /\ r # holding[w].row
                               => rowSt'[r] = rowSt[r]
<1> USE DEF dbVars
<1>1. CASE ClaimNext(w)
  BY <1>1 DEF ClaimNext, TypeOK
<1>2. CASE \/ RequeueClaimed(w) \/ BeginDownload(w) \/ BeginReorganize(w)
           \/ DownloadDone(w) \/ Complete(w) \/ FailRow(w)
  <2>1. PICK s : SetRow(holding[w].row, s, TRUE) \/ UNCHANGED rowSt
    BY <1>2 DEF RequeueClaimed, BeginDownload, BeginReorganize, DownloadDone,
       Complete, FailRow, SetRow
  <2> QED BY <2>1 DEF SetRow, TypeOK
<1>3. CASE PollCheck(w) \/ LoadFails(w) \/ PushDecrypt(w) \/ DecryptStep(w)
  BY <1>3 DEF PollCheck, LoadFails, PushDecrypt, DecryptStep,
     TakeDecrypt, MetadataReady, DecryptDone
<1>4. CASE \/ TakeProcess(w) \/ MoveFile(w) \/ RenameFile(w) \/ MoveFails(w)
           \/ RecordBook(w) \/ RecordRefused(w)
  BY <1>4 DEF TakeProcess, MoveFile, RenameFile, MoveFails, RecordBook, RecordRefused
<1>5. CASE \/ StageFails(w) \/ PushProcess(w) \/ Abandon(w) \/ FailBook(w)
           \/ Leave(w) \/ WorkerExits(w)
  BY <1>5 DEF StageFails, PushProcess, Abandon, FailBook, Leave, WorkerExits
<1> QED BY <1>1, <1>2, <1>3, <1>4, <1>5
        DEF WorkerStep, DownloadStep, ProcessStep, EndStep

(* A worker's step keeps the rows of all jobs in hand claimed, until       *)
(* failItem has written.                                                   *)
LEMMA WorkerHeld ==
    ASSUME TypeOK, RowsInOrder, JobsInHand, SingleOwner, HeldClaimed,
           NEW w \in Workers, WorkerStep(w)
    PROVE  HeldClaimed'
<1> USE DEF dbVars, stageVars, Claimed, Claimable
<1>1. \A r \in Rows : rowSt[r] \in Claimed /\ r # holding[w].row
                         => rowSt'[r] = rowSt[r]
  BY OwnRowOnly
<1>2. \A v \in Workers : v # w => holding'[v] = holding[v] /\ pc'[v] = pc[v]
  BY OthersStay
<1>3. \A v \in Workers : v # w /\ holding'[v] # NoJob /\ pc'[v] # "failBook"
                            => rowSt'[holding'[v].row] \in Claimed
  <2>1. \A v \in Workers : v # w /\ holding[v] # NoJob =>
            holding[v].row \in Rows /\ holding[v].row # holding[w].row
    BY DEF SingleOwner, TypeOK, Job
  <2> QED BY <1>1, <1>2, <2>1 DEF HeldClaimed
<1>4. \A j \in InChannels' : rowSt'[j.row] \in Claimed
  <2>1. SUFFICES ASSUME NEW j \in InChannels' PROVE rowSt'[j.row] \in Claimed
    OBVIOUS
  <2>2. CASE j \in InChannels
    <3>1. j.row \in Rows /\ j.row # holding[w].row
      BY <2>2, JobHasBook DEF SingleOwner, Job
    <3> QED BY <1>1, <2>2, <3>1 DEF HeldClaimed
  <2>3. CASE /\ j = holding[w] /\ holding[w] # NoJob
             /\ PushDecrypt(w) \/ PushProcess(w)
    BY <2>3 DEF PushDecrypt, PushProcess, HeldClaimed
  <2> QED BY <2>2, <2>3, ChannelJobs
<1>5. holding'[w] # NoJob /\ pc'[w] # "failBook"
        => rowSt'[holding'[w].row] \in Claimed
  <2>1. CASE ClaimNext(w)
    <3>1. CASE UNCHANGED <<rowSt, holding>> /\ Goto(w, "idle")
      BY <2>1, <3>1 DEF HeldClaimed, JobsInHand, EmptyHanded, ClaimNext
    <3>2. CASE \E r \in Rows :
                 /\ rowSt[r] \in Claimable
                 /\ rowSt' = [rowSt EXCEPT ![r] = ClaimStatus(@)]
                 /\ Hold(w, [row |-> r, reorg |-> rowSt[r] = "reorganize"])
      BY <3>2 DEF Hold, ClaimStatus, TypeOK
    <3> QED BY <2>1, <3>1, <3>2 DEF ClaimNext
  <2>2. CASE \/ RequeueClaimed(w) \/ Complete(w) \/ FailBook(w) \/ Abandon(w)
             \/ PushDecrypt(w) \/ PushProcess(w) \/ FailRow(w)
    BY <2>2 DEF RequeueClaimed, Complete, FailBook, Abandon, PushDecrypt,
       PushProcess, FailRow, Hold, Goto, TypeOK
  <2>3. CASE BeginDownload(w) \/ BeginReorganize(w) \/ DownloadDone(w)
    <3>1. holding[w] \in Job /\ rowSt[holding[w].row] \in Claimed
      BY <2>3, JobHasBook DEF BeginDownload, BeginReorganize, DownloadDone,
         EmptyHanded, HeldClaimed, JobsInHand
    <3>2. UNCHANGED holding
      BY <2>3 DEF BeginDownload, BeginReorganize, DownloadDone
    <3> QED BY <2>3, <3>1, <3>2
            DEF BeginDownload, BeginReorganize, DownloadDone, StatusInMemory,
                SetRow, Job, TypeOK
  <2>4. CASE TakeDecrypt(w) \/ TakeProcess(w)
    <3>1. UNCHANGED rowSt /\ holding'[w] \in InChannels
      BY <2>4, HeadInChannel DEF TakeDecrypt, TakeProcess, Hold, TypeOK
    <3> QED BY <3>1 DEF HeldClaimed
  <2>5. CASE \/ PollCheck(w) \/ LoadFails(w) \/ MetadataReady(w)
             \/ DecryptDone(w) \/ MoveFile(w) \/ RenameFile(w)
             \/ MoveFails(w) \/ RecordBook(w) \/ RecordRefused(w)
             \/ StageFails(w) \/ Leave(w) \/ WorkerExits(w)
    <3>1. UNCHANGED <<rowSt, holding>>
      BY <2>5 DEF PollCheck, LoadFails, MetadataReady, DecryptDone,
         MoveFile, RenameFile, MoveFails, RecordBook, RecordRefused, StageFails,
         Leave, WorkerExits
    <3>2. pc[w] # "failBook"
      BY <2>5 DEF PollCheck, LoadFails, MetadataReady, DecryptDone,
         MoveFile, RenameFile, MoveFails, RecordBook, RecordRefused, StageFails,
         Leave, WorkerExits
    <3> QED BY <3>1, <3>2 DEF HeldClaimed
  <2> QED BY <2>1, <2>2, <2>3, <2>4, <2>5
          DEF WorkerStep, DownloadStep, DecryptStep, ProcessStep, EndStep
<1> QED BY <1>3, <1>4, <1>5 DEF HeldClaimed

(* Every step does: no handler touches an active row.                      *)
LEMMA HeldClaimedStep ==
    ASSUME TypeOK, RowsInOrder, JobsInHand, SingleOwner, HeldClaimed, PoolGone,
           [Next]_vars
    PROVE  HeldClaimed'
<1> USE DEF dbVars, diskVars, stageVars, chanVars, Claimed
<1>1. ASSUME UNCHANGED <<holding, pc, decryptQ, processQ, rowSt>>
      PROVE  HeldClaimed'
  BY <1>1, HeldStay
<1>2. ASSUME NEW w \in Workers, WorkerStep(w) PROVE HeldClaimed'
  BY <1>2, WorkerHeld
<1>3. ASSUME NEW b \in Books, QueueBookStep(b) PROVE HeldClaimed'
  <2>1. CASE QueueInsert(b)
    <3>1. \A r \in Rows : rowSt[r] \in Claimed => rowSt'[r] \in Claimed
      BY <2>1 DEF QueueInsert, InsertRow, RowsInOrder, TypeOK, Rows
    <3> QED BY <2>1, <3>1, HeldStay DEF QueueInsert
  <2>2. CASE QueueFound(b) \/ QueueForget(b) \/ QueueStatus(b)
    BY <1>1, <2>2 DEF QueueFound, QueueForget, QueueStatus
  <2> QED BY <1>3, <2>1, <2>2 DEF QueueBookStep
<1>4. ASSUME NEW r \in Rows, FanOutDone(r) PROVE HeldClaimed'
  BY <1>1, <1>4 DEF FanOutDone
<1>5. CASE UserStep
  <2>1. ASSUME NEW b \in Books, QueueReorganize(b) PROVE HeldClaimed'
    <3>1. \A r \in Rows : rowSt[r] \in Claimed => rowSt'[r] \in Claimed
      BY <2>1 DEF QueueReorganize, InsertRow, RowsInOrder, TypeOK, Rows
    <3> QED BY <2>1, <3>1, HeldStay DEF QueueReorganize
  <2>2. ASSUME NEW b \in Books, CancelByASIN(b) PROVE HeldClaimed'
    <3>1. \A r \in Rows : rowSt[r] \in Claimed => rowSt'[r] \in Claimed
      BY <2>2 DEF CancelByASIN, Cancellable
    <3> QED BY <2>2, <3>1, HeldStay DEF CancelByASIN
  <2>3. ASSUME NEW r \in Rows, CancelDownload(r) \/ ClearStaleFailed(r)
        PROVE  HeldClaimed'
    <3>1. \A s \in Rows : rowSt[s] \in Claimed => rowSt'[s] \in Claimed
      BY <2>3 DEF CancelDownload, ClearStaleFailed, Cancellable, TypeOK
    <3> QED BY <2>3, <3>1, HeldStay DEF CancelDownload, ClearStaleFailed
  <2>4. ASSUME NEW r \in Rows, RetryDownload(r) PROVE HeldClaimed'
    <3>1. \A s \in Rows : rowSt[s] \in Claimed => rowSt'[s] \in Claimed
      BY <2>4 DEF RetryDownload, RowsInOrder, TypeOK, Rows
    <3> QED BY <2>4, <3>1, HeldStay DEF RetryDownload
  <2>5. CASE RetryAllDownloads
    <3>1. Cardinality(RetryBooks) \in Nat \ {0}
      BY <2>5, RetryBooksFinite DEF RetryAllDownloads
    <3>2. PICK ids \in [nextRow..nextRow + Cardinality(RetryBooks) - 1 -> RetryBooks] :
             rowSt' = [r \in Rows |->
                          IF r \in DOMAIN ids THEN "pending"
                          ELSE IF rowBook[r] \in RetryBooks /\ rowSt[r] = "failed"
                               THEN "cancelled" ELSE rowSt[r]]
      BY <2>5 DEF RetryAllDownloads
    <3>3. \A r \in Rows : r \in DOMAIN ids => rowSt[r] = "none"
      BY <3>1, <3>2 DEF RowsInOrder, TypeOK
    <3>4. \A r \in Rows : rowSt[r] \in Claimed => rowSt'[r] \in Claimed
      BY <3>2, <3>3
    <3> QED BY <2>5, <3>4, HeldStay DEF RetryAllDownloads
  <2>6. ASSUME NEW b \in Books, NEW requeue \in BOOLEAN, ResetMedia(b, requeue)
        PROVE  HeldClaimed'
    BY <1>1, <2>6 DEF ResetMedia
  <2>7. ASSUME NEW b \in Books, RequestQueue(b) \/ CancelActive(b)
        PROVE  HeldClaimed'
    BY <1>1, <2>7 DEF RequestQueue, CancelActive
  <2>8. CASE Pause \/ Resume
    BY <1>1, <2>8 DEF Pause, Resume
  <2> QED BY <1>5, <2>1, <2>2, <2>3, <2>4, <2>5, <2>6, <2>7, <2>8 DEF UserStep
<1>6. CASE ProcessLife
  <2>1. CASE Stop \/ StopAndWaitReturns
    BY <1>1, <2>1 DEF Stop, StopAndWaitReturns
  <2>2. CASE Crash
    <3>1. /\ holding' = [w \in Workers |-> NoJob]
          /\ decryptQ' = <<>> /\ processQ' = <<>>
      BY <2>2 DEF Crash
    <3> QED BY <3>1 DEF HeldClaimed, InChannels
  <2>3. CASE Start \/ FactoryReset
    <3>1. \A w \in Workers : holding[w] = NoJob
      BY <2>3 DEF Start, FactoryReset, PoolGone, JobsInHand, EmptyHanded
    <3>2. UNCHANGED holding /\ decryptQ' = <<>> /\ processQ' = <<>>
      BY <2>3 DEF Start, FactoryReset, NewPool
    <3> QED BY <3>1, <3>2 DEF HeldClaimed, InChannels
  <2> QED BY <1>6, <2>1, <2>2, <2>3 DEF ProcessLife
<1>7. CASE UNCHANGED vars
  BY <1>1, <1>7 DEF vars
<1> QED BY <1>2, <1>3, <1>4, <1>5, <1>6, <1>7 DEF Next

-----------------------------------------------------------------------------
(* Cancel tokens *)

(* The operations on the registry, each from the two parts of the          *)
(* invariant.                                                              *)
LEMMA RegisterTokens ==
    ASSUME TypeOK, StageCancellable, NEW w \in Workers, NEW b \in Books,
           cancelTok[w] = NoBook, RegisterActiveCancel(w, b)
    PROVE  StageCancellable'
<1> USE PipelineAssumption DEF RegisterActiveCancel, TypeOK
<1>1. /\ cancelTok'[w] = b /\ slot'[b] = w
      /\ \A v \in Workers : v # w => cancelTok'[v] = cancelTok[v]
      /\ \A c \in Books : c # b => slot'[c] = slot[c]
  OBVIOUS
<1>2. ASSUME NEW v \in Workers, cancelTok'[v] # NoBook
      PROVE  slot'[cancelTok'[v]] = v \/ v \in cancelled'
  BY <1>1, <1>2 DEF StageCancellable
<1>3. ASSUME NEW c \in Books, slot'[c] # NoWorker
      PROVE  cancelTok'[slot'[c]] = c
  <2>1. CASE c = b BY <1>1, <2>1
  <2>2. CASE c # b
    <3>1. slot[c] \in Workers /\ cancelTok[slot[c]] = c
      BY <1>1, <1>3, <2>2 DEF StageCancellable
    <3> QED BY <1>1, <2>2, <3>1
  <2> QED BY <2>1, <2>2
<1> QED BY <1>2, <1>3 DEF StageCancellable

(* Leaving a stage frees its slot only while the slot is its own           *)
(* (unregisterActiveCancel compares tokens).                               *)
LEMMA UnregisterTokens ==
    ASSUME TypeOK, StageCancellable, NEW w \in Workers, UnregisterActiveCancel(w)
    PROVE  StageCancellable'
<1> USE PipelineAssumption DEF UnregisterActiveCancel, TypeOK
<1>1. ASSUME NEW v \in Workers, cancelTok'[v] # NoBook
      PROVE  slot'[cancelTok'[v]] = v \/ v \in cancelled'
  <2>1. v # w /\ cancelTok'[v] = cancelTok[v] /\ cancelTok[v] \in Books
    BY <1>1
  <2> QED BY <1>1, <2>1 DEF StageCancellable
<1>2. ASSUME NEW c \in Books, slot'[c] # NoWorker
      PROVE  cancelTok'[slot'[c]] = c
  <2>1. slot[c] = slot'[c] /\ slot[c] \in Workers /\ cancelTok[slot[c]] = c
    BY <1>2 DEF StageCancellable
  <2>2. slot[c] # w
    BY <1>2, <2>1
  <2> QED BY <2>1, <2>2
<1> QED BY <1>1, <1>2 DEF StageCancellable

(* A cancel takes the token of the stage it cancels.                       *)
LEMMA CancelTokens ==
    ASSUME TypeOK, StageCancellable, NEW b \in Books, CancelStage(b),
           UNCHANGED cancelTok
    PROVE  StageCancellable'
<1> USE PipelineAssumption DEF CancelStage, TypeOK
<1>1. ASSUME NEW v \in Workers, cancelTok[v] # NoBook
      PROVE  slot'[cancelTok[v]] = v \/ v \in cancelled'
  BY <1>1 DEF StageCancellable
<1>2. ASSUME NEW c \in Books, slot'[c] # NoWorker
      PROVE  cancelTok[slot'[c]] = c
  BY <1>2 DEF StageCancellable
<1> QED BY <1>1, <1>2 DEF StageCancellable

(* Every step of a worker keeps its stage reachable by a cancel.           *)
LEMMA WorkerTokens ==
    ASSUME TypeOK, RowsInOrder, JobsInHand, TokensReturned, StageCancellable,
           NEW w \in Workers, WorkerStep(w)
    PROVE  TokensReturned' /\ StageCancellable'
<1> USE DEF stageVars, Goto
<1> DEFINE Bare == {"idle", "polling", "claimed", "exited"}
<1>1. ASSUME UNCHANGED <<cancelTok, cancelled, slot>>,
             \E l : pc' = [pc EXCEPT ![w] = l] /\ (l \in Bare => pc[w] \in Bare)
      PROVE  TokensReturned' /\ StageCancellable'
  BY <1>1 DEF TokensReturned, StageCancellable, TypeOK
<1>2. CASE \/ PollCheck(w) \/ ClaimNext(w) \/ RequeueClaimed(w) \/ LoadFails(w)
           \/ BeginReorganize(w) \/ DownloadDone(w) \/ PushDecrypt(w)
           \/ MetadataReady(w) \/ DecryptDone(w)
  <2>1. UNCHANGED <<cancelTok, cancelled, slot>>
    BY <1>2 DEF PollCheck, ClaimNext, RequeueClaimed, LoadFails, BeginReorganize,
       DownloadDone, PushDecrypt, MetadataReady, DecryptDone
  <2>2. \E l : pc' = [pc EXCEPT ![w] = l] /\ (l \in Bare => pc[w] \in Bare)
    <3>1. CASE PollCheck(w) BY <3>1 DEF PollCheck
    <3>2. CASE ClaimNext(w) BY <3>2 DEF ClaimNext
    <3>3. CASE RequeueClaimed(w) BY <3>3 DEF RequeueClaimed
    <3>4. CASE LoadFails(w) \/ BeginReorganize(w) \/ DownloadDone(w)
      BY <3>4 DEF LoadFails, BeginReorganize, DownloadDone
    <3>5. CASE PushDecrypt(w) \/ MetadataReady(w) \/ DecryptDone(w)
      BY <3>5 DEF PushDecrypt, MetadataReady, DecryptDone
    <3> QED BY <1>2, <3>1, <3>2, <3>3, <3>4, <3>5
  <2> QED BY <1>1, <2>1, <2>2
<1>3. CASE \/ MoveFile(w) \/ RenameFile(w) \/ MoveFails(w) \/ RecordBook(w)
           \/ RecordRefused(w) \/ Complete(w)
  <2>1. UNCHANGED <<cancelTok, cancelled, slot>>
    BY <1>3 DEF MoveFile, RenameFile, MoveFails, RecordBook, RecordRefused, Complete
  <2>2. \E l \in {"moved", "failRow", "completing", "leaving"} :
            pc' = [pc EXCEPT ![w] = l]
    BY <1>3 DEF MoveFile, RenameFile, MoveFails, RecordBook, RecordRefused, Complete
  <2> QED BY <1>1, <2>1, <2>2
<1>4. CASE \/ StageFails(w) \/ PushProcess(w) \/ Abandon(w) \/ FailRow(w)
           \/ FailBook(w)
  <2>1. UNCHANGED <<cancelTok, cancelled, slot>>
    BY <1>4 DEF StageFails, PushProcess, Abandon, FailRow, FailBook
  <2>2. \E l \in {"failRow", "failBook", "leaving"} : pc' = [pc EXCEPT ![w] = l]
    BY <1>4 DEF StageFails, PushProcess, Abandon, FailRow, FailBook
  <2> QED BY <1>1, <2>1, <2>2
<1>5. CASE WorkerExits(w)
  BY <1>1, <1>5 DEF WorkerExits
<1>6. CASE BeginDownload(w) \/ TakeDecrypt(w) \/ TakeProcess(w)
  <2>1. \E b \in Books : RegisterActiveCancel(w, b)
    <3>1. CASE BeginDownload(w)
      BY <3>1, JobHasBook DEF BeginDownload, EmptyHanded
    <3>2. CASE TakeDecrypt(w)
      BY <3>2, JobHasBook, HeadInChannel DEF TakeDecrypt
    <3>3. CASE TakeProcess(w)
      BY <3>3, JobHasBook, HeadInChannel DEF TakeProcess
    <3> QED BY <1>6, <3>1, <3>2, <3>3
  <2>2. pc[w] \in Bare /\ cancelTok[w] = NoBook
    BY <1>6 DEF BeginDownload, TakeDecrypt, TakeProcess, TokensReturned
  <2>3. \E l \in {"downloading", "awaitMeta", "moving"} : pc' = [pc EXCEPT ![w] = l]
    BY <1>6 DEF BeginDownload, TakeDecrypt, TakeProcess
  <2>4. TokensReturned'
    BY <2>1, <2>3 DEF RegisterActiveCancel, TokensReturned, TypeOK
  <2> QED BY <2>1, <2>2, <2>4, RegisterTokens
<1>7. CASE Leave(w)
  <2>1. TokensReturned'
    BY <1>7 DEF Leave, UnregisterActiveCancel, TokensReturned, TypeOK
  <2> QED BY <1>7, <2>1, UnregisterTokens DEF Leave
<1> QED BY <1>2, <1>3, <1>4, <1>5, <1>6, <1>7
        DEF WorkerStep, DownloadStep, DecryptStep, ProcessStep, EndStep

(* Every step does, and a worker that starts a stage has no token left.    *)
LEMMA TokensStep ==
    ASSUME TypeOK, RowsInOrder, JobsInHand, TokensReturned, StageCancellable,
           PoolGone, [Next]_vars
    PROVE  TokensReturned' /\ StageCancellable'
<1> USE DEF dbVars, diskVars, stageVars, chanVars
<1>1. ASSUME UNCHANGED <<pc, cancelTok, cancelled, slot>>
      PROVE  TokensReturned' /\ StageCancellable'
  BY <1>1 DEF TokensReturned, StageCancellable
<1>2. ASSUME NEW w \in Workers, WorkerStep(w)
      PROVE  TokensReturned' /\ StageCancellable'
  BY <1>2, WorkerTokens
<1>3. ASSUME NEW b \in Books, QueueBookStep(b)
      PROVE  TokensReturned' /\ StageCancellable'
  BY <1>1, <1>3 DEF QueueBookStep, QueueFound, QueueForget, QueueInsert, QueueStatus
<1>4. ASSUME NEW r \in Rows, FanOutDone(r)
      PROVE  TokensReturned' /\ StageCancellable'
  BY <1>1, <1>4 DEF FanOutDone
<1>5. CASE UserStep
  <2>1. ASSUME NEW b \in Books, CancelActive(b) \/ CancelByASIN(b)
        PROVE  TokensReturned' /\ StageCancellable'
    <3>1. UNCHANGED <<pc, cancelTok>> /\ CancelStage(b)
      BY <2>1 DEF CancelActive, CancelByASIN
    <3> QED BY <3>1, CancelTokens DEF TokensReturned
  <2>2. ASSUME NEW b \in Books, RequestQueue(b) \/ QueueReorganize(b)
        PROVE  TokensReturned' /\ StageCancellable'
    BY <1>1, <2>2 DEF RequestQueue, QueueReorganize
  <2>3. ASSUME NEW b \in Books, NEW requeue \in BOOLEAN, ResetMedia(b, requeue)
        PROVE  TokensReturned' /\ StageCancellable'
    BY <1>1, <2>3 DEF ResetMedia
  <2>4. ASSUME NEW r \in Rows,
               CancelDownload(r) \/ RetryDownload(r) \/ ClearStaleFailed(r)
        PROVE  TokensReturned' /\ StageCancellable'
    BY <1>1, <2>4 DEF CancelDownload, ClearStaleFailed, RetryDownload
  <2>5. CASE RetryAllDownloads \/ Pause \/ Resume
    BY <1>1, <2>5 DEF RetryAllDownloads, Pause, Resume
  <2> QED BY <1>5, <2>1, <2>2, <2>3, <2>4, <2>5 DEF UserStep
<1>6. CASE ProcessLife
  <2>1. CASE Stop \/ StopAndWaitReturns
    BY <1>1, <2>1 DEF Stop, StopAndWaitReturns
  <2>2. CASE Crash
    BY <2>2 DEF Crash, TokensReturned, StageCancellable
  <2>3. CASE Start \/ FactoryReset
    <3>1. \A w \in Workers : cancelTok[w] = NoBook
      BY <2>3 DEF Start, FactoryReset, PoolGone, TokensReturned
    <3>2. UNCHANGED <<cancelTok, cancelled, slot>>
      BY <2>3 DEF Start, FactoryReset
    <3> QED BY <3>1, <3>2 DEF TokensReturned, StageCancellable
  <2> QED BY <1>6, <2>1, <2>2, <2>3 DEF ProcessLife
<1>7. CASE UNCHANGED vars
  BY <1>1, <1>7 DEF vars
<1> QED BY <1>2, <1>3, <1>4, <1>5, <1>6, <1>7 DEF Next

-----------------------------------------------------------------------------
(* The life of the pool *)

(* StopAndWait returns, and a process dies, with every worker gone; only   *)
(* Start makes new ones.                                                   *)
LEMMA PoolGoneStep ==
    ASSUME TypeOK, RowsInOrder, JobsInHand, PoolGone, [Next]_vars
    PROVE  PoolGone'
<1> USE DEF dbVars, diskVars, stageVars, chanVars
<1>1. ASSUME UNCHANGED <<pc, phase>> PROVE PoolGone'
  BY <1>1 DEF PoolGone
<1>2. ASSUME NEW w \in Workers, WorkerStep(w) PROVE PoolGone'
  <2>1. pc[w] # "exited"
    BY <1>2, ExitedRest
  <2>2. phase' = phase
    BY <1>2, WorkerRows
  <2> QED BY <2>1, <2>2 DEF PoolGone
<1>3. ASSUME NEW b \in Books, QueueBookStep(b) PROVE PoolGone'
  BY <1>1, <1>3 DEF QueueBookStep, QueueFound, QueueForget, QueueInsert, QueueStatus
<1>4. ASSUME NEW r \in Rows, FanOutDone(r) PROVE PoolGone'
  BY <1>1, <1>4 DEF FanOutDone
<1>5. CASE UserStep
  BY <1>1, <1>5 DEF UserStep, RequestQueue, QueueReorganize, ResetMedia, CancelActive,
     CancelByASIN, CancelDownload, RetryDownload, ClearStaleFailed,
     RetryAllDownloads, Pause, Resume
<1>6. CASE ProcessLife
  BY <1>6 DEF ProcessLife, Stop, StopAndWaitReturns, Crash, Start, FactoryReset,
     NewPool, PoolGone
<1>7. CASE UNCHANGED vars
  BY <1>1, <1>7 DEF vars
<1> QED BY <1>2, <1>3, <1>4, <1>5, <1>6, <1>7 DEF Next

-----------------------------------------------------------------------------
(* The theorems *)

(* The invariant holds when the pool has been set up.                      *)
LEMMA InitIInv == Init => IInv
<1> SUFFICES ASSUME Init PROVE IInv
  OBVIOUS
<1>1. TypeOK
  BY TypeInit
<1>2. RowsInOrder /\ KindKept
  BY PipelineAssumption
  DEF Init, RowsInOrder, KindKept, InChannels, Rows
<1>3. JobsInHand /\ SingleOwner /\ HeldClaimed
  BY DEF Init, JobsInHand, SingleOwner, HeldClaimed, InChannels, EmptyHanded
<1>4. TokensReturned /\ StageCancellable /\ PoolGone
  BY DEF Init, TokensReturned, StageCancellable, PoolGone
<1> QED BY <1>1, <1>2, <1>3, <1>4 DEF IInv

(* Every step keeps the invariant.                                         *)
LEMMA IInvStep == IInv /\ [Next]_vars => IInv'
<1> SUFFICES ASSUME IInv, [Next]_vars PROVE IInv'
  OBVIOUS
<1> USE DEF IInv
<1>1. TypeOK' BY TypeStep
<1>2. RowsInOrder' BY RowsInOrderStep
<1>3. JobsInHand' /\ SingleOwner' BY OwnershipStep
<1>4. TokensReturned' /\ StageCancellable' BY TokensStep
<1>5. PoolGone' BY PoolGoneStep
<1>6. KindKept' BY KindKeptStep
<1>7. HeldClaimed' BY HeldClaimedStep
<1> QED BY <1>1, <1>2, <1>3, <1>4, <1>5, <1>6, <1>7

(* A settled row: nobody holds it, and no handler but a retry touches it.  *)
LEMMA TerminalKept == IInv /\ [Next]_vars => [TerminalStep]_vars
<1> SUFFICES ASSUME IInv, Next PROVE TerminalStep
  OBVIOUS
<1> USE DEF IInv, TerminalStep, dbVars, diskVars, stageVars, chanVars
<1> DEFINE Settled == {"complete", "cancelled", "failed"}
<1>1. ASSUME UNCHANGED rowSt PROVE TerminalStep
  BY <1>1
<1>2. ASSUME NEW w \in Workers, WorkerStep(w) PROVE TerminalStep
  <2>1. SUFFICES ASSUME NEW r \in Rows, rowSt[r] \in Settled
                 PROVE  rowSt'[r] = rowSt[r]
    OBVIOUS
  <2>2. CASE r # holding[w].row
    BY <1>2, <2>1, <2>2, OwnRowOnly DEF Claimable
  <2>3. CASE r = holding[w].row
    <3>1. holding[w] # NoJob
      BY <2>3 DEF NoJob, Rows
    <3>2. pc[w] = "failBook" /\ pc[w] \notin EmptyHanded
      BY <2>1, <2>3, <3>1 DEF HeldClaimed, Claimed, EmptyHanded
    <3>3. FailBook(w)
      <4>1. ~DownloadStep(w)
        BY <3>2 DEF DownloadStep, PollCheck, ClaimNext, RequeueClaimed, LoadFails,
           BeginDownload, BeginReorganize, DownloadDone, PushDecrypt
      <4>2. ~DecryptStep(w) /\ ~ProcessStep(w)
        BY <3>2 DEF DecryptStep, TakeDecrypt, MetadataReady, DecryptDone, ProcessStep,
           TakeProcess, MoveFile, RenameFile, MoveFails, RecordBook, RecordRefused,
           Complete
      <4> QED BY <1>2, <3>2, <4>1, <4>2
              DEF WorkerStep, EndStep, StageFails, PushProcess, Abandon, FailRow,
                  Leave, WorkerExits
    <3> QED BY <3>3 DEF FailBook
  <2> QED BY <2>2, <2>3
<1>3. ASSUME NEW b \in Books, QueueBookStep(b) PROVE TerminalStep
  <2>1. CASE QueueInsert(b)
    BY <2>1 DEF QueueInsert, InsertRow, RowsInOrder, TypeOK
  <2>2. CASE QueueFound(b) \/ QueueForget(b) \/ QueueStatus(b)
    BY <1>1, <2>2 DEF QueueFound, QueueForget, QueueStatus
  <2> QED BY <1>3, <2>1, <2>2 DEF QueueBookStep
<1>4. ASSUME NEW r \in Rows, FanOutDone(r) PROVE TerminalStep
  BY <1>1, <1>4 DEF FanOutDone
<1>5. CASE UserStep
  <2>1. ASSUME NEW b \in Books, QueueReorganize(b) PROVE TerminalStep
    BY <2>1 DEF QueueReorganize, InsertRow, RowsInOrder, TypeOK
  <2>2. ASSUME NEW b \in Books, CancelByASIN(b) PROVE TerminalStep
    BY <2>2 DEF CancelByASIN, Cancellable
  <2>3. ASSUME NEW r \in Rows, CancelDownload(r) \/ ClearStaleFailed(r)
        PROVE  TerminalStep
    BY <2>3 DEF CancelDownload, ClearStaleFailed, Cancellable, TypeOK
  <2>4. ASSUME NEW r \in Rows, RetryDownload(r) PROVE TerminalStep
    BY <2>4 DEF RetryDownload, RowsInOrder, TypeOK
  <2>5. CASE RetryAllDownloads
    <3>1. Cardinality(RetryBooks) \in Nat \ {0}
      BY <2>5, RetryBooksFinite DEF RetryAllDownloads
    <3>2. PICK ids \in [nextRow..nextRow + Cardinality(RetryBooks) - 1 -> RetryBooks] :
             rowSt' = [r \in Rows |->
                          IF r \in DOMAIN ids THEN "pending"
                          ELSE IF rowBook[r] \in RetryBooks /\ rowSt[r] = "failed"
                               THEN "cancelled" ELSE rowSt[r]]
      BY <2>5 DEF RetryAllDownloads
    <3>3. \A r \in Rows : r \in DOMAIN ids => rowSt[r] = "none"
      BY <3>1, <3>2 DEF RowsInOrder, TypeOK
    <3> QED BY <3>2, <3>3
  <2>6. ASSUME NEW b \in Books, NEW requeue \in BOOLEAN, ResetMedia(b, requeue)
        PROVE  TerminalStep
    BY <1>1, <2>6 DEF ResetMedia
  <2>7. ASSUME NEW b \in Books, RequestQueue(b) \/ CancelActive(b)
        PROVE  TerminalStep
    BY <1>1, <2>7 DEF RequestQueue, CancelActive
  <2>8. CASE Pause \/ Resume
    BY <1>1, <2>8 DEF Pause, Resume
  <2> QED BY <1>5, <2>1, <2>2, <2>3, <2>4, <2>5, <2>6, <2>7, <2>8 DEF UserStep
<1>6. CASE ProcessLife
  <2>1. CASE Stop \/ StopAndWaitReturns \/ Crash
    BY <1>1, <2>1 DEF Stop, StopAndWaitReturns, Crash
  <2>2. CASE Start
    BY <2>2 DEF Start, Recovered
  <2>3. CASE FactoryReset
    BY <2>3 DEF FactoryReset
  <2> QED BY <1>6, <2>1, <2>2, <2>3 DEF ProcessLife
<1> QED BY <1>2, <1>3, <1>4, <1>5, <1>6 DEF Next

(* The inductive invariant holds in every state.                           *)
THEOREM Invariant == Spec => []IInv
<1>1. Init => IInv
  BY InitIInv
<1>2. IInv /\ [Next]_vars => IInv'
  BY IInvStep
<1> QED BY <1>1, <1>2, PTL DEF Spec

(* Every variable keeps its type: in particular no channel ever holds more *)
(* jobs than its capacity, and no row takes a status the tables do not     *)
(* have.                                                                   *)
THEOREM TypeCorrect == Spec => []TypeOK
<1>1. IInv => TypeOK
  BY DEF IInv
<1> QED BY <1>1, Invariant, PTL

(* No two workers or channel places ever hold the same row of the queue,   *)
(* however claims, pauses, retries, stops, crashes and restarts interleave.*)
THEOREM OneOwner == Spec => []SingleOwner
<1>1. IInv => SingleOwner
  BY DEF IInv
<1> QED BY <1>1, Invariant, PTL

(* A registered stage stays within reach of a cancel until it gives its    *)
(* token back, and a cancel never reaches the stage of another book.       *)
THEOREM Cancellation == Spec => []StageCancellable
<1>1. IInv => StageCancellable
  BY DEF IInv
<1> QED BY <1>1, Invariant, PTL

(* No claim, pause, failure or restart turns a reorganize job into a       *)
(* download, or a download into a reorganize job.                          *)
THEOREM Kinds == Spec => []KindKept
<1>1. IInv => KindKept
  BY DEF IInv
<1> QED BY <1>1, Invariant, PTL

(* A settled row stays settled, whatever finishes late: complete and       *)
(* cancelled are final, a failed row is only replaced by a retry.          *)
THEOREM Terminal == Spec => TerminalFinal
<1>1. IInv /\ [Next]_vars => [TerminalStep]_vars
  BY TerminalKept
<1> QED BY <1>1, Invariant, PTL DEF Spec, TerminalFinal

-----------------------------------------------------------------------------
(* What follows: the pipeline implements JobQueue (under the mapping of    *)
(* rows to tickets and holders to owners that Pipeline gives, ticket and   *)
(* owned), and, with users who leave busy books alone and cancel nothing,  *)
(* it strands no job and no file.                                          *)

(* What IInv leaves out: a crash takes the channels with it.               *)
CrashEmpties == phase = "crashed" => decryptQ = <<>> /\ processQ = <<>>

(* The mapping, value by value.                                            *)
Carries(w, r) == holding[w].row = r /\ pc[w] # "failBook"
Queued(r)     == phase # "stopped" /\ \E j \in InChannels : j.row = r

LEMMA MappedRows ==
    /\ ticket = [r \in Rows |-> Seen(rowSt[r])]
    /\ owned \subseteq Rows
    /\ \A r \in Rows : r \in owned <=> Queued(r) \/ \E w \in Workers : Carries(w, r)
<1>1. ticket = [r \in Rows |-> Seen(rowSt[r])]
  BY DEF ticket
<1>2. owned \subseteq Rows
  BY DEF owned
<1>3. \A r \in Rows : r \in owned <=> Queued(r) \/ \E w \in Workers : Carries(w, r)
  BY DEF owned, Queued, Carries
<1> QED BY <1>1, <1>2, <1>3

(* The same after a step.                                                  *)
LEMMA MappedRowsNext ==
    /\ ticket' = [r \in Rows |-> Seen(rowSt'[r])]
    /\ owned' \subseteq Rows
    /\ \A r \in Rows :
          r \in owned' <=> Queued(r)' \/ \E w \in Workers : Carries(w, r)'
<1>1. ticket' = [r \in Rows |-> Seen(rowSt'[r])]
  BY DEF ticket
<1>2. owned' \subseteq Rows
  BY DEF owned
<1>3. \A r \in Rows :
         r \in owned' <=> Queued(r)' \/ \E w \in Workers : Carries(w, r)'
  BY DEF owned, Queued, Carries
<1> QED BY <1>1, <1>2, <1>3

(* A step that moves no job and changes no row.                            *)
LEMMA NothingMoved ==
    ASSUME UNCHANGED <<rowSt, holding, pc, decryptQ, processQ, phase>>
    PROVE  UNCHANGED Queue!vars
BY DEF ticket, owned, InChannels, Queue!vars

(* One row changes.                                                        *)
LEMMA OneTicket ==
    ASSUME TypeOK, NEW r \in Rows, NEW s, rowSt' = [rowSt EXCEPT ![r] = s]
    PROVE  ticket' = [ticket EXCEPT ![r] = Seen(s)]
BY MappedRows, MappedRowsNext DEF TypeOK

(* A row changes to a status that looks the same from outside.             *)
LEMMA SameTicket ==
    ASSUME TypeOK, NEW r \in Rows, NEW s, rowSt' = [rowSt EXCEPT ![r] = s],
           Seen(s) = Seen(rowSt[r])
    PROVE  UNCHANGED ticket
BY MappedRows, MappedRowsNext DEF TypeOK

LEMMA SameTickets == ASSUME UNCHANGED rowSt PROVE UNCHANGED ticket
BY DEF ticket

-----------------------------------------------------------------------------
(* Owners *)

(* A worker that keeps its job on.                                         *)
LEMMA KeepsJob ==
    ASSUME NEW w \in Workers, UNCHANGED <<holding, decryptQ, processQ, phase>>,
           \A v \in Workers : v # w => pc'[v] = pc[v],
           (pc[w] # "failBook" /\ pc'[w] # "failBook") \/ holding[w] = NoJob
    PROVE  UNCHANGED owned
<1>1. \A r \in Rows : Queued(r)' <=> Queued(r)
  BY DEF Queued, InChannels
<1>2. \A r \in Rows, v \in Workers : Carries(v, r)' <=> Carries(v, r)
  BY DEF Carries, NoJob, Rows
<1> QED BY <1>1, <1>2, MappedRows, MappedRowsNext

(* A worker that has a job until it gives it up or settles it.             *)
LEMMA DropsJob ==
    ASSUME TypeOK, SingleOwner, NEW w \in Workers, holding[w] \in Job,
           pc[w] # "failBook", UNCHANGED <<decryptQ, processQ, phase>>,
           \A v \in Workers : v # w => pc'[v] = pc[v] /\ holding'[v] = holding[v],
           holding'[w] = NoJob \/ pc'[w] = "failBook"
    PROVE  /\ holding[w].row \in Rows /\ holding[w].row \in owned
           /\ owned' = owned \ {holding[w].row}
<1> DEFINE r == holding[w].row
<1>1. r \in Rows /\ r # 0
  BY DEF Job, Rows
<1>2. r \in owned
  BY <1>1, MappedRows DEF Carries
<1>3. \A j \in InChannels : j.row # r
  BY DEF SingleOwner
<1>4. \A s \in Rows : Queued(s)' <=> Queued(s)
  BY DEF Queued, InChannels
<1>5. \A v \in Workers : v # w => holding[v].row # r
  <2>1. holding[w] # NoJob
    BY <1>1 DEF NoJob
  <2> QED BY <2>1 DEF SingleOwner
<1>6. \A s \in Rows : ~Carries(w, s)'
  BY DEF Carries, NoJob, Rows
<1>7. \A s \in Rows, v \in Workers : v # w => (Carries(v, s)' <=> Carries(v, s))
  BY DEF Carries
<1>8. ~Queued(r) /\ \A s \in Rows : Carries(w, s) <=> s = r
  BY <1>3 DEF Queued, Carries
<1>9. \A s \in Rows : s \in owned' <=> s \in owned /\ s # r
  BY <1>4, <1>5, <1>6, <1>7, <1>8, MappedRows, MappedRowsNext DEF Carries
<1> QED BY <1>1, <1>2, <1>9, MappedRows, MappedRowsNext

(* failItem's last step: the job was settled before.                       *)
LEMMA ForgetsJob ==
    ASSUME NEW w \in Workers, UNCHANGED <<decryptQ, processQ, phase>>,
           \A v \in Workers : v # w => pc'[v] = pc[v] /\ holding'[v] = holding[v],
           pc[w] = "failBook", holding'[w] = NoJob
    PROVE  UNCHANGED owned
<1>1. \A s \in Rows : Queued(s)' <=> Queued(s)
  BY DEF Queued, InChannels
<1>2. \A s \in Rows : ~Carries(w, s)' /\ ~Carries(w, s)
  BY DEF Carries, NoJob, Rows
<1>3. \A s \in Rows, v \in Workers : v # w => (Carries(v, s)' <=> Carries(v, s))
  BY DEF Carries
<1> QED BY <1>1, <1>2, <1>3, MappedRows, MappedRowsNext

(* A job passes from a worker to a channel, or back.                       *)
LEMMA PassesJob ==
    ASSUME NEW w \in Workers, phase # "stopped", UNCHANGED phase,
           \A v \in Workers : v # w => pc'[v] = pc[v] /\ holding'[v] = holding[v],
           pc[w] # "failBook", pc'[w] # "failBook",
           \/ /\ InChannels' = InChannels \cup {holding[w]} /\ holding'[w] = NoJob
           \/ /\ InChannels = InChannels' \cup {holding'[w]} /\ holding[w] = NoJob
    PROVE  UNCHANGED owned
<1>1. \A s \in Rows, v \in Workers : v # w => (Carries(v, s)' <=> Carries(v, s))
  BY DEF Carries
<1>2. \A s \in Rows :
         (Queued(s)' \/ Carries(w, s)') <=> (Queued(s) \/ Carries(w, s))
  BY DEF Carries, Queued, NoJob, Rows
<1> QED BY <1>1, <1>2, MappedRows, MappedRowsNext

(* After a send a channel holds the job of the sender as well; a receive   *)
(* takes the receiver's job out.                                           *)
LEMMA ChannelChange ==
    ASSUME TypeOK
    PROVE  /\ \A j \in Job :
                 \/ decryptQ' = Append(decryptQ, j) /\ UNCHANGED processQ
                 \/ processQ' = Append(processQ, j) /\ UNCHANGED decryptQ
                 => InChannels' = InChannels \cup {j}
           /\ decryptQ # <<>> /\ decryptQ' = Tail(decryptQ) /\ UNCHANGED processQ
                 => InChannels = InChannels' \cup {Head(decryptQ)}
           /\ processQ # <<>> /\ processQ' = Tail(processQ) /\ UNCHANGED decryptQ
                 => InChannels = InChannels' \cup {Head(processQ)}
<1> DEFINE Items(q) == {q[i] : i \in DOMAIN q}
<1>1. ASSUME NEW q \in Seq(Job), NEW j \in Job
      PROVE  Items(Append(q, j)) = Items(q) \cup {j}
  <2>1. /\ DOMAIN Append(q, j) = 1..Len(q) + 1
        /\ \A i \in 1..Len(q) : Append(q, j)[i] = q[i]
        /\ Append(q, j)[Len(q) + 1] = j
        /\ DOMAIN q = 1..Len(q) /\ Len(q) \in Nat
    BY Sent
  <2>2. \A x : x \in Items(q) \cup {j} => x \in Items(Append(q, j))
    BY <2>1
  <2>3. \A i \in DOMAIN Append(q, j) : Append(q, j)[i] \in Items(q) \cup {j}
    BY <2>1
  <2> QED BY <2>2, <2>3
<1>2. ASSUME NEW q \in Seq(Job), q # <<>>
      PROVE  Items(q) = Items(Tail(q)) \cup {Head(q)}
  <2>1. /\ DOMAIN Tail(q) = 1..Len(q) - 1
        /\ \A i \in 1..Len(q) - 1 : Tail(q)[i] = q[i + 1]
        /\ Head(q) = q[1] /\ Len(q) >= 1
        /\ DOMAIN q = 1..Len(q) /\ Len(q) \in Nat
    BY <1>2, Received
  <2>2. \A i \in DOMAIN q : i = 1 \/ (i - 1 \in DOMAIN Tail(q) /\ Tail(q)[i - 1] = q[i])
    BY <2>1
  <2>3. \A i \in DOMAIN q : q[i] \in Items(Tail(q)) \cup {Head(q)}
    BY <2>1, <2>2
  <2>4. \A i \in DOMAIN Tail(q) : Tail(q)[i] \in Items(q)
    BY <2>1
  <2>5. Head(q) \in Items(q)
    BY <2>1
  <2> QED BY <2>3, <2>4, <2>5
<1>3. /\ decryptQ \in Seq(Job) /\ processQ \in Seq(Job)
      /\ InChannels = Items(decryptQ) \cup Items(processQ)
      /\ InChannels' = Items(decryptQ') \cup Items(processQ')
  BY DEF TypeOK, InChannels
<1> HIDE DEF Items
<1>4. ASSUME NEW j \in Job,
             \/ decryptQ' = Append(decryptQ, j) /\ UNCHANGED processQ
             \/ processQ' = Append(processQ, j) /\ UNCHANGED decryptQ
      PROVE  InChannels' = InChannels \cup {j}
  <2>1. CASE decryptQ' = Append(decryptQ, j) /\ UNCHANGED processQ
    <3>1. Items(decryptQ') = Items(decryptQ) \cup {j} /\ Items(processQ') = Items(processQ)
      BY <1>1, <1>3, <2>1
    <3> QED BY <1>3, <3>1
  <2>2. CASE processQ' = Append(processQ, j) /\ UNCHANGED decryptQ
    <3>1. Items(processQ') = Items(processQ) \cup {j} /\ Items(decryptQ') = Items(decryptQ)
      BY <1>1, <1>3, <2>2
    <3> QED BY <1>3, <3>1
  <2> QED BY <1>4, <2>1, <2>2
<1>5. ASSUME decryptQ # <<>> /\ decryptQ' = Tail(decryptQ) /\ UNCHANGED processQ
      PROVE  InChannels = InChannels' \cup {Head(decryptQ)}
  <2>1. /\ Items(decryptQ) = Items(decryptQ') \cup {Head(decryptQ)}
        /\ Items(processQ') = Items(processQ)
    BY <1>2, <1>3, <1>5
  <2> QED BY <1>3, <2>1
<1>6. ASSUME processQ # <<>> /\ processQ' = Tail(processQ) /\ UNCHANGED decryptQ
      PROVE  InChannels = InChannels' \cup {Head(processQ)}
  <2>1. /\ Items(processQ) = Items(processQ') \cup {Head(processQ)}
        /\ Items(decryptQ') = Items(decryptQ)
    BY <1>2, <1>3, <1>6
  <2> QED BY <1>3, <2>1
<1> QED BY <1>4, <1>5, <1>6

-----------------------------------------------------------------------------
(* The steps *)

(* A claim takes an open ticket nobody works on.                           *)
LEMMA ClaimTakes ==
    ASSUME IInv, NEW w \in Workers, ClaimNext(w)
    PROVE  (\E r \in Rows : Queue!Claim(r)) \/ UNCHANGED Queue!vars
<1> USE DEF IInv, diskVars, chanVars
<1>1. UNCHANGED <<decryptQ, processQ, phase>> /\ pc[w] = "polling" /\ holding[w] = NoJob
  BY DEF ClaimNext, JobsInHand, EmptyHanded
<1>2. \A v \in Workers : v # w => holding'[v] = holding[v] /\ pc'[v] = pc[v]
  BY OthersStay DEF WorkerStep, DownloadStep
<1>3. CASE Goto(w, "idle") /\ UNCHANGED <<rowSt, holding>>
  <2>1. pc'[w] = "idle"
    BY <1>3 DEF Goto, TypeOK
  <2> QED BY <1>1, <1>2, <1>3, <2>1, KeepsJob, SameTickets DEF Queue!vars
<1>4. CASE \E r \in Rows :
             /\ rowSt[r] \in Claimable
             /\ rowSt' = [rowSt EXCEPT ![r] = ClaimStatus(@)]
             /\ Hold(w, [row |-> r, reorg |-> rowSt[r] = "reorganize"])
             /\ Goto(w, "claimed")
  <2>1. PICK r \in Rows :
             /\ rowSt[r] \in Claimable
             /\ rowSt' = [rowSt EXCEPT ![r] = ClaimStatus(rowSt[r])]
             /\ holding'[w] = [row |-> r, reorg |-> rowSt[r] = "reorganize"]
             /\ pc'[w] = "claimed"
    BY <1>4 DEF Hold, Goto, TypeOK
  <2>2. holding'[w].row = r
    BY <2>1
  <2>3. ticket[r] = "open" /\ ticket' = [ticket EXCEPT ![r] = "held"]
    <3>1. Seen(ClaimStatus(rowSt[r])) = "held" /\ Seen(rowSt[r]) = "open"
      BY <2>1 DEF Seen, ClaimStatus, Claimable, Claimed
    <3>2. ticket[r] = "open"
      BY <3>1, MappedRows
    <3>3. ticket' = [ticket EXCEPT ![r] = Seen(ClaimStatus(rowSt[r]))]
      BY <2>1, OneTicket
    <3> QED BY <3>1, <3>2, <3>3
  <2>4. r \notin owned
    <3>1. \A v \in Workers : holding[v].row # r
      BY <2>1 DEF JobsInHand, NoJob, Rows
    <3>2. \A j \in InChannels : j.row # r
      BY <2>1 DEF JobsInHand
    <3> QED BY <3>1, <3>2, MappedRows DEF Carries, Queued
  <2>5. owned' = owned \cup {r}
    <3>1. \A s \in Rows : Queued(s)' <=> Queued(s)
      BY <1>1 DEF Queued, InChannels
    <3>2. \A s \in Rows, v \in Workers : v # w => (Carries(v, s)' <=> Carries(v, s))
      BY <1>2 DEF Carries
    <3>3. \A s \in Rows : (Carries(w, s)' <=> s = r) /\ ~Carries(w, s)
      BY <1>1, <2>1, <2>2 DEF Carries, NoJob, Rows
    <3>4. \A s \in Rows : s \in owned' <=> s \in owned \/ s = r
      BY <3>1, <3>2, <3>3, MappedRows, MappedRowsNext
    <3> QED BY <3>4, MappedRows, MappedRowsNext
  <2>6. Queue!Claim(r)
    BY <2>3, <2>4, <2>5 DEF Queue!Claim
  <2> QED BY <2>6
<1> QED BY <1>3, <1>4 DEF ClaimNext

(* A worker that keeps its job, or has none, changes nothing that is seen: *)
(* its row goes from claimed to claimed.                                   *)
LEMMA WorkHidden ==
    ASSUME IInv, NEW w \in Workers, WorkerStep(w),
           \/ PollCheck(w) \/ LoadFails(w) \/ BeginDownload(w) \/ BeginReorganize(w)
           \/ DownloadDone(w) \/ MetadataReady(w) \/ DecryptDone(w) \/ MoveFile(w)
           \/ RenameFile(w) \/ MoveFails(w) \/ RecordBook(w) \/ RecordRefused(w)
           \/ StageFails(w) \/ Leave(w) \/ WorkerExits(w)
    PROVE  UNCHANGED Queue!vars
<1> USE DEF IInv, dbVars, diskVars, stageVars, chanVars
<1>1. UNCHANGED <<holding, decryptQ, processQ, phase>>
  BY DEF PollCheck, LoadFails, BeginDownload, BeginReorganize, DownloadDone,
     MetadataReady, DecryptDone, MoveFile, RenameFile, MoveFails, RecordBook,
     RecordRefused, StageFails, Leave, WorkerExits
<1>2. pc[w] # "failBook" /\ pc'[w] # "failBook"
  <2> USE DEF Goto, TypeOK
  <2>1. CASE PollCheck(w) \/ LoadFails(w) \/ BeginDownload(w) \/ BeginReorganize(w)
    BY <2>1 DEF PollCheck, LoadFails, BeginDownload, BeginReorganize
  <2>2. CASE DownloadDone(w) \/ MetadataReady(w) \/ DecryptDone(w) \/ MoveFile(w)
    BY <2>2 DEF DownloadDone, MetadataReady, DecryptDone, MoveFile
  <2>3. CASE RenameFile(w) \/ MoveFails(w) \/ RecordBook(w) \/ RecordRefused(w)
    BY <2>3 DEF RenameFile, MoveFails, RecordBook, RecordRefused
  <2>4. CASE StageFails(w) \/ Leave(w) \/ WorkerExits(w)
    BY <2>4 DEF StageFails, Leave, WorkerExits
  <2> QED BY <2>1, <2>2, <2>3, <2>4
<1>3. UNCHANGED owned
  BY <1>1, <1>2, OthersStay, KeepsJob
<1>4. UNCHANGED ticket
  <2>1. CASE BeginDownload(w) \/ BeginReorganize(w) \/ DownloadDone(w)
    <3>1. pc[w] \notin EmptyHanded
      BY <2>1 DEF BeginDownload, BeginReorganize, DownloadDone, EmptyHanded
    <3>2. holding[w].row \in Rows /\ rowSt[holding[w].row] \in Claimed
      BY <1>2, <3>1, JobHasBook DEF Job, JobsInHand, HeldClaimed
    <3>3. \/ UNCHANGED rowSt
          \/ \E s \in Claimed : rowSt' = [rowSt EXCEPT ![holding[w].row] = s]
      BY <2>1 DEF BeginDownload, BeginReorganize, DownloadDone, SetRow, StatusInMemory,
         Claimed
    <3>4. \A s, t \in Claimed : Seen(s) = Seen(t)
      BY DEF Seen, Claimed, Claimable
    <3> QED BY <3>2, <3>3, <3>4, SameTickets, SameTicket
  <2>2. CASE UNCHANGED rowSt
    BY <2>2, SameTickets
  <2> QED BY <2>1, <2>2 DEF PollCheck, LoadFails, MetadataReady, DecryptDone, MoveFile,
             RenameFile, MoveFails, RecordBook, RecordRefused, StageFails, Leave,
             WorkerExits
<1> QED BY <1>3, <1>4 DEF Queue!vars

(* A worker that gives its job up puts it back, settles it or loses it.    *)
LEMMA JobEnds ==
    ASSUME IInv, NEW w \in Workers, WorkerStep(w),
           RequeueClaimed(w) \/ FailRow(w) \/ Abandon(w) \/ Complete(w)
    PROVE  \/ \E r \in Rows : Queue!Yield(r) \/ Queue!Settle(r)
           \/ Queue!Lose /\ (Abandon(w) \/ ~Up)
<1> USE DEF IInv, dbVars, chanVars
<1> DEFINE r == holding[w].row
<1>1. /\ UNCHANGED <<decryptQ, processQ, phase>>
      /\ pc[w] # "failBook" /\ pc[w] \notin EmptyHanded
      /\ holding'[w] = NoJob \/ pc'[w] = "failBook"
  BY DEF RequeueClaimed, FailRow, Abandon, Complete, Hold, Goto, EmptyHanded, TypeOK
<1>2. holding[w] \in Job /\ rowSt[r] \in Claimed
  BY <1>1, JobHasBook DEF JobsInHand, HeldClaimed
<1>3. r \in Rows /\ r \in owned /\ owned' = owned \ {r}
  BY <1>1, <1>2, OthersStay, DropsJob
<1>4. ticket[r] = "held"
  <2>1. Seen(rowSt[r]) = "held"
    BY <1>2 DEF Seen, Claimed, Claimable
  <2> QED BY <1>3, <2>1, MappedRows
<1>5. \/ UNCHANGED rowSt /\ (Abandon(w) \/ ~Up)
      \/ /\ RequeueClaimed(w)
         /\ \E s \in Claimable : rowSt' = [rowSt EXCEPT ![r] = s]
      \/ \E s \in {"failed", "complete"} : rowSt' = [rowSt EXCEPT ![r] = s]
  BY DEF RequeueClaimed, FailRow, Abandon, Complete, SetRow, RequeueStatus, Claimable
<1>6. CASE UNCHANGED rowSt /\ (Abandon(w) \/ ~Up)
  <2>1. Queue!Lose
    BY <1>3, <1>6, SameTickets DEF Queue!Lose
  <2> QED BY <1>6, <2>1
<1>7. ASSUME NEW s \in Claimable, rowSt' = [rowSt EXCEPT ![r] = s]
      PROVE  \E t \in Rows : Queue!Yield(t)
  <2>1. Seen(s) = "open"
    BY DEF Seen, Claimable, Claimed
  <2>2. ticket' = [ticket EXCEPT ![r] = "open"]
    BY <1>3, <1>7, <2>1, OneTicket
  <2>3. Queue!Yield(r)
    BY <1>3, <1>4, <2>2 DEF Queue!Yield
  <2> QED BY <1>3, <2>3
<1>8. ASSUME NEW s \in {"failed", "complete"}, rowSt' = [rowSt EXCEPT ![r] = s]
      PROVE  \E t \in Rows : Queue!Settle(t)
  <2>1. Seen(s) = s
    BY DEF Seen, Claimable, Claimed
  <2>2. ticket' = [ticket EXCEPT ![r] = s]
    BY <1>3, <1>8, <2>1, OneTicket
  <2>3. Queue!Settle(r)
    BY <1>3, <1>4, <2>2 DEF Queue!Settle, Queue!Final
  <2> QED BY <1>3, <2>3
<1> QED BY <1>5, <1>6, <1>7, <1>8

(* A hand-over through a channel keeps the ticket owned; the last step of  *)
(* failItem gives up a ticket that has been settled.                       *)
LEMMA HandOverHidden ==
    ASSUME IInv, NEW w \in Workers, WorkerStep(w),
           \/ PushDecrypt(w) \/ PushProcess(w) \/ TakeDecrypt(w) \/ TakeProcess(w)
           \/ FailBook(w)
    PROVE  UNCHANGED Queue!vars
<1> USE DEF IInv, dbVars, diskVars, stageVars, chanVars
<1>1. UNCHANGED <<rowSt, phase>>
  BY DEF PushDecrypt, PushProcess, TakeDecrypt, TakeProcess, FailBook
<1>2. phase # "stopped"
  BY ExitedRest DEF PoolGone
<1>3. CASE FailBook(w)
  <2>1. /\ UNCHANGED <<decryptQ, processQ, phase>>
        /\ pc[w] = "failBook" /\ holding'[w] = NoJob
    BY <1>3 DEF FailBook, Hold, TypeOK
  <2> QED BY <1>1, <2>1, OthersStay, ForgetsJob, SameTickets DEF Queue!vars
<1>4. CASE PushDecrypt(w) \/ PushProcess(w)
  <2>1. holding[w] \in Job
    BY <1>4, JobHasBook DEF PushDecrypt, PushProcess, EmptyHanded
  <2>2. InChannels' = InChannels \cup {holding[w]}
    BY <1>4, <2>1, ChannelChange DEF PushDecrypt, PushProcess, HandOver
  <2>3. holding'[w] = NoJob /\ pc[w] # "failBook" /\ pc'[w] # "failBook"
    BY <1>4 DEF PushDecrypt, PushProcess, Hold, Goto, TypeOK
  <2>4. UNCHANGED owned
    BY <1>1, <1>2, <2>2, <2>3, OthersStay, PassesJob
  <2> QED BY <1>1, <2>4, SameTickets DEF Queue!vars
<1>5. CASE TakeDecrypt(w) \/ TakeProcess(w)
  <2>1. InChannels = InChannels' \cup {holding'[w]}
    BY <1>5, ChannelChange DEF TakeDecrypt, TakeProcess, Hold, TypeOK
  <2>2. holding[w] = NoJob /\ pc[w] # "failBook" /\ pc'[w] # "failBook"
    BY <1>5 DEF TakeDecrypt, TakeProcess, Goto, TypeOK, JobsInHand, EmptyHanded
  <2>3. UNCHANGED owned
    BY <1>1, <1>2, <2>1, <2>2, OthersStay, PassesJob
  <2> QED BY <1>1, <2>3, SameTickets DEF Queue!vars
<1> QED BY <1>3, <1>4, <1>5

(* Every step of a worker is a step of the queue, or hidden.               *)
LEMMA WorkerRefines ==
    ASSUME IInv, NEW w \in Workers, WorkerStep(w)
    PROVE  \/ \E r \in Rows : Queue!Claim(r) \/ Queue!Yield(r) \/ Queue!Settle(r)
           \/ Queue!Lose /\ (Abandon(w) \/ ~Up)
           \/ UNCHANGED Queue!vars
BY ClaimTakes, WorkHidden, JobEnds, HandOverHidden
DEF WorkerStep, DownloadStep, DecryptStep, ProcessStep, EndStep

(* The web handlers submit, withdraw, replace and strike off tickets, and  *)
(* own none.                                                               *)
LEMMA UserRefines ==
    ASSUME IInv, UserStep
    PROVE  Queue!Next \/ UNCHANGED Queue!vars
<1> USE DEF IInv, dbVars, diskVars, stageVars, chanVars
<1>1. UNCHANGED <<holding, pc, decryptQ, processQ, phase>>
  BY DEF UserStep, RequestQueue, QueueReorganize, ResetMedia, CancelActive,
     CancelByASIN, CancelDownload, RetryDownload, ClearStaleFailed,
     RetryAllDownloads, Pause, Resume
<1>2. UNCHANGED owned
  BY <1>1 DEF owned, InChannels
<1>3. ASSUME UNCHANGED rowSt PROVE UNCHANGED Queue!vars
  BY <1>1, <1>3, NothingMoved
<1>4. \A r \in Rows : ticket[r] = Seen(rowSt[r]) /\ ticket'[r] = Seen(rowSt'[r])
  BY MappedRows, MappedRowsNext
<1>5. /\ Seen("pending") = "open" /\ Seen("reorganize") = "open"
      /\ Seen("failed") = "failed" /\ Seen("cancelled") = "cancelled"
      /\ Seen("none") = "none"
  BY DEF Seen, Claimable, Claimed
<1>6. ASSUME NEW b \in Books, QueueReorganize(b) PROVE Queue!Next
  <2>1. nextRow \in Rows /\ rowSt[nextRow] = "none"
    BY <1>6 DEF QueueReorganize, RowsInOrder, TypeOK, Rows
  <2>2. ticket' = [ticket EXCEPT ![nextRow] = Seen("reorganize")]
    BY <1>6, <2>1, OneTicket DEF QueueReorganize, InsertRow
  <2>3. Queue!Submit(nextRow)
    BY <1>2, <1>4, <1>5, <2>1, <2>2 DEF Queue!Submit
  <2> QED BY <2>1, <2>3 DEF Queue!Next
<1>7. ASSUME NEW r \in Rows, CancelDownload(r) PROVE Queue!Next
  <2>1. rowSt[r] = "pending" /\ rowSt' = [rowSt EXCEPT ![r] = "cancelled"]
    BY <1>7 DEF CancelDownload, Cancellable
  <2>2. ticket' = [ticket EXCEPT ![r] = Seen("cancelled")] /\ ticket[r] = Seen("pending")
    BY <1>4, <2>1, OneTicket
  <2>3. {r} \in SUBSET {t \in Rows : ticket[t] = "open"}
    BY <1>5, <2>2
  <2>4. ticket' = [t \in Rows |-> IF t \in {r} THEN "cancelled" ELSE ticket[t]]
    BY <1>5, <2>2, MappedRows
  <2>5. Queue!Withdraw
    BY <1>2, <2>3, <2>4 DEF Queue!Withdraw
  <2> QED BY <2>5 DEF Queue!Next
<1>8. ASSUME NEW b \in Books, CancelByASIN(b) PROVE Queue!Next
  <2> DEFINE out == {r \in Rows : rowBook[r] = b /\ Cancellable(r)}
  <2>1. rowSt' = [r \in Rows |-> IF r \in out THEN "cancelled" ELSE rowSt[r]]
    BY <1>8 DEF CancelByASIN
  <2>2. out \in SUBSET {t \in Rows : ticket[t] = "open"}
    BY <1>4, <1>5 DEF Cancellable
  <2>3. ticket' = [r \in Rows |-> IF r \in out THEN "cancelled" ELSE ticket[r]]
    <3>1. \A r \in Rows : ticket'[r] = IF r \in out THEN "cancelled" ELSE ticket[r]
      BY <1>4, <1>5, <2>1
    <3> QED BY <3>1, MappedRowsNext
  <2>4. Queue!Withdraw
    BY <1>2, <2>2, <2>3 DEF Queue!Withdraw
  <2> QED BY <2>4 DEF Queue!Next
<1>9. ASSUME NEW r \in Rows, ClearStaleFailed(r) PROVE Queue!Next
  <2>1. rowSt[r] = "failed" /\ rowSt' = [rowSt EXCEPT ![r] = "cancelled"]
    BY <1>9 DEF ClearStaleFailed
  <2>2. ticket' = [ticket EXCEPT ![r] = Seen("cancelled")] /\ ticket[r] = Seen("failed")
    BY <1>4, <2>1, OneTicket
  <2>3. Queue!StrikeOff(r)
    BY <1>2, <1>5, <2>2 DEF Queue!StrikeOff
  <2> QED BY <2>3 DEF Queue!Next
<1>10. ASSUME NEW old \in SUBSET Rows, NEW new \in SUBSET Rows,
              old # {}, new # {},
              \A r \in old : rowSt[r] = "failed",
              \A r \in new : rowSt[r] = "none",
              rowSt' = [r \in Rows |-> IF r \in new THEN "pending"
                                       ELSE IF r \in old THEN "cancelled"
                                       ELSE rowSt[r]]
       PROVE  Queue!Next
  <2>1. /\ old \in SUBSET {t \in Rows : ticket[t] = "failed"}
        /\ new \in SUBSET {t \in Rows : ticket[t] = "none"}
    BY <1>4, <1>5, <1>10
  <2>2. \A r \in Rows : ticket'[r] = IF r \in old THEN "cancelled"
                                     ELSE IF r \in new THEN "open" ELSE ticket[r]
    BY <1>4, <1>5, <1>10
  <2>3. ticket' = [r \in Rows |-> IF r \in old THEN "cancelled"
                                  ELSE IF r \in new THEN "open" ELSE ticket[r]]
    BY <2>2, MappedRowsNext
  <2>4. Queue!Resubmit
    BY <1>2, <1>10, <2>1, <2>3 DEF Queue!Resubmit
  <2> QED BY <2>4 DEF Queue!Next
<1>11. ASSUME NEW r \in Rows, RetryDownload(r) PROVE Queue!Next
  <2> DEFINE old == {s \in Rows : rowBook[s] = rowBook[r] /\ rowSt[s] = "failed"}
  <2>1. nextRow \in Rows /\ rowSt[nextRow] = "none" /\ rowSt[r] = "failed"
    BY <1>11 DEF RetryDownload, RowsInOrder, TypeOK, Rows
  <2>2. rowSt' = [s \in Rows |-> IF s \in {nextRow} THEN "pending"
                                 ELSE IF s \in old THEN "cancelled" ELSE rowSt[s]]
    BY <1>11 DEF RetryDownload
  <2>3. old \in SUBSET Rows /\ r \in old
    BY <2>1
  <2> HIDE DEF old
  <2>4. {nextRow} \in SUBSET Rows /\ \A s \in {nextRow} : rowSt[s] = "none"
    BY <2>1
  <2>5. \A s \in old : rowSt[s] = "failed"
    BY DEF old
  <2> QED BY <1>10, <2>2, <2>3, <2>4, <2>5
<1>12. CASE RetryAllDownloads
  <2>1. Cardinality(RetryBooks) \in Nat \ {0}
    BY <1>12, RetryBooksFinite DEF RetryAllDownloads
  <2>2. PICK ids \in [nextRow..nextRow + Cardinality(RetryBooks) - 1 -> RetryBooks] :
             rowSt' = [r \in Rows |->
                          IF r \in DOMAIN ids THEN "pending"
                          ELSE IF rowBook[r] \in RetryBooks /\ rowSt[r] = "failed"
                               THEN "cancelled" ELSE rowSt[r]]
    BY <1>12 DEF RetryAllDownloads
  <2> DEFINE old == {r \in Rows : rowBook[r] \in RetryBooks /\ rowSt[r] = "failed"}
             new == DOMAIN ids
  <2>3. new \in SUBSET Rows /\ new # {}
    <3>1. nextRow \in Nat \ {0} /\ nextRow + Cardinality(RetryBooks) - 1 \in 1..MaxRows
      BY <1>12 DEF RetryAllDownloads, TypeOK, Rows
    <3>2. new = nextRow..nextRow + Cardinality(RetryBooks) - 1
      BY <2>2
    <3>3. nextRow \in new
      BY <2>1, <3>1, <3>2
    <3>4. \A i \in new : i \in Rows
      BY <3>1, <3>2, PipelineAssumption DEF Rows
    <3> QED BY <3>3, <3>4
  <2>4. \A r \in new : rowSt[r] = "none"
    BY <2>1, <2>2, <2>3 DEF RowsInOrder, TypeOK, Rows
  <2>5. old \in SUBSET Rows /\ \A r \in old : rowSt[r] = "failed"
    OBVIOUS
  <2>6. old # {}
    BY <1>12 DEF RetryAllDownloads, RetryBooks
  <2>7. rowSt' = [r \in Rows |-> IF r \in new THEN "pending"
                                 ELSE IF r \in old THEN "cancelled" ELSE rowSt[r]]
    BY <2>2
  <2> HIDE DEF old, new
  <2> QED BY <1>10, <2>3, <2>4, <2>5, <2>6, <2>7
<1>13. CASE \/ \E b \in Books : \/ RequestQueue(b) \/ CancelActive(b)
                               \/ \E requeue \in BOOLEAN : ResetMedia(b, requeue)
            \/ Pause \/ Resume
  <2>1. UNCHANGED rowSt
    BY <1>13 DEF RequestQueue, CancelActive, ResetMedia, Pause, Resume
  <2> QED BY <1>3, <2>1
<1> QED BY <1>6, <1>7, <1>8, <1>9, <1>11, <1>12, <1>13 DEF UserStep

(* Stopping and crashing lose owners, a start reopens what they held, the  *)
(* factory reset forgets all tickets.                                      *)
LEMMA LifeRefines ==
    ASSUME IInv, CrashEmpties, ProcessLife
    PROVE  Queue!Next \/ UNCHANGED Queue!vars
<1> USE DEF IInv, dbVars, diskVars, stageVars, chanVars
<1>1. CASE Stop
  <2>1. UNCHANGED rowSt /\ UNCHANGED owned
    BY <1>1 DEF Stop, Up, owned, InChannels
  <2> QED BY <2>1, SameTickets DEF Queue!vars
<1>2. CASE StopAndWaitReturns \/ Crash
  <2>1. UNCHANGED rowSt
    BY <1>2 DEF StopAndWaitReturns, Crash
  <2>2. \A r \in Rows : ~Queued(r)'
    BY <1>2 DEF StopAndWaitReturns, Crash, Queued, InChannels
  <2>3. \A w \in Workers, r \in Rows : Carries(w, r)' => Carries(w, r)
    BY <1>2 DEF StopAndWaitReturns, Crash, Carries, NoJob, Rows
  <2>4. owned' \subseteq owned
    BY <2>2, <2>3, MappedRows, MappedRowsNext
  <2>5. owned' = owned \ (owned \ owned')
    BY <2>4
  <2>6. Queue!Lose
    BY <2>1, <2>5, SameTickets DEF Queue!Lose
  <2> QED BY <2>6 DEF Queue!Next
<1>3. CASE Start \/ FactoryReset
  <2>1. phase \in {"stopped", "crashed"}
    BY <1>3 DEF Start, FactoryReset
  <2>2. \A w \in Workers : holding[w] = NoJob
    BY <2>1 DEF PoolGone, JobsInHand, EmptyHanded
  <2>3. owned = {}
    BY <2>1, <2>2 DEF owned, CrashEmpties, InChannels, NoJob, Rows
  <2>4. UNCHANGED holding /\ decryptQ' = <<>> /\ processQ' = <<>>
    BY <1>3 DEF Start, FactoryReset, NewPool
  <2>5. owned' = {}
    BY <2>2, <2>4 DEF owned, InChannels, NoJob, Rows
  <2>6. CASE Start
    <3>1. \A r \in Rows : rowSt'[r] = Recovered(rowSt[r])
      BY <2>6 DEF Start
    <3>2. \A st \in RowStatus : Seen(Recovered(st)) = IF Seen(st) = "held" THEN "open" ELSE Seen(st)
      BY DEF Seen, Recovered, Claimable, Claimed, RowStatus
    <3>3. \A r \in Rows : ticket'[r] = IF ticket[r] = "held" THEN "open" ELSE ticket[r]
      BY <3>1, <3>2, MappedRows, MappedRowsNext DEF TypeOK
    <3>4. ticket' = [r \in Rows |-> IF ticket[r] = "held" THEN "open" ELSE ticket[r]]
      BY <3>3, MappedRowsNext
    <3>5. Queue!Recover
      BY <2>3, <2>5, <3>4 DEF Queue!Recover
    <3> QED BY <3>5 DEF Queue!Next
  <2>7. CASE FactoryReset
    <3>1. \A r \in Rows : rowSt'[r] = "none"
      BY <2>7 DEF FactoryReset
    <3>2. Seen("none") = "none"
      BY DEF Seen, Claimable, Claimed
    <3>3. ticket' = [r \in Rows |-> "none"]
      BY <3>1, <3>2, MappedRowsNext
    <3>4. Queue!Reset
      BY <2>3, <2>5, <3>3 DEF Queue!Reset
    <3> QED BY <3>4 DEF Queue!Next
  <2> QED BY <1>3, <2>6, <2>7
<1> QED BY <1>1, <1>2, <1>3 DEF ProcessLife

(* Nothing is sent on the channels of a dead process.                      *)
LEMMA CrashEmptiesStep ==
    ASSUME IInv, CrashEmpties, [Next]_vars
    PROVE  CrashEmpties'
<1> USE DEF CrashEmpties, dbVars, diskVars, stageVars, chanVars
<1>1. ASSUME NEW w \in Workers, WorkerStep(w) PROVE CrashEmpties'
  <2>1. phase' # "crashed"
    BY <1>1, ExitedRest, WorkerRows DEF IInv, PoolGone
  <2> QED BY <2>1
<1>2. ASSUME UNCHANGED <<phase, decryptQ, processQ>> PROVE CrashEmpties'
  BY <1>2
<1>3. ASSUME NEW b \in Books, QueueBookStep(b) PROVE CrashEmpties'
  BY <1>2, <1>3 DEF QueueBookStep, QueueFound, QueueForget, QueueInsert, QueueStatus
<1>4. CASE UserStep
  BY <1>2, <1>4 DEF UserStep, RequestQueue, QueueReorganize, ResetMedia, CancelActive,
     CancelByASIN, CancelDownload, RetryDownload, ClearStaleFailed,
     RetryAllDownloads, Pause, Resume
<1>5. CASE ProcessLife
  BY <1>5 DEF ProcessLife, Stop, StopAndWaitReturns, Crash, Start, FactoryReset,
     NewPool
<1>6. CASE (\E r \in Rows : FanOutDone(r)) \/ UNCHANGED vars
  BY <1>2, <1>6 DEF FanOutDone, vars
<1> QED BY <1>1, <1>3, <1>4, <1>5, <1>6 DEF Next

(* Every step is one of the queue, or hidden.                              *)
LEMMA StepRefines ==
    ASSUME IInv, CrashEmpties, [Next]_vars
    PROVE  [Queue!Next]_Queue!vars
<1> USE DEF IInv, dbVars, diskVars, stageVars, chanVars
<1>1. ASSUME NEW w \in Workers, WorkerStep(w) PROVE [Queue!Next]_Queue!vars
  BY <1>1, WorkerRefines DEF Queue!Next
<1>2. ASSUME NEW b \in Books, QueueBookStep(b) PROVE [Queue!Next]_Queue!vars
  <2>1. CASE QueueInsert(b)
    <3>1. /\ nextRow \in Rows /\ rowSt' = [rowSt EXCEPT ![nextRow] = "pending"]
          /\ UNCHANGED <<holding, pc, decryptQ, processQ, phase>>
      BY <2>1 DEF QueueInsert, InsertRow
    <3>2. rowSt[nextRow] = "none"
      BY <3>1 DEF RowsInOrder, TypeOK, Rows
    <3>3. Seen("pending") = "open" /\ Seen("none") = "none"
      BY DEF Seen, Claimable, Claimed
    <3>4. ticket' = [ticket EXCEPT ![nextRow] = Seen("pending")]
      BY <3>1, OneTicket
    <3>5. UNCHANGED owned
      BY <3>1 DEF owned, InChannels
    <3>6. Queue!Submit(nextRow)
      BY <3>1, <3>2, <3>3, <3>4, <3>5, MappedRows DEF Queue!Submit
    <3> QED BY <3>1, <3>6 DEF Queue!Next
  <2>2. CASE QueueFound(b) \/ QueueForget(b) \/ QueueStatus(b)
    BY <2>2, NothingMoved DEF QueueFound, QueueForget, QueueStatus
  <2> QED BY <1>2, <2>1, <2>2 DEF QueueBookStep
<1>3. CASE (\E r \in Rows : FanOutDone(r)) \/ UNCHANGED vars
  BY <1>3, NothingMoved DEF FanOutDone, vars
<1>4. CASE UserStep BY <1>4, UserRefines
<1>5. CASE ProcessLife BY <1>5, LifeRefines
<1> QED BY <1>1, <1>2, <1>3, <1>4, <1>5 DEF Next

(* The pipeline is a queue of tickets: whatever the users, the pauses, the *)
(* stops and the crashes, a ticket is worked on by at most one owner, is   *)
(* settled by it and never again, and reopens when its owner is gone.      *)
THEOREM Refinement == Spec => JobQueueSpec
<1>1. Init => Queue!Init
  <2> SUFFICES ASSUME Init PROVE Queue!Init
    OBVIOUS
  <2>1. Seen("none") = "none"
    BY DEF Seen, Claimable, Claimed
  <2>2. ticket = [r \in Rows |-> "none"]
    BY <2>1, MappedRows DEF Init
  <2>3. owned = {}
    BY DEF Init, owned, InChannels, NoJob, Rows
  <2> QED BY <2>2, <2>3 DEF Queue!Init
<1>2. Init => CrashEmpties
  BY DEF Init, CrashEmpties
<1>3. IInv /\ CrashEmpties /\ [Next]_vars => CrashEmpties'
  BY CrashEmptiesStep
<1>4. IInv /\ CrashEmpties /\ [Next]_vars => [Queue!Next]_Queue!vars
  BY StepRefines
<1> QED BY <1>1, <1>2, <1>3, <1>4, Invariant, PTL DEF Spec, JobQueueSpec, Queue!Spec

-----------------------------------------------------------------------------
(* Careful users: nobody acts on a book that has a live row, and nobody    *)
(* cancels a stage.  The parts of the invariant then.                      *)

Live(r)    == rowSt[r] \in Claimable \cup Claimed
Working(w) == pc[w] \notin EmptyHanded \cup {"failBook"}
Begun == {"downloading", "pushDecrypt", "pushMove", "awaitMeta", "decrypting",
          "pushProcess", "moving", "moved"}

(* A book has one live row at a time, and none while a QueueBook call is   *)
(* about to insert one.                                                    *)
OneLiveRow ==
    \A r, s \in Rows : Live(r) /\ Live(s) /\ rowBook[r] = rowBook[s] => r = s
RequestAlone == \A b \in Books : request[b] = "insert" => ~LiveRow(b)

(* A token is of the job in hand, so that only stages that are over are    *)
(* ever cancelled, by the next stage of their book.                        *)
TokensOfJobs ==
    \A w \in Workers : cancelTok[w] # NoBook /\ pc[w] \notin {"leaving", "failBook"} =>
        holding[w] # NoJob /\ BookOf(w) = cancelTok[w]
CancelledLeave == \A w \in cancelled : pc[w] \in {"leaving", "failBook"}

(* Only a download goes through the download and decrypt stages.           *)
DownloadKinds ==
    /\ \A w \in Workers :
          pc[w] \in {"downloading", "pushDecrypt", "awaitMeta", "decrypting"}
              => ~holding[w].reorg
    /\ \A i \in DOMAIN decryptQ : ~decryptQ[i].reorg

(* Work files are of a row marked active, and gone where it stops being so.*)
WorkFilesOfActive ==
    \A b \in enc \cup dec : \E r \in Rows : rowBook[r] = b /\ rowSt[r] = "active"
NoWorkFiles ==
    \A w \in Workers :
        pc[w] \in {"claimed", "failRow", "completing"} => BookOf(w) \notin enc \cup dec

(* A book that is worked on is not complete before its file is there.      *)
MovedInLibrary ==
    \A w \in Workers : pc[w] \in {"moved", "completing"} => BookOf(w) \in library
BusyIncomplete ==
    /\ \A w \in Workers : pc[w] \in Begun => bookSt[BookOf(w)] # "complete"
    /\ \A j \in InChannels : bookSt[rowBook[j.row]] # "complete"

(* While the pool runs every held ticket has its owner.                    *)
HeldOwned == phase = "running" => \A r \in Rows : ticket[r] = "held" => r \in owned

CarefulInv ==
    /\ CarefulUser /\ budget["cancel"] = 0
    /\ OneLiveRow /\ RequestAlone
    /\ TokensOfJobs /\ CancelledLeave
    /\ DownloadKinds /\ WorkFilesOfActive /\ NoWorkFiles
    /\ MovedInLibrary /\ BusyIncomplete /\ CompleteHasFile
    /\ HeldOwned

-----------------------------------------------------------------------------
(* Rows *)

(* The row of a job is live until its failure has been recorded.           *)
LEMMA JobsLive ==
    ASSUME IInv
    PROVE  /\ \A w \in Workers : Working(w) =>
                 /\ holding[w] \in Job /\ holding[w] # NoJob
                 /\ holding[w].row \in Rows /\ holding[w].row < nextRow
                 /\ rowSt[holding[w].row] \in Claimed
                 /\ BookOf(w) \in Books /\ LiveRow(BookOf(w))
           /\ \A j \in InChannels :
                 /\ j \in Job /\ j.row \in Rows /\ j.row < nextRow
                 /\ rowSt[j.row] \in Claimed
                 /\ rowBook[j.row] \in Books /\ LiveRow(rowBook[j.row])
<1> USE DEF IInv
<1>1. ASSUME NEW w \in Workers, Working(w)
      PROVE  /\ holding[w] \in Job /\ holding[w] # NoJob
             /\ holding[w].row \in Rows /\ holding[w].row < nextRow
             /\ rowSt[holding[w].row] \in Claimed
             /\ BookOf(w) \in Books /\ LiveRow(BookOf(w))
  <2>1. holding[w] # NoJob /\ holding[w] \in Job /\ BookOf(w) \in Books
    BY <1>1, JobHasBook DEF Working, JobsInHand
  <2>2. holding[w].row \in Rows /\ holding[w].row < nextRow
    BY <2>1 DEF Job, JobsInHand
  <2>3. rowSt[holding[w].row] \in Claimed
    BY <1>1, <2>1 DEF Working, HeldClaimed
  <2> QED BY <2>1, <2>2, <2>3 DEF LiveRow, BookOf
<1>2. ASSUME NEW j \in InChannels
      PROVE  /\ j \in Job /\ j.row \in Rows /\ j.row < nextRow
             /\ rowSt[j.row] \in Claimed
             /\ rowBook[j.row] \in Books /\ LiveRow(rowBook[j.row])
  <2>1. j \in Job /\ rowBook[j.row] \in Books
    BY JobHasBook
  <2> QED BY <2>1 DEF Job, JobsInHand, HeldClaimed, LiveRow
<1> QED BY <1>1, <1>2

(* Jobs in different hands, or one in hand and one waiting, are of         *)
(* different books.                                                        *)
LEMMA JobsApart ==
    ASSUME IInv, OneLiveRow, NEW w \in Workers, Working(w)
    PROVE  /\ \A v \in Workers : v # w /\ Working(v) => BookOf(v) # BookOf(w)
           /\ \A j \in InChannels : rowBook[j.row] # BookOf(w)
           /\ \A r \in Rows : rowSt[r] \in Claimable => rowBook[r] # BookOf(w)
<1> USE JobsLive DEF BookOf, OneLiveRow, Live
<1>1. \A v \in Workers : v # w /\ Working(v) => holding[v].row # holding[w].row
  BY DEF IInv, SingleOwner
<1>2. \A j \in InChannels : j.row # holding[w].row
  BY DEF IInv, SingleOwner
<1>3. \A r \in Rows : rowSt[r] \in Claimable => r # holding[w].row
  BY DEF Claimed, Claimable
<1> QED BY <1>1, <1>2, <1>3

(* A row keeps its book until the factory reset.                           *)
LEMMA RowBookStays ==
    ASSUME IInv, [Next]_vars
    PROVE  FactoryReset \/ \A r \in Rows : r < nextRow => rowBook'[r] = rowBook[r]
<1> USE DEF IInv, dbVars, diskVars, stageVars, chanVars
<1>1. CASE UNCHANGED rowBook
  BY <1>1
<1>2. ASSUME NEW w \in Workers, WorkerStep(w) PROVE UNCHANGED rowBook
  BY <1>2, WorkerRows
<1>3. ASSUME NEW n \in Rows, n >= nextRow, NEW b, rowBook' = [rowBook EXCEPT ![n] = b]
      PROVE  \A r \in Rows : r < nextRow => rowBook'[r] = rowBook[r]
  BY <1>3 DEF TypeOK, Rows
<1>4. ASSUME NEW b \in Books, QueueBookStep(b)
      PROVE  \A r \in Rows : r < nextRow => rowBook'[r] = rowBook[r]
  <2>1. CASE QueueInsert(b)
    BY <1>3, <2>1 DEF QueueInsert, InsertRow, Rows
  <2>2. CASE QueueFound(b) \/ QueueForget(b) \/ QueueStatus(b)
    BY <2>2 DEF QueueFound, QueueForget, QueueStatus
  <2> QED BY <1>4, <2>1, <2>2 DEF QueueBookStep
<1>5. CASE UserStep
  <2>1. ASSUME NEW b \in Books, QueueReorganize(b)
        PROVE  \A r \in Rows : r < nextRow => rowBook'[r] = rowBook[r]
    BY <1>3, <2>1 DEF QueueReorganize, InsertRow, Rows
  <2>2. ASSUME NEW q \in Rows, RetryDownload(q)
        PROVE  \A r \in Rows : r < nextRow => rowBook'[r] = rowBook[r]
    BY <1>3, <2>2 DEF RetryDownload, Rows
  <2>3. CASE RetryAllDownloads
    <3>1. Cardinality(RetryBooks) \in Nat \ {0}
      BY <2>3, RetryBooksFinite DEF RetryAllDownloads
    <3>2. PICK ids \in [nextRow..nextRow + Cardinality(RetryBooks) - 1 -> RetryBooks] :
            rowBook' = [r \in Rows |-> IF r \in DOMAIN ids THEN ids[r] ELSE rowBook[r]]
      BY <2>3 DEF RetryAllDownloads
    <3> QED BY <3>1, <3>2 DEF TypeOK, Rows
  <2>4. CASE \/ \E b \in Books : \/ RequestQueue(b) \/ CancelActive(b) \/ CancelByASIN(b)
                               \/ \E requeue \in BOOLEAN : ResetMedia(b, requeue)
             \/ \E r \in Rows : CancelDownload(r) \/ ClearStaleFailed(r)
             \/ Pause \/ Resume
    BY <1>1, <2>4 DEF RequestQueue, CancelActive, CancelByASIN, ResetMedia,
       CancelDownload, ClearStaleFailed, Pause, Resume
  <2> QED BY <1>5, <2>1, <2>2, <2>3, <2>4 DEF UserStep
<1>6. CASE ProcessLife
  BY <1>1, <1>6 DEF ProcessLife, Stop, StopAndWaitReturns, Crash, Start
<1>7. CASE (\E r \in Rows : FanOutDone(r)) \/ UNCHANGED vars
  BY <1>1, <1>7 DEF FanOutDone, vars
<1> QED BY <1>2, <1>4, <1>5, <1>6, <1>7 DEF Next

(* New live rows are of books that had none; the others were live before.  *)
LEMMA LiveRowsKept ==
    ASSUME OneLiveRow, RequestAlone, NEW N \in SUBSET Rows,
           \A r \in Rows \ N : rowBook'[r] = rowBook[r] /\ (Live(r)' => Live(r)),
           \A r \in N : ~LiveRow(rowBook'[r]) /\ request'[rowBook'[r]] # "insert",
           \A r, s \in N : rowBook'[r] = rowBook'[s] => r = s,
           \A b \in Books : request'[b] = "insert" => request[b] = "insert" \/ ~LiveRow(b)
    PROVE  OneLiveRow' /\ RequestAlone'
<1>1. \A r \in Rows \ N : Live(r)' => LiveRow(rowBook'[r])
  BY DEF Live, LiveRow
<1>2. OneLiveRow'
  BY <1>1 DEF OneLiveRow
<1>3. RequestAlone'
  <2>1. SUFFICES ASSUME NEW b \in Books, request'[b] = "insert", LiveRow(b)'
                 PROVE  FALSE
    BY DEF RequestAlone
  <2>2. PICK r \in Rows : Live(r)' /\ rowBook'[r] = b
    BY <2>1 DEF LiveRow, Live
  <2> QED BY <1>1, <2>1, <2>2 DEF RequestAlone
<1> QED BY <1>2, <1>3

LEMMA LiveRowsGone ==
    ASSUME OneLiveRow, RequestAlone, UNCHANGED rowBook,
           \A r \in Rows : Live(r)' => Live(r),
           \A b \in Books : request'[b] = "insert" => request[b] = "insert" \/ ~LiveRow(b)
    PROVE  OneLiveRow' /\ RequestAlone'
<1>1. \A b \in Books : LiveRow(b)' => LiveRow(b)
  BY DEF Live, LiveRow
<1> QED BY <1>1 DEF OneLiveRow, RequestAlone

(* No row becomes live in a worker's hands.                                *)
LEMMA WorkerLive ==
    ASSUME IInv, NEW w \in Workers, WorkerStep(w)
    PROVE  \A r \in Rows : Live(r)' => Live(r)
<1> USE DEF IInv, Live
<1>1. CASE ClaimNext(w)
  BY <1>1 DEF ClaimNext, TypeOK
<1>2. CASE \/ RequeueClaimed(w) \/ BeginDownload(w) \/ BeginReorganize(w)
           \/ DownloadDone(w) \/ Complete(w) \/ FailRow(w)
  <2>1. PICK s : SetRow(holding[w].row, s, TRUE) \/ UNCHANGED rowSt
    BY <1>2 DEF RequeueClaimed, BeginDownload, BeginReorganize, DownloadDone,
       Complete, FailRow, SetRow
  <2>2. Working(w)
    BY <1>2 DEF RequeueClaimed, BeginDownload, BeginReorganize, DownloadDone,
       Complete, FailRow, Working, EmptyHanded
  <2> QED BY <2>1, <2>2, JobsLive DEF SetRow, TypeOK
<1>3. CASE UNCHANGED rowSt
  BY <1>3
<1> QED BY <1>1, <1>2, <1>3, WorkHidden, OwnRowOnly
        DEF WorkerStep, DownloadStep, DecryptStep, ProcessStep, EndStep,
            dbVars, PollCheck, LoadFails, PushDecrypt, TakeDecrypt, MetadataReady,
            DecryptDone, TakeProcess, MoveFile, RenameFile, MoveFails, RecordBook,
            RecordRefused, StageFails, PushProcess, Abandon, FailBook, Leave,
            WorkerExits

(* No handler changes a row that is marked claimed, or marks one so.       *)
LEMMA UserKeepsClaims ==
    ASSUME IInv, UserStep
    PROVE  \A r \in Rows : (rowSt[r] \in Claimed \/ rowSt'[r] \in Claimed)
                               => rowSt'[r] = rowSt[r]
<1> USE DEF IInv, Claimed, dbVars
<1> DEFINE Same == \A r \in Rows : (rowSt[r] \in Claimed \/ rowSt'[r] \in Claimed)
                                      => rowSt'[r] = rowSt[r]
<1>1. ASSUME NEW b \in Books, QueueReorganize(b) PROVE Same
  BY <1>1 DEF QueueReorganize, InsertRow, RowsInOrder, TypeOK
<1>2. ASSUME NEW b \in Books, CancelByASIN(b) PROVE Same
  BY <1>2 DEF CancelByASIN, Cancellable
<1>3. ASSUME NEW q \in Rows, CancelDownload(q) \/ ClearStaleFailed(q) PROVE Same
  BY <1>3 DEF CancelDownload, ClearStaleFailed, Cancellable, TypeOK
<1>4. ASSUME NEW q \in Rows, RetryDownload(q) PROVE Same
  BY <1>4 DEF RetryDownload, RowsInOrder, TypeOK
<1>5. ASSUME RetryAllDownloads PROVE Same
  <2>1. Cardinality(RetryBooks) \in Nat \ {0}
    BY <1>5, RetryBooksFinite DEF RetryAllDownloads
  <2>2. PICK ids \in [nextRow..nextRow + Cardinality(RetryBooks) - 1 -> RetryBooks] :
           rowSt' = [r \in Rows |->
                        IF r \in DOMAIN ids THEN "pending"
                        ELSE IF rowBook[r] \in RetryBooks /\ rowSt[r] = "failed"
                             THEN "cancelled" ELSE rowSt[r]]
    BY <1>5 DEF RetryAllDownloads
  <2>3. \A r \in Rows : r \in DOMAIN ids => rowSt[r] = "none"
    BY <2>1, <2>2 DEF RowsInOrder, TypeOK
  <2> QED BY <2>2, <2>3
<1>6. CASE \/ \E b \in Books : \/ RequestQueue(b) \/ CancelActive(b)
                              \/ \E requeue \in BOOLEAN : ResetMedia(b, requeue)
           \/ Pause \/ Resume
  <2>1. UNCHANGED rowSt
    BY <1>6 DEF RequestQueue, CancelActive, ResetMedia, Pause, Resume
  <2> QED BY <2>1
<1> QED BY <1>1, <1>2, <1>3, <1>4, <1>5, <1>6 DEF UserStep

(* A careful user inserts a row only for a book that has no live one.      *)
LEMMA LiveRowsStep ==
    ASSUME IInv, CarefulUser, OneLiveRow, RequestAlone, [Next]_vars
    PROVE  OneLiveRow' /\ RequestAlone'
<1> USE DEF IInv, dbVars, diskVars, stageVars, chanVars
<1>1. ASSUME UNCHANGED <<rowBook, request>>, \A r \in Rows : Live(r)' => Live(r)
      PROVE  OneLiveRow' /\ RequestAlone'
  BY <1>1, LiveRowsGone
<1>2. ASSUME NEW w \in Workers, WorkerStep(w) PROVE UNCHANGED request
  <2>1. CASE DownloadStep(w)
    BY <2>1 DEF DownloadStep, PollCheck, ClaimNext, RequeueClaimed, LoadFails,
       BeginDownload, BeginReorganize, DownloadDone, PushDecrypt
  <2>2. CASE DecryptStep(w)
    BY <2>2 DEF DecryptStep, TakeDecrypt, MetadataReady, DecryptDone
  <2>3. CASE ProcessStep(w)
    BY <2>3 DEF ProcessStep, TakeProcess, MoveFile, RenameFile, MoveFails,
       RecordBook, RecordRefused, Complete
  <2>4. CASE EndStep(w)
    BY <2>4 DEF EndStep, StageFails, PushProcess, Abandon, FailRow, FailBook,
       Leave, WorkerExits
  <2> QED BY <1>2, <2>1, <2>2, <2>3, <2>4 DEF WorkerStep
<1>3. ASSUME NEW w \in Workers, WorkerStep(w) PROVE OneLiveRow' /\ RequestAlone'
  BY <1>1, <1>2, <1>3, WorkerLive, WorkerRows
<1>4. ASSUME NEW b \in Books, QueueBookStep(b) PROVE OneLiveRow' /\ RequestAlone'
  <2>1. CASE QueueInsert(b)
    <3>1. /\ request' = [request EXCEPT ![b] = "status"]
          /\ rowSt' = [rowSt EXCEPT ![nextRow] = "pending"]
          /\ rowBook' = [rowBook EXCEPT ![nextRow] = b]
          /\ nextRow \in Rows /\ request[b] = "insert"
      BY <2>1 DEF QueueInsert, InsertRow
    <3>2. \A r \in Rows \ {nextRow} : rowBook'[r] = rowBook[r] /\ (Live(r)' => Live(r))
      BY <3>1 DEF TypeOK, Live
    <3>3. rowBook'[nextRow] = b /\ ~LiveRow(b) /\ request'[b] = "status"
      BY <3>1 DEF TypeOK, RequestAlone
    <3>4. \A c \in Books : request'[c] = "insert" => request[c] = "insert"
      BY <3>1 DEF TypeOK
    <3>5. {nextRow} \in SUBSET Rows
      BY <3>1
    <3> QED BY <3>2, <3>3, <3>4, <3>5, LiveRowsKept
  <2>2. CASE QueueFound(b) \/ QueueForget(b) \/ QueueStatus(b)
    <3>1. UNCHANGED <<rowSt, rowBook>> /\ request' = [request EXCEPT ![b] = "none"]
      BY <2>2 DEF QueueFound, QueueForget, QueueStatus
    <3>2. \A r \in Rows : Live(r)' => Live(r)
      BY <3>1 DEF Live
    <3>3. \A c \in Books : request'[c] = "insert" => request[c] = "insert"
      BY <3>1 DEF TypeOK
    <3> QED BY <3>1, <3>2, <3>3, LiveRowsGone
  <2> QED BY <1>4, <2>1, <2>2 DEF QueueBookStep
<1>5. CASE UserStep
  <2>1. ASSUME NEW b \in Books,
               RequestQueue(b) \/ \E requeue \in BOOLEAN : ResetMedia(b, requeue)
        PROVE  OneLiveRow' /\ RequestAlone'
    <3>1. /\ UNCHANGED <<rowSt, rowBook>> /\ ~LiveRow(b)
          /\ \E s : request' = [request EXCEPT ![b] = s]
      BY <2>1 DEF RequestQueue, ResetMedia, UserMayAct
    <3>2. \A r \in Rows : Live(r)' => Live(r)
      BY <3>1 DEF Live
    <3>3. \A c \in Books : request'[c] = "insert" => request[c] = "insert" \/ ~LiveRow(c)
      BY <3>1 DEF TypeOK
    <3> QED BY <3>1, <3>2, <3>3, LiveRowsGone
  <2>2. ASSUME NEW b \in Books, QueueReorganize(b) PROVE OneLiveRow' /\ RequestAlone'
    <3>1. /\ UNCHANGED request /\ request[b] = "none" /\ ~LiveRow(b)
          /\ rowSt' = [rowSt EXCEPT ![nextRow] = "reorganize"]
          /\ rowBook' = [rowBook EXCEPT ![nextRow] = b]
          /\ nextRow \in Rows
      BY <2>2 DEF QueueReorganize, InsertRow, UserMayAct
    <3>2. \A r \in Rows \ {nextRow} : rowBook'[r] = rowBook[r] /\ (Live(r)' => Live(r))
      BY <3>1 DEF TypeOK, Live
    <3>3. rowBook'[nextRow] = b /\ request'[b] = "none"
      BY <3>1 DEF TypeOK
    <3>4. {nextRow} \in SUBSET Rows
      BY <3>1
    <3> QED BY <3>1, <3>2, <3>3, <3>4, LiveRowsKept
  <2>3. ASSUME NEW b \in Books, CancelActive(b) \/ CancelByASIN(b)
        PROVE  OneLiveRow' /\ RequestAlone'
    <3>1. \A r \in Rows : Live(r)' => Live(r)
      BY <2>3 DEF CancelActive, CancelByASIN, Cancellable, Live, Claimable, Claimed
    <3> QED BY <1>1, <2>3, <3>1 DEF CancelActive, CancelByASIN
  <2>4. ASSUME NEW r \in Rows, CancelDownload(r) \/ ClearStaleFailed(r)
        PROVE  OneLiveRow' /\ RequestAlone'
    <3>1. rowSt' = [rowSt EXCEPT ![r] = "cancelled"] /\ UNCHANGED <<rowBook, request>>
      BY <2>4 DEF CancelDownload, ClearStaleFailed
    <3>2. \A q \in Rows : Live(q)' => Live(q)
      BY <3>1 DEF Live, Claimable, Claimed, TypeOK
    <3> QED BY <1>1, <3>1, <3>2
  <2>5. ASSUME NEW q \in Rows, RetryDownload(q) PROVE OneLiveRow' /\ RequestAlone'
    <3>1. /\ UNCHANGED request /\ nextRow \in Rows
          /\ request[rowBook[q]] = "none" /\ ~LiveRow(rowBook[q])
          /\ rowBook' = [rowBook EXCEPT ![nextRow] = rowBook[q]]
          /\ \A r \in Rows \ {nextRow} : rowSt'[r] \in {rowSt[r], "cancelled"}
      BY <2>5 DEF RetryDownload, UserMayAct
    <3>2. \A r \in Rows \ {nextRow} : rowBook'[r] = rowBook[r] /\ (Live(r)' => Live(r))
      BY <3>1 DEF TypeOK, Live, Claimable, Claimed
    <3>3. rowBook'[nextRow] = rowBook[q]
      BY <3>1 DEF TypeOK
    <3>4. \A r \in {nextRow} : ~LiveRow(rowBook'[r]) /\ request'[rowBook'[r]] # "insert"
      BY <3>1, <3>3
    <3>5. {nextRow} \in SUBSET Rows
      BY <3>1
    <3> QED BY <3>1, <3>2, <3>4, <3>5, LiveRowsKept
  <2>6. CASE RetryAllDownloads
    <3>1. Cardinality(RetryBooks) \in Nat \ {0}
      BY <2>6, RetryBooksFinite DEF RetryAllDownloads
    <3>2. PICK ids \in [nextRow..nextRow + Cardinality(RetryBooks) - 1 -> RetryBooks] :
            /\ \A r, s \in DOMAIN ids : ids[r] = ids[s] => r = s
            /\ rowBook' = [r \in Rows |-> IF r \in DOMAIN ids THEN ids[r] ELSE rowBook[r]]
            /\ rowSt' = [r \in Rows |->
                            IF r \in DOMAIN ids THEN "pending"
                            ELSE IF rowBook[r] \in RetryBooks /\ rowSt[r] = "failed"
                                 THEN "cancelled" ELSE rowSt[r]]
      BY <2>6 DEF RetryAllDownloads
    <3>3. /\ UNCHANGED request
          /\ \A b \in RetryBooks : request[b] = "none" /\ ~LiveRow(b)
          /\ nextRow + Cardinality(RetryBooks) - 1 \in 1..MaxRows
      BY <2>6 DEF RetryAllDownloads, UserMayAct, Rows
    <3> DEFINE new == DOMAIN ids
    <3>4. new \in SUBSET Rows /\ \A r \in new : ids[r] \in RetryBooks
      <4>1. new = nextRow..nextRow + Cardinality(RetryBooks) - 1
        BY <3>2
      <4>2. \A r \in new : r \in Rows
        BY <3>1, <3>3, <4>1, PipelineAssumption DEF TypeOK, Rows
      <4> QED BY <3>2, <4>2
    <3>5. \A r \in Rows \ new : rowBook'[r] = rowBook[r] /\ (Live(r)' => Live(r))
      BY <3>2 DEF Live, Claimable, Claimed
    <3>6. \A r \in new : rowBook'[r] = ids[r]
      BY <3>2, <3>4
    <3>7. \A r \in new : ~LiveRow(rowBook'[r]) /\ request'[rowBook'[r]] # "insert"
      BY <3>3, <3>4, <3>6
    <3>8. \A r, s \in new : rowBook'[r] = rowBook'[s] => r = s
      BY <3>2, <3>6
    <3>9. \A b \in Books : request'[b] = "insert" => request[b] = "insert" \/ ~LiveRow(b)
      BY <3>3
    <3> HIDE DEF new
    <3> QED BY <3>4, <3>5, <3>7, <3>8, <3>9, LiveRowsKept
  <2>7. CASE Pause \/ Resume
    BY <1>1, <2>7 DEF Pause, Resume, Live
  <2> QED BY <1>5, <2>1, <2>2, <2>3, <2>4, <2>5, <2>6, <2>7 DEF UserStep
<1>6. CASE ProcessLife
  <2>1. CASE Stop \/ StopAndWaitReturns
    BY <1>1, <2>1 DEF Stop, StopAndWaitReturns, Live
  <2>2. CASE Crash \/ Start
    <3>1. UNCHANGED rowBook /\ \A b \in Books : request'[b] = "insert" => request[b] = "insert"
      BY <2>2 DEF Crash, Start
    <3>2. \A r \in Rows : Live(r)' => Live(r)
      BY <2>2 DEF Crash, Start, Recovered, Live, Claimable, Claimed
    <3> QED BY <3>1, <3>2, LiveRowsGone
  <2>3. CASE FactoryReset
    BY <2>3 DEF FactoryReset, OneLiveRow, RequestAlone, Live, Claimable, Claimed
  <2> QED BY <1>6, <2>1, <2>2, <2>3 DEF ProcessLife
<1>7. CASE (\E r \in Rows : FanOutDone(r)) \/ UNCHANGED vars
  BY <1>1, <1>7 DEF FanOutDone, vars, Live
<1> QED BY <1>3, <1>4, <1>5, <1>6, <1>7 DEF Next

-----------------------------------------------------------------------------
(* Tokens *)

(* From the last steps of a stage a worker only goes on to its end.        *)
LEMMA LastSteps ==
    ASSUME NEW w \in Workers, WorkerStep(w), pc[w] \in {"leaving", "failBook"}
    PROVE  FailBook(w) \/ Leave(w)
<1>1. ~DownloadStep(w)
  BY DEF DownloadStep, PollCheck, ClaimNext, RequeueClaimed, LoadFails,
     BeginDownload, BeginReorganize, DownloadDone, PushDecrypt
<1>2. ~DecryptStep(w) /\ ~ProcessStep(w)
  BY DEF DecryptStep, TakeDecrypt, MetadataReady, DecryptDone, ProcessStep,
     TakeProcess, MoveFile, RenameFile, MoveFails, RecordBook, RecordRefused, Complete
<1> QED BY <1>1, <1>2
        DEF WorkerStep, EndStep, StageFails, PushProcess, Abandon, FailRow, WorkerExits

(* A stage is registered while no other one of its book goes on.           *)
LEMMA RegistersAlone ==
    ASSUME IInv, OneLiveRow, NEW w \in Workers,
           BeginDownload(w) \/ TakeDecrypt(w) \/ TakeProcess(w)
    PROVE  \E b \in Books :
              /\ RegisterActiveCancel(w, b)
              /\ holding'[w] # NoJob /\ rowBook[holding'[w].row] = b
              /\ cancelTok[w] = NoBook /\ pc[w] \in {"claimed", "idle"}
              /\ pc'[w] \in {"downloading", "awaitMeta", "moving"}
              /\ \A v \in Workers : v # w /\ Working(v) => BookOf(v) # b
<1> USE DEF IInv, Hold, Goto
<1>1. CASE BeginDownload(w)
  <2>1. Working(w) /\ UNCHANGED holding
    BY <1>1 DEF BeginDownload, Working, EmptyHanded
  <2>2. /\ RegisterActiveCancel(w, BookOf(w)) /\ cancelTok[w] = NoBook
        /\ pc[w] = "claimed" /\ pc'[w] = "downloading"
    BY <1>1 DEF BeginDownload, TokensReturned, TypeOK
  <2> QED BY <2>1, <2>2, JobsLive, JobsApart DEF BookOf
<1>2. ASSUME NEW j \in InChannels, holding'[w] = j,
             RegisterActiveCancel(w, rowBook[j.row]),
             pc[w] = "idle", pc'[w] \in {"awaitMeta", "moving"}
      PROVE  \E b \in Books :
                /\ RegisterActiveCancel(w, b)
                /\ holding'[w] # NoJob /\ rowBook[holding'[w].row] = b
                /\ cancelTok[w] = NoBook /\ pc[w] \in {"claimed", "idle"}
                /\ pc'[w] \in {"downloading", "awaitMeta", "moving"}
                /\ \A v \in Workers : v # w /\ Working(v) => BookOf(v) # b
  <2>1. rowBook[j.row] \in Books /\ j # NoJob
    BY JobsLive DEF NoJob, Rows
  <2>2. cancelTok[w] = NoBook
    BY <1>2 DEF TokensReturned
  <2>3. \A v \in Workers : Working(v) => BookOf(v) # rowBook[j.row]
    BY JobsApart
  <2> QED BY <1>2, <2>1, <2>2, <2>3
<1>3. CASE TakeDecrypt(w)
  BY <1>2, <1>3, HeadInChannel DEF TakeDecrypt, TypeOK
<1>4. CASE TakeProcess(w)
  BY <1>2, <1>4, HeadInChannel DEF TakeProcess, TypeOK
<1> QED BY <1>1, <1>3, <1>4

(* A worker that registers cancels at most a stage that is over.           *)
LEMMA WorkerTokensOfJobs ==
    ASSUME IInv, OneLiveRow, TokensOfJobs, CancelledLeave,
           NEW w \in Workers, WorkerStep(w)
    PROVE  TokensOfJobs' /\ CancelledLeave'
<1> USE DEF IInv
<1>1. UNCHANGED rowBook
  BY WorkerRows
<1>2. \A v \in Workers : v # w => holding'[v] = holding[v] /\ pc'[v] = pc[v]
  BY OthersStay
<1>3. CASE BeginDownload(w) \/ TakeDecrypt(w) \/ TakeProcess(w)
  <2>1. PICK b \in Books :
              /\ RegisterActiveCancel(w, b)
              /\ holding'[w] # NoJob /\ rowBook[holding'[w].row] = b
              /\ cancelTok[w] = NoBook /\ pc[w] \in {"claimed", "idle"}
              /\ pc'[w] \in {"downloading", "awaitMeta", "moving"}
              /\ \A v \in Workers : v # w /\ Working(v) => BookOf(v) # b
    BY <1>3, RegistersAlone
  <2>2. TokensOfJobs'
    <3>1. cancelTok'[w] = b /\ \A v \in Workers : v # w => cancelTok'[v] = cancelTok[v]
      BY <2>1 DEF RegisterActiveCancel, TypeOK
    <3> QED BY <1>1, <1>2, <2>1, <3>1 DEF TokensOfJobs, BookOf
  <2>3. ASSUME NEW v \in cancelled' PROVE pc'[v] \in {"leaving", "failBook"}
    <3>1. CASE v \in cancelled
      <4>1. v \in Workers /\ v # w
        BY <2>1, <3>1 DEF CancelledLeave, TypeOK
      <4> QED BY <1>2, <3>1, <4>1 DEF CancelledLeave
    <3>2. CASE v = slot[b] /\ v # NoWorker
      <4>1. v \in Workers /\ cancelTok[v] = b /\ v # w
        BY <2>1, <3>2, PipelineAssumption DEF StageCancellable, TypeOK
      <4>2. pc[v] \in {"leaving", "failBook"}
        <5>1. SUFFICES ASSUME pc[v] \notin {"leaving", "failBook"} PROVE FALSE
          OBVIOUS
        <5>2. holding[v] # NoJob /\ BookOf(v) = b
          BY <4>1, <5>1, PipelineAssumption DEF TokensOfJobs
        <5>3. Working(v)
          BY <4>1, <5>1, <5>2 DEF JobsInHand, Working
        <5> QED BY <2>1, <4>1, <5>2, <5>3
      <4> QED BY <1>2, <4>1, <4>2
    <3> QED BY <2>1, <2>3, <3>1, <3>2 DEF RegisterActiveCancel
  <2> QED BY <2>2, <2>3 DEF CancelledLeave
<1>4. CASE Leave(w)
  <2>1. /\ cancelTok'[w] = NoBook /\ \A v \in Workers : v # w => cancelTok'[v] = cancelTok[v]
        /\ cancelled' = cancelled \ {w}
    BY <1>4 DEF Leave, UnregisterActiveCancel, TypeOK
  <2> QED BY <1>1, <1>2, <2>1 DEF TokensOfJobs, CancelledLeave, BookOf, TypeOK
<1>5. ASSUME UNCHANGED <<cancelTok, cancelled>>, ~Leave(w),
             \/ pc'[w] \in {"leaving", "failBook"}
             \/ cancelTok[w] = NoBook
             \/ UNCHANGED holding /\ pc[w] \notin {"leaving", "failBook"}
      PROVE  TokensOfJobs' /\ CancelledLeave'
  <2>1. TokensOfJobs'
    BY <1>1, <1>2, <1>5 DEF TokensOfJobs, BookOf
  <2>2. w \in cancelled => pc'[w] = "leaving"
    BY <1>5, LastSteps DEF CancelledLeave, FailBook, Goto, TypeOK
  <2> QED BY <1>2, <1>5, <2>1, <2>2 DEF CancelledLeave, TypeOK
<1>6. CASE \/ PollCheck(w) \/ ClaimNext(w) \/ RequeueClaimed(w) \/ LoadFails(w)
           \/ BeginReorganize(w) \/ WorkerExits(w)
  <2>1. UNCHANGED <<cancelTok, cancelled>> /\ pc[w] \in {"idle", "polling", "claimed"}
    BY <1>6 DEF PollCheck, ClaimNext, RequeueClaimed, LoadFails, BeginReorganize,
       WorkerExits
  <2> QED BY <1>5, <2>1 DEF TokensReturned, Leave
<1>7. CASE \/ DownloadDone(w) \/ MetadataReady(w) \/ DecryptDone(w) \/ MoveFile(w)
           \/ RenameFile(w) \/ MoveFails(w) \/ RecordBook(w) \/ RecordRefused(w)
           \/ StageFails(w)
  <2>1. /\ UNCHANGED <<cancelTok, cancelled, holding>>
        /\ pc[w] \notin {"leaving", "failBook"}
    BY <1>7 DEF DownloadDone, MetadataReady, DecryptDone, MoveFile, RenameFile,
       MoveFails, RecordBook, RecordRefused, StageFails
  <2> QED BY <1>5, <2>1 DEF Leave
<1>8. CASE \/ PushDecrypt(w) \/ PushProcess(w) \/ Abandon(w) \/ FailRow(w)
           \/ FailBook(w) \/ Complete(w)
  <2>1. UNCHANGED <<cancelTok, cancelled>> /\ pc'[w] \in {"leaving", "failBook"}
    BY <1>8 DEF PushDecrypt, PushProcess, Abandon, FailRow, FailBook, Complete, Goto,
       TypeOK
  <2>2. pc[w] # "leaving"
    BY <1>8 DEF PushDecrypt, PushProcess, Abandon, FailRow, FailBook, Complete
  <2> QED BY <1>5, <2>1, <2>2 DEF Leave
<1> QED BY <1>3, <1>4, <1>6, <1>7, <1>8
        DEF WorkerStep, DownloadStep, DecryptStep, ProcessStep, EndStep

(* With no cancels left nobody else cancels a stage.                       *)
LEMMA TokensOfJobsStep ==
    ASSUME IInv, OneLiveRow, TokensOfJobs, CancelledLeave, budget["cancel"] = 0,
           [Next]_vars
    PROVE  TokensOfJobs' /\ CancelledLeave' /\ budget'["cancel"] = 0
<1> USE DEF IInv, dbVars, diskVars, stageVars, chanVars
<1>1. ASSUME NEW k \in Events, Spend(k)
      PROVE  k # "cancel" /\ budget'["cancel"] = 0
  BY <1>1 DEF Spend, TypeOK, Events
<1>2. ASSUME UNCHANGED <<pc, holding, cancelTok, cancelled>>, ~FactoryReset
      PROVE  TokensOfJobs' /\ CancelledLeave'
  <2>1. \A w \in Workers : holding[w] # NoJob =>
           rowBook'[holding[w].row] = rowBook[holding[w].row]
    BY <1>2, RowBookStays DEF TypeOK, JobsInHand, Job
  <2> QED BY <1>2, <2>1 DEF TokensOfJobs, CancelledLeave, BookOf
<1>3. ASSUME NEW w \in Workers, WorkerStep(w)
      PROVE  TokensOfJobs' /\ CancelledLeave' /\ budget'["cancel"] = 0
  <2>1. UNCHANGED budget \/ Spend("pause")
    <3>1. CASE DownloadStep(w)
      BY <3>1 DEF DownloadStep, PollCheck, ClaimNext, RequeueClaimed, LoadFails,
         BeginDownload, BeginReorganize, DownloadDone, PushDecrypt
    <3>2. CASE DecryptStep(w)
      BY <3>2 DEF DecryptStep, TakeDecrypt, MetadataReady, DecryptDone
    <3>3. CASE ProcessStep(w)
      BY <3>3 DEF ProcessStep, TakeProcess, MoveFile, RenameFile, MoveFails,
         RecordBook, RecordRefused, Complete
    <3>4. CASE EndStep(w)
      BY <3>4 DEF EndStep, StageFails, PushProcess, Abandon, FailRow, FailBook,
         Leave, WorkerExits
    <3> QED BY <1>3, <3>1, <3>2, <3>3, <3>4 DEF WorkerStep
  <2> QED BY <1>1, <1>3, <2>1, WorkerTokensOfJobs DEF Events
<1>4. ASSUME NEW b \in Books, QueueBookStep(b)
      PROVE  UNCHANGED <<pc, holding, cancelTok, cancelled, budget, phase>>
  BY <1>4 DEF QueueBookStep, QueueFound, QueueForget, QueueInsert, QueueStatus
<1>5. CASE UserStep
  <2>1. ASSUME NEW b \in Books PROVE ~CancelActive(b) /\ ~CancelByASIN(b)
    BY <1>1 DEF CancelActive, CancelByASIN, Events
  <2>2. UNCHANGED <<pc, holding, cancelTok, cancelled>> /\ (UNCHANGED budget \/ Spend("pause"))
    BY <1>5, <2>1 DEF UserStep, RequestQueue, QueueReorganize, ResetMedia, CancelDownload,
       RetryDownload, ClearStaleFailed, RetryAllDownloads, Pause, Resume
  <2>3. ~FactoryReset
    BY <1>5 DEF FactoryReset, NewPool, UserStep, RequestQueue, QueueReorganize, ResetMedia,
       CancelActive, CancelByASIN, CancelDownload, RetryDownload, ClearStaleFailed,
       RetryAllDownloads, Pause, Resume
  <2> QED BY <1>1, <1>2, <2>2, <2>3 DEF Events
<1>6. CASE ProcessLife
  <2>1. CASE Stop \/ StopAndWaitReturns
    <3>1. UNCHANGED <<pc, holding, cancelTok, cancelled>> /\ (UNCHANGED budget \/ Spend("stop"))
      BY <2>1 DEF Stop, StopAndWaitReturns
    <3>2. ~FactoryReset
      BY <2>1 DEF FactoryReset, NewPool, Stop, StopAndWaitReturns
    <3> QED BY <1>1, <1>2, <3>1, <3>2 DEF Events
  <2>2. CASE Crash
    <3>1. budget'["cancel"] = 0
      BY <1>1, <2>2 DEF Crash, Events
    <3> QED BY <2>2, <3>1 DEF Crash, TokensOfJobs, CancelledLeave
  <2>3. CASE Start \/ FactoryReset
    <3>1. \A w \in Workers : pc[w] = "exited"
      BY <2>3 DEF Start, FactoryReset, PoolGone
    <3>2. cancelled = {} /\ \A w \in Workers : cancelTok[w] = NoBook
      BY <3>1 DEF CancelledLeave, TokensReturned, TypeOK
    <3> QED BY <2>3, <3>2 DEF Start, FactoryReset, TokensOfJobs, CancelledLeave
  <2> QED BY <1>6, <2>1, <2>2, <2>3 DEF ProcessLife
<1>7. CASE (\E r \in Rows : FanOutDone(r)) \/ UNCHANGED vars
  <2>1. UNCHANGED <<pc, holding, cancelTok, cancelled, budget, rowBook>>
    BY <1>7 DEF FanOutDone, vars
  <2> QED BY <2>1 DEF TokensOfJobs, CancelledLeave, BookOf
<1>8. ASSUME NEW b \in Books, QueueBookStep(b) PROVE ~FactoryReset
  <2>1. UNCHANGED phase
    BY <1>4, <1>8
  <2> QED BY <2>1 DEF FactoryReset, NewPool
<1> QED BY <1>2, <1>3, <1>4, <1>5, <1>6, <1>7, <1>8 DEF Next

-----------------------------------------------------------------------------
(* Work files *)

(* A reorganize job comes to no download or decrypt stage.                 *)
LEMMA WorkerDownloadKinds ==
    ASSUME IInv, DownloadKinds, NEW w \in Workers, WorkerStep(w)
    PROVE  DownloadKinds'
<1> USE DEF IInv, chanVars
<1> DEFINE Early == {"downloading", "pushDecrypt", "awaitMeta", "decrypting"}
<1>1. \A v \in Workers : v # w => holding'[v] = holding[v] /\ pc'[v] = pc[v]
  BY OthersStay
<1>2. decryptQ \in Seq(Job)
  BY DEF TypeOK
<1>3. ASSUME UNCHANGED decryptQ, pc'[w] \in Early => ~holding'[w].reorg
      PROVE  DownloadKinds'
  BY <1>1, <1>3 DEF DownloadKinds
<1>4. CASE PushDecrypt(w)
  <2>1. decryptQ' = Append(decryptQ, holding[w]) /\ pc[w] = "pushDecrypt" /\ pc'[w] = "leaving"
    BY <1>4 DEF PushDecrypt, HandOver, Goto, TypeOK
  <2>2. holding[w] \in Job /\ ~holding[w].reorg
    BY <2>1, JobsLive DEF DownloadKinds, Working, EmptyHanded
  <2>3. \A i \in DOMAIN decryptQ' : ~decryptQ'[i].reorg
    BY <1>2, <2>1, <2>2, Sent DEF DownloadKinds
  <2> QED BY <1>1, <2>1, <2>3 DEF DownloadKinds
<1>5. CASE TakeDecrypt(w)
  <2>1. /\ decryptQ # <<>> /\ decryptQ' = Tail(decryptQ)
        /\ holding'[w] = Head(decryptQ)
    BY <1>5 DEF TakeDecrypt, Hold, TypeOK
  <2>2. \A i \in DOMAIN decryptQ' : ~decryptQ'[i].reorg
    BY <1>2, <2>1, Received DEF DownloadKinds
  <2>3. ~holding'[w].reorg
    BY <1>2, <2>1, Received DEF DownloadKinds
  <2> QED BY <1>1, <2>2, <2>3 DEF DownloadKinds
<1>6. CASE BeginDownload(w) \/ DownloadDone(w) \/ MetadataReady(w)
  BY <1>3, <1>6 DEF BeginDownload, DownloadDone, MetadataReady, DownloadKinds
<1>7. CASE \/ PollCheck(w) \/ ClaimNext(w) \/ RequeueClaimed(w) \/ LoadFails(w)
           \/ BeginReorganize(w) \/ DecryptDone(w) \/ PushProcess(w) \/ TakeProcess(w)
  BY <1>3, <1>7 DEF PollCheck, ClaimNext, RequeueClaimed, LoadFails, BeginReorganize,
     DecryptDone, PushProcess, TakeProcess, Goto, TypeOK
<1>8. CASE \/ MoveFile(w) \/ RenameFile(w) \/ MoveFails(w) \/ RecordBook(w)
           \/ RecordRefused(w) \/ Complete(w)
  BY <1>3, <1>8 DEF MoveFile, RenameFile, MoveFails, RecordBook, RecordRefused,
     Complete, Goto, TypeOK
<1>9. CASE \/ StageFails(w) \/ Abandon(w) \/ FailRow(w) \/ FailBook(w) \/ Leave(w)
           \/ WorkerExits(w)
  BY <1>3, <1>9 DEF StageFails, Abandon, FailRow, FailBook, Leave, WorkerExits, Goto,
     TypeOK
<1> QED BY <1>4, <1>5, <1>6, <1>7, <1>8, <1>9
        DEF WorkerStep, DownloadStep, DecryptStep, ProcessStep, EndStep

(* The row of a download in hand is marked active, that of a reorganize    *)
(* job is not, and then its book has no work files.                        *)
LEMMA JobMarks ==
    ASSUME IInv, OneLiveRow, WorkFilesOfActive, NEW w \in Workers, Working(w)
    PROVE  /\ ~holding[w].reorg => rowSt[holding[w].row] = "active"
           /\ holding[w].reorg => /\ rowSt[holding[w].row] # "active"
                                  /\ BookOf(w) \notin enc \cup dec
<1> USE JobsLive
<1>1. holding[w].reorg <=> holding[w].row \in asReorg
  BY DEF IInv, KindKept
<1>2. rowSt[holding[w].row] = "active" <=> ~holding[w].reorg
  BY <1>1 DEF IInv, KindKept, Claimed
<1>3. ASSUME holding[w].reorg, BookOf(w) \in enc \cup dec PROVE FALSE
  <2>1. PICK r \in Rows : rowBook[r] = BookOf(w) /\ rowSt[r] = "active"
    BY <1>3 DEF WorkFilesOfActive
  <2>2. r = holding[w].row
    BY <2>1 DEF OneLiveRow, Live, Claimed, BookOf
  <2> QED BY <1>2, <1>3, <2>1, <2>2
<1> QED BY <1>2, <1>3

(* A row stops being marked active in hands that have no work files left.  *)
LEMMA ActiveEnds ==
    ASSUME IInv, OneLiveRow, WorkFilesOfActive, DownloadKinds,
           NEW w \in Workers, WorkerStep(w),
           NEW r \in Rows, rowSt[r] = "active", rowSt'[r] # "active"
    PROVE  /\ pc[w] \in {"claimed", "failRow", "completing"}
           /\ r = holding[w].row
<1> USE DEF IInv, dbVars
<1>1. r = holding[w].row
  BY OwnRowOnly DEF Claimable
<1>2. CASE Working(w)
  <2>1. rowSt[r] = "active" /\ ~holding[w].reorg
    BY <1>1, <1>2, JobMarks
  <2>2. ~BeginDownload(w) /\ ~BeginReorganize(w) /\ ~DownloadDone(w)
    BY <1>1, <2>1 DEF BeginDownload, BeginReorganize, DownloadDone, SetRow,
       StatusInMemory, TypeOK
  <2>3. RequeueClaimed(w) \/ FailRow(w) \/ Complete(w)
    <3>1. \/ ClaimNext(w) \/ RequeueClaimed(w) \/ BeginDownload(w) \/ BeginReorganize(w)
          \/ DownloadDone(w) \/ Complete(w) \/ FailRow(w)
      <4>1. ~PollCheck(w) /\ ~LoadFails(w) /\ ~PushDecrypt(w) /\ ~DecryptStep(w)
        BY DEF PollCheck, LoadFails, PushDecrypt, DecryptStep, TakeDecrypt,
           MetadataReady, DecryptDone
      <4>2. /\ ~TakeProcess(w) /\ ~MoveFile(w) /\ ~RenameFile(w) /\ ~MoveFails(w)
            /\ ~RecordBook(w) /\ ~RecordRefused(w)
        BY DEF TakeProcess, MoveFile, RenameFile, MoveFails, RecordBook, RecordRefused
      <4>3. /\ ~StageFails(w) /\ ~PushProcess(w) /\ ~Abandon(w) /\ ~FailBook(w)
            /\ ~Leave(w) /\ ~WorkerExits(w)
        BY DEF StageFails, PushProcess, Abandon, FailBook, Leave, WorkerExits
      <4> QED BY <4>1, <4>2, <4>3 DEF WorkerStep, DownloadStep, ProcessStep, EndStep
    <3> QED BY <1>2, <2>2, <3>1 DEF ClaimNext, Working, EmptyHanded
  <2> QED BY <1>1, <2>3 DEF RequeueClaimed, FailRow, Complete
<1>3. CASE ~Working(w)
  <2>1. holding[w] # NoJob
    BY <1>1 DEF NoJob, Rows
  <2>2. pc[w] = "failBook"
    BY <1>3, <2>1 DEF JobsInHand, Working
  <2>3. UNCHANGED rowSt
    BY <2>2, LastSteps DEF FailBook, Leave
  <2> QED BY <2>3
<1> QED BY <1>2, <1>3

(* Work files belong to a row marked active all along.                     *)
LEMMA WorkerFiles ==
    ASSUME IInv, OneLiveRow, DownloadKinds, WorkFilesOfActive, NoWorkFiles,
           NEW w \in Workers, WorkerStep(w)
    PROVE  WorkFilesOfActive' /\ NoWorkFiles'
<1> USE DEF IInv, diskVars
<1> DEFINE Free == {"claimed", "failRow", "completing"}
<1>1. UNCHANGED rowBook /\ \A v \in Workers : v # w => holding'[v] = holding[v] /\ pc'[v] = pc[v]
  BY WorkerRows, OthersStay
<1>2. ASSUME enc' \cup dec' \subseteq enc \cup dec,
             pc'[w] \in Free => rowBook[holding'[w].row] \notin enc' \cup dec'
      PROVE  WorkFilesOfActive' /\ NoWorkFiles'
  <2>1. WorkFilesOfActive'
    <3>1. SUFFICES ASSUME NEW b \in enc \cup dec
                   PROVE  \E r \in Rows : rowBook[r] = b /\ rowSt'[r] = "active"
      BY <1>1, <1>2 DEF WorkFilesOfActive
    <3>2. PICK r \in Rows : rowBook[r] = b /\ rowSt[r] = "active"
      BY DEF WorkFilesOfActive
    <3>3. ASSUME rowSt'[r] # "active" PROVE FALSE
      <4>1. pc[w] \in Free /\ BookOf(w) = b
        BY <3>2, <3>3, ActiveEnds DEF BookOf
      <4> QED BY <3>1, <4>1 DEF NoWorkFiles
    <3> QED BY <3>2, <3>3
  <2>2. NoWorkFiles'
    BY <1>1, <1>2 DEF NoWorkFiles, BookOf
  <2> QED BY <2>1, <2>2
<1>3. CASE DownloadDone(w) \/ DecryptDone(w)
  <2>1. /\ pc[w] \in {"downloading", "decrypting"} /\ pc'[w] \notin Free
        /\ enc' \cup dec' = enc \cup dec \cup {BookOf(w)}
    BY <1>3 DEF DownloadDone, DecryptDone, Goto, TypeOK
  <2>2. Working(w) /\ ~holding[w].reorg
    BY <2>1 DEF Working, EmptyHanded, DownloadKinds
  <2>3. \A r \in Rows : rowSt[r] = "active" => rowSt'[r] = "active"
    BY <2>1, ActiveEnds
  <2>4. rowSt'[holding[w].row] = "active" /\ holding[w].row \in Rows
    BY <2>2, <2>3, JobMarks, JobsLive
  <2>5. WorkFilesOfActive'
    BY <1>1, <2>1, <2>3, <2>4 DEF WorkFilesOfActive, BookOf
  <2>6. \A v \in Workers : v # w /\ pc[v] \in Free => BookOf(v) # BookOf(w)
    BY <2>2, JobsApart DEF Working, EmptyHanded
  <2> QED BY <1>1, <2>1, <2>5, <2>6 DEF NoWorkFiles, BookOf
<1>4. CASE ClaimNext(w)
  <2>1. CASE pc'[w] = "idle"
    BY <1>2, <1>4, <2>1 DEF ClaimNext
  <2>2. CASE \E r \in Rows : rowSt[r] \in Claimable /\ holding'[w].row = r
    <3>1. PICK r \in Rows : rowSt[r] \in Claimable /\ holding'[w].row = r
      BY <2>2
    <3>2. rowBook[r] \notin enc \cup dec
      BY <3>1 DEF WorkFilesOfActive, OneLiveRow, Live, Claimable, Claimed
    <3> QED BY <1>2, <1>4, <3>1, <3>2 DEF ClaimNext
  <2>3. ASSUME NEW r \in Rows, Hold(w, [row |-> r, reorg |-> rowSt[r] = "reorganize"])
        PROVE  holding'[w].row = r
    <3>1. holding'[w] = [row |-> r, reorg |-> rowSt[r] = "reorganize"]
      BY <2>3 DEF Hold, TypeOK
    <3> QED BY <3>1
  <2> QED BY <1>4, <2>1, <2>2, <2>3 DEF ClaimNext, Goto, TypeOK
<1>5. CASE LoadFails(w)
  BY <1>2, <1>5 DEF LoadFails, NoWorkFiles, BookOf
<1>6. CASE StageFails(w) \/ MoveFails(w) \/ RecordBook(w) \/ RecordRefused(w)
  <2>1. UNCHANGED holding /\ Working(w)
    BY <1>6 DEF StageFails, MoveFails, RecordBook, RecordRefused, Working, EmptyHanded
  <2>2. CleanupDownloadFiles(BookOf(w)) \/ (UNCHANGED <<enc, dec>> /\ holding[w].reorg)
    BY <1>6 DEF StageFails, MoveFails, RecordBook, RecordRefused, DropWorkFiles
  <2>3. enc' \cup dec' \subseteq enc \cup dec /\ BookOf(w) \notin enc' \cup dec'
    BY <2>1, <2>2, JobMarks DEF CleanupDownloadFiles
  <2> QED BY <1>2, <2>1, <2>3 DEF BookOf
<1>7. CASE \/ PollCheck(w) \/ RequeueClaimed(w) \/ BeginDownload(w) \/ BeginReorganize(w)
           \/ PushDecrypt(w) \/ TakeDecrypt(w) \/ MetadataReady(w) \/ TakeProcess(w)
  BY <1>2, <1>7 DEF PollCheck, RequeueClaimed, BeginDownload, BeginReorganize,
     PushDecrypt, TakeDecrypt, MetadataReady, TakeProcess, Goto, TypeOK
<1>8. CASE \/ MoveFile(w) \/ RenameFile(w) \/ Complete(w) \/ PushProcess(w)
           \/ Abandon(w) \/ FailRow(w) \/ FailBook(w) \/ Leave(w) \/ WorkerExits(w)
  BY <1>2, <1>8 DEF MoveFile, RenameFile, Complete, PushProcess, Abandon, FailRow,
     FailBook, Leave, WorkerExits, Goto, TypeOK
<1> QED BY <1>3, <1>4, <1>5, <1>6, <1>7, <1>8
        DEF WorkerStep, DownloadStep, DecryptStep, ProcessStep, EndStep

(* No handler touches an active row or a work file; a start leaves none.   *)
LEMMA FilesStep ==
    ASSUME IInv, OneLiveRow, DownloadKinds, WorkFilesOfActive, NoWorkFiles, [Next]_vars
    PROVE  DownloadKinds' /\ WorkFilesOfActive' /\ NoWorkFiles'
<1> USE DEF IInv, dbVars, diskVars, stageVars, chanVars
<1> DEFINE Kept == DownloadKinds' /\ WorkFilesOfActive' /\ NoWorkFiles'
<1>1. ASSUME UNCHANGED <<enc, dec, pc, holding, decryptQ>>, ~FactoryReset,
             \A r \in Rows : rowSt[r] = "active" => rowSt'[r] = "active"
      PROVE  Kept
  <2>1. \A r \in Rows : r < nextRow => rowBook'[r] = rowBook[r]
    BY <1>1, RowBookStays
  <2>2. \A r \in Rows : rowSt[r] = "active" => rowBook'[r] = rowBook[r]
    BY <2>1 DEF RowsInOrder, TypeOK, Rows
  <2>3. WorkFilesOfActive'
    BY <1>1, <2>2 DEF WorkFilesOfActive
  <2>4. ASSUME NEW w \in Workers, pc[w] \in {"claimed", "failRow", "completing"}
        PROVE  BookOf(w)' = BookOf(w)
    <3>1. Working(w)
      BY <2>4 DEF Working, EmptyHanded
    <3> QED BY <1>1, <2>1, <3>1, JobsLive DEF BookOf
  <2>5. NoWorkFiles'
    BY <1>1, <2>4 DEF NoWorkFiles
  <2> QED BY <1>1, <2>3, <2>5 DEF DownloadKinds
<1>2. ASSUME NEW w \in Workers, WorkerStep(w) PROVE Kept
  BY <1>2, WorkerDownloadKinds, WorkerFiles
<1>3. ASSUME UNCHANGED phase PROVE ~FactoryReset
  BY <1>3 DEF FactoryReset, NewPool
<1>4. ASSUME NEW b \in Books, QueueBookStep(b) PROVE Kept
  <2>1. UNCHANGED <<enc, dec, pc, holding, decryptQ, phase>>
    BY <1>4 DEF QueueBookStep, QueueFound, QueueForget, QueueInsert, QueueStatus
  <2>2. \A r \in Rows : rowSt[r] = "active" => rowSt'[r] = "active"
    <3>1. CASE QueueInsert(b)
      BY <3>1 DEF QueueInsert, InsertRow, RowsInOrder, TypeOK
    <3>2. CASE QueueFound(b) \/ QueueForget(b) \/ QueueStatus(b)
      BY <3>2 DEF QueueFound, QueueForget, QueueStatus
    <3> QED BY <1>4, <3>1, <3>2 DEF QueueBookStep
  <2> QED BY <1>1, <1>3, <2>1, <2>2
<1>5. CASE UserStep
  <2>1. UNCHANGED <<enc, dec, pc, holding, decryptQ, phase>>
    BY <1>5 DEF UserStep, RequestQueue, QueueReorganize, ResetMedia, CancelActive,
       CancelByASIN, CancelDownload, RetryDownload, ClearStaleFailed,
       RetryAllDownloads, Pause, Resume
  <2>2. \A r \in Rows : rowSt[r] = "active" => rowSt'[r] = "active"
    BY <1>5, UserKeepsClaims DEF Claimed
  <2> QED BY <1>1, <1>3, <2>1, <2>2
<1>6. CASE Stop \/ StopAndWaitReturns
  <2>1. UNCHANGED <<enc, dec, pc, holding, decryptQ, rowSt>> /\ phase' # "running"
    BY <1>6 DEF Stop, StopAndWaitReturns
  <2>2. ~FactoryReset
    BY <2>1 DEF FactoryReset, NewPool
  <2> QED BY <1>1, <2>1, <2>2
<1>7. CASE Crash
  <2>1. UNCHANGED <<enc, dec, rowSt, rowBook>> /\ decryptQ' = <<>>
        /\ \A w \in Workers : pc'[w] = "exited"
    BY <1>7 DEF Crash
  <2> QED BY <2>1 DEF DownloadKinds, WorkFilesOfActive, NoWorkFiles
<1>8. CASE Start
  <2>1. decryptQ' = <<>> /\ \A w \in Workers : pc'[w] = "idle"
    BY <1>8 DEF Start, NewPool
  <2>2. \A b \in enc \cup dec : ~KeepsWorkFiles(b)
    BY DEF WorkFilesOfActive, KeepsWorkFiles
  <2>3. enc' = {} /\ dec' = {}
    BY <1>8, <2>2 DEF Start
  <2> QED BY <2>1, <2>3 DEF DownloadKinds, WorkFilesOfActive, NoWorkFiles
<1>9. CASE FactoryReset
  <2>1. decryptQ' = <<>> /\ enc' = {} /\ dec' = {} /\ \A w \in Workers : pc'[w] = "idle"
    BY <1>9 DEF FactoryReset, NewPool
  <2> QED BY <2>1 DEF DownloadKinds, WorkFilesOfActive, NoWorkFiles
<1>10. CASE (\E r \in Rows : FanOutDone(r)) \/ UNCHANGED vars
  BY <1>1, <1>3, <1>10 DEF FanOutDone, vars
<1> QED BY <1>2, <1>4, <1>5, <1>6, <1>7, <1>8, <1>9, <1>10 DEF Next, ProcessLife

-----------------------------------------------------------------------------
(* The catalogue *)

(* What is needed of the rest while no worker moves: no book with a live   *)
(* row becomes complete or loses its file.                                 *)
LEMMA CatalogueStays ==
    ASSUME IInv, MovedInLibrary, BusyIncomplete, [Next]_vars,
           UNCHANGED <<pc, holding, decryptQ, processQ, phase>>,
           \A b \in Books : LiveRow(b) =>
               /\ bookSt'[b] = "complete" => bookSt[b] = "complete"
               /\ b \in library => b \in library'
    PROVE  MovedInLibrary' /\ BusyIncomplete'
<1>1. \A r \in Rows : r < nextRow => rowBook'[r] = rowBook[r]
  BY RowBookStays DEF FactoryReset, NewPool
<1>2. \A w \in Workers : Working(w) => BookOf(w)' = BookOf(w)
  BY <1>1, JobsLive DEF BookOf
<1>3. \A j \in InChannels : rowBook'[j.row] = rowBook[j.row]
  BY <1>1, JobsLive
<1>4. InChannels' = InChannels
  BY DEF InChannels
<1>5. \A w \in Workers : pc[w] \in Begun \cup {"moved", "completing"} => Working(w)
  BY DEF Begun, Working, EmptyHanded
<1> QED BY <1>2, <1>3, <1>4, <1>5, JobsLive DEF MovedInLibrary, BusyIncomplete

(* A worker's writes to a book it has in hand.                             *)
LEMMA WorkerBooks ==
    ASSUME IInv, NEW w \in Workers, WorkerStep(w)
    PROVE  /\ library \subseteq library'
           /\ UNCHANGED bookSt \/ \E b \in Books, s \in {"downloading", "decrypting",
                  "processing", "complete", "failed"} :
                /\ bookSt' = [bookSt EXCEPT ![b] = s]
                /\ s = "complete" => RecordBook(w) /\ b = BookOf(w)
<1> USE DEF IInv, SetBook, dbVars, diskVars
<1>1. CASE BeginDownload(w) \/ BeginReorganize(w)
  BY <1>1, JobHasBook DEF BeginDownload, BeginReorganize, EmptyHanded
<1>2. CASE TakeDecrypt(w) \/ TakeProcess(w)
  BY <1>2, JobHasBook, HeadInChannel DEF TakeDecrypt, TakeProcess
<1>3. CASE RecordBook(w) \/ FailBook(w)
  BY <1>3, JobHasBook DEF RecordBook, FailBook, EmptyHanded
<1>4. CASE \/ PollCheck(w) \/ ClaimNext(w) \/ RequeueClaimed(w) \/ LoadFails(w)
           \/ DownloadDone(w) \/ PushDecrypt(w) \/ MetadataReady(w) \/ DecryptDone(w)
  BY <1>4 DEF PollCheck, ClaimNext, RequeueClaimed, LoadFails, DownloadDone, PushDecrypt,
     MetadataReady, DecryptDone
<1>5. CASE MoveFile(w) \/ RenameFile(w) \/ MoveFails(w) \/ RecordRefused(w) \/ Complete(w)
  BY <1>5 DEF MoveFile, RenameFile, MoveFails, RecordRefused, Complete
<1>6. CASE \/ StageFails(w) \/ PushProcess(w) \/ Abandon(w) \/ FailRow(w) \/ Leave(w)
           \/ WorkerExits(w)
  BY <1>6 DEF StageFails, PushProcess, Abandon, FailRow, Leave, WorkerExits
<1> QED BY <1>1, <1>2, <1>3, <1>4, <1>5, <1>6
        DEF WorkerStep, DownloadStep, DecryptStep, ProcessStep, EndStep

(* A book in hand is not complete before its own job records it.           *)
LEMMA WorkerCatalogue ==
    ASSUME IInv, OneLiveRow, MovedInLibrary, BusyIncomplete, CompleteHasFile,
           NEW w \in Workers, WorkerStep(w)
    PROVE  MovedInLibrary' /\ BusyIncomplete' /\ CompleteHasFile'
<1> USE DEF IInv
<1>1. UNCHANGED rowBook /\ \A v \in Workers : v # w => holding'[v] = holding[v] /\ pc'[v] = pc[v]
  BY WorkerRows, OthersStay
<1>2. library \subseteq library'
  BY WorkerBooks
<1>3. ASSUME NEW b \in Books, bookSt[b] # "complete", bookSt'[b] = "complete"
      PROVE  RecordBook(w) /\ b = BookOf(w)
  BY <1>3, WorkerBooks DEF TypeOK
<1>4. MovedInLibrary'
  <2>1. ASSUME pc'[w] \in {"moved", "completing"}
        PROVE  rowBook[holding'[w].row] \in library'
    <3>1. CASE MoveFile(w) \/ RenameFile(w)
      BY <3>1 DEF MoveFile, RenameFile, BookOf, diskVars
    <3>2. CASE RecordBook(w) \/ RecordRefused(w)
      BY <1>2, <3>2 DEF RecordBook, RecordRefused, BookOf, MovedInLibrary
    <3>3. MoveFile(w) \/ RenameFile(w) \/ RecordBook(w) \/ RecordRefused(w)
      <4> USE <2>1 DEF Goto, TypeOK
      <4>1. ~DownloadStep(w)
        BY DEF DownloadStep, PollCheck, ClaimNext, RequeueClaimed, LoadFails,
           BeginDownload, BeginReorganize, DownloadDone, PushDecrypt
      <4>2. ~DecryptStep(w) /\ ~TakeProcess(w) /\ ~MoveFails(w) /\ ~Complete(w)
        BY DEF DecryptStep, TakeDecrypt, MetadataReady, DecryptDone, TakeProcess,
           MoveFails, Complete
      <4>3. ~EndStep(w)
        BY DEF EndStep, StageFails, PushProcess, Abandon, FailRow, FailBook, Leave,
           WorkerExits
      <4> QED BY <4>1, <4>2, <4>3 DEF WorkerStep, ProcessStep
    <3> QED BY <3>1, <3>2, <3>3
  <2> QED BY <1>1, <1>2, <2>1 DEF MovedInLibrary, BookOf
<1>5. \A v \in Workers : pc[v] \in Begun => Working(v)
  BY DEF Begun, Working, EmptyHanded
<1>6. ASSUME RecordBook(w) PROVE Working(w) /\ pc'[w] = "completing"
  BY <1>6 DEF RecordBook, Working, EmptyHanded, Goto, TypeOK
<1>7. ASSUME NEW v \in Workers, v # w, pc[v] \in Begun
      PROVE  bookSt'[BookOf(v)] # "complete"
  BY <1>3, <1>5, <1>6, <1>7, JobsApart, JobsLive DEF BusyIncomplete
<1>8. ASSUME NEW j \in InChannels PROVE bookSt'[rowBook[j.row]] # "complete"
  BY <1>3, <1>6, JobsApart, JobsLive DEF BusyIncomplete
<1>9. ASSUME pc'[w] \in Begun PROVE bookSt'[rowBook[holding'[w].row]] # "complete"
  <2>1. CASE BeginDownload(w) \/ BeginReorganize(w)
    <3>1. BookOf(w) \in Books /\ UNCHANGED holding
      BY <2>1, JobHasBook DEF BeginDownload, BeginReorganize, EmptyHanded
    <3> QED BY <2>1, <3>1 DEF BeginDownload, BeginReorganize, SetBook, BookOf, TypeOK
  <2>2. CASE TakeDecrypt(w) \/ TakeProcess(w)
    <3>1. holding'[w] \in InChannels
      BY <2>2, HeadInChannel DEF TakeDecrypt, TakeProcess, Hold, TypeOK
    <3> QED BY <1>8, <3>1
  <2>3. CASE pc[w] \in Begun /\ UNCHANGED holding
    <3>1. ~RecordBook(w)
      BY <1>6, <1>9 DEF Begun
    <3> QED BY <1>3, <1>5, <2>3, <3>1, JobsLive DEF BusyIncomplete, BookOf
  <2>4. \/ BeginDownload(w) \/ BeginReorganize(w) \/ TakeDecrypt(w) \/ TakeProcess(w)
        \/ pc[w] \in Begun /\ UNCHANGED holding
    <3> USE <1>9 DEF Begun, Goto, TypeOK
    <3>1. CASE DownloadStep(w)
      BY <3>1 DEF DownloadStep, PollCheck, ClaimNext, RequeueClaimed, LoadFails,
         DownloadDone, PushDecrypt
    <3>2. CASE DecryptStep(w)
      BY <3>2 DEF DecryptStep, MetadataReady, DecryptDone
    <3>3. CASE ProcessStep(w)
      BY <3>3 DEF ProcessStep, MoveFile, RenameFile, MoveFails, RecordBook,
         RecordRefused, Complete
    <3>4. CASE EndStep(w)
      BY <3>4 DEF EndStep, StageFails, PushProcess, Abandon, FailRow, FailBook, Leave,
         WorkerExits
    <3> QED BY <3>1, <3>2, <3>3, <3>4 DEF WorkerStep
  <2> QED BY <2>1, <2>2, <2>3, <2>4
<1>10. BusyIncomplete'
  <2>1. \A j \in InChannels' : bookSt'[rowBook[j.row]] # "complete"
    <3>1. ASSUME PushDecrypt(w) \/ PushProcess(w)
          PROVE  bookSt'[BookOf(w)] # "complete"
      <4>1. pc[w] \in Begun /\ UNCHANGED bookSt
        BY <3>1 DEF PushDecrypt, PushProcess, Begun, dbVars
      <4> QED BY <4>1 DEF BusyIncomplete
    <3> QED BY <1>8, <3>1, ChannelJobs DEF BookOf
  <2> QED BY <1>1, <1>7, <1>9, <2>1 DEF BusyIncomplete, BookOf
<1>11. CompleteHasFile'
  <2>1. SUFFICES ASSUME NEW b \in Books, bookSt'[b] = "complete"
                 PROVE  bookPath'[b] = "valid" /\ b \in library'
    BY DEF CompleteHasFile
  <2>2. CASE RecordBook(w) /\ b = BookOf(w)
    BY <2>2 DEF RecordBook, MovedInLibrary, TypeOK
  <2>3. CASE bookSt[b] = "complete" /\ ~(RecordBook(w) /\ b = BookOf(w))
    <3>1. bookPath[b] = "valid" /\ b \in library'
      BY <1>2, <2>3 DEF CompleteHasFile
    <3>2. CASE RenameFile(w)
      <4>1. BookOf(w) # b
        BY <2>3, <3>2 DEF RenameFile, BusyIncomplete, Begun
      <4> QED BY <3>1, <3>2, <4>1 DEF RenameFile, TypeOK
    <3>3. CASE RecordBook(w)
      BY <2>3, <3>1, <3>3 DEF RecordBook, TypeOK
    <3>4. RenameFile(w) \/ RecordBook(w) \/ UNCHANGED bookPath
      <4> USE DEF dbVars
      <4>1. CASE DownloadStep(w)
        BY <4>1 DEF DownloadStep, PollCheck, ClaimNext, RequeueClaimed, LoadFails,
           BeginDownload, BeginReorganize, DownloadDone, PushDecrypt
      <4>2. CASE DecryptStep(w)
        BY <4>2 DEF DecryptStep, TakeDecrypt, MetadataReady, DecryptDone
      <4>3. CASE ProcessStep(w)
        BY <4>3 DEF ProcessStep, TakeProcess, MoveFile, MoveFails, RecordRefused, Complete
      <4>4. CASE EndStep(w)
        BY <4>4 DEF EndStep, StageFails, PushProcess, Abandon, FailRow, FailBook, Leave,
           WorkerExits
      <4> QED BY <4>1, <4>2, <4>3, <4>4 DEF WorkerStep
    <3> QED BY <3>1, <3>2, <3>3, <3>4
  <2> QED BY <1>3, <2>1, <2>2, <2>3
<1> QED BY <1>4, <1>10, <1>11

(* QueueBook completes a book only when it has no live row and its file is *)
(* there; a start only when the file is at the recorded path or found.     *)
LEMMA CatalogueStep ==
    ASSUME IInv, CarefulUser, OneLiveRow, RequestAlone, MovedInLibrary, BusyIncomplete,
           CompleteHasFile, [Next]_vars
    PROVE  MovedInLibrary' /\ BusyIncomplete' /\ CompleteHasFile'
<1> USE DEF IInv, SetBook, dbVars, diskVars, stageVars, chanVars
<1> DEFINE Kept == MovedInLibrary' /\ BusyIncomplete' /\ CompleteHasFile'
<1>1. ASSUME UNCHANGED <<pc, holding, decryptQ, processQ, phase, library, bookSt, bookPath>>
      PROVE  Kept
  BY <1>1, CatalogueStays DEF CompleteHasFile
<1>2. ASSUME NEW w \in Workers, WorkerStep(w) PROVE Kept
  BY <1>2, WorkerCatalogue
<1>3. ASSUME NEW b \in Books, QueueBookStep(b) PROVE Kept
  <2>1. UNCHANGED <<pc, holding, decryptQ, processQ, phase, library>>
    BY <1>3 DEF QueueBookStep, QueueFound, QueueForget, QueueInsert, QueueStatus
  <2>2. CASE QueueFound(b)
    <3>1. /\ ~LiveRow(b) /\ b \in library
          /\ bookSt' = [bookSt EXCEPT ![b] = "complete"]
          /\ bookPath' = [bookPath EXCEPT ![b] = "valid"]
      BY <2>2 DEF QueueFound, FileFound, RequestAlone
    <3>2. CompleteHasFile'
      BY <2>1, <3>1 DEF CompleteHasFile, TypeOK
    <3> QED BY <2>1, <3>1, <3>2, CatalogueStays DEF TypeOK
  <2>3. CASE QueueForget(b) \/ QueueStatus(b)
    <3>1. /\ \E s \in {"new", "queued"} : bookSt' = [bookSt EXCEPT ![b] = s]
          /\ \A c \in Books : c # b => bookPath'[c] = bookPath[c]
      BY <2>3 DEF QueueForget, QueueStatus, TypeOK
    <3>2. CompleteHasFile'
      BY <2>1, <3>1 DEF CompleteHasFile, TypeOK
    <3> QED BY <2>1, <3>1, <3>2, CatalogueStays DEF TypeOK
  <2>4. CASE QueueInsert(b)
    BY <1>1, <2>4 DEF QueueInsert
  <2> QED BY <1>3, <2>2, <2>3, <2>4 DEF QueueBookStep
<1>4. CASE UserStep
  <2>1. ASSUME NEW b \in Books, NEW requeue \in BOOLEAN, ResetMedia(b, requeue) PROVE Kept
    <3>1. /\ ~LiveRow(b) /\ library \ {b} \subseteq library'
          /\ bookSt' = [bookSt EXCEPT ![b] = "new"]
          /\ bookPath' = [bookPath EXCEPT ![b] = "none"]
          /\ UNCHANGED <<pc, holding, decryptQ, processQ, phase>>
      BY <2>1 DEF ResetMedia, UserMayAct
    <3>2. CompleteHasFile'
      BY <3>1 DEF CompleteHasFile, TypeOK
    <3>3. \A c \in Books : LiveRow(c) =>
               /\ bookSt'[c] = "complete" => bookSt[c] = "complete"
               /\ c \in library => c \in library'
      BY <3>1 DEF TypeOK
    <3> QED BY <3>1, <3>2, <3>3, CatalogueStays
  <2>2. ASSUME NEW s \in BookStatus, s # "complete", NEW B \in SUBSET Books,
               bookSt' = [b \in Books |-> IF b \in B THEN s ELSE bookSt[b]],
               UNCHANGED <<pc, holding, decryptQ, processQ, phase, library, bookPath>>
        PROVE  Kept
    BY <2>2, CatalogueStays DEF CompleteHasFile
  <2>3. ASSUME NEW q \in Rows, RetryDownload(q) PROVE Kept
    <3>1. /\ bookSt' = [bookSt EXCEPT ![rowBook[q]] = "queued"]
          /\ UNCHANGED <<pc, holding, decryptQ, processQ, phase, library, bookPath>>
      BY <2>3 DEF RetryDownload
    <3>2. bookSt' = [b \in Books |-> IF b \in {rowBook[q]} \cap Books
                                     THEN "queued" ELSE bookSt[b]]
      BY <3>1 DEF TypeOK
    <3> QED BY <2>2, <3>1, <3>2 DEF BookStatus
  <2>4. CASE RetryAllDownloads
    <3>1. /\ bookSt' = [b \in Books |-> IF b \in RetryBooks THEN "queued" ELSE bookSt[b]]
          /\ UNCHANGED <<pc, holding, decryptQ, processQ, phase, library, bookPath>>
      BY <2>4 DEF RetryAllDownloads
    <3>2. \A b \in Books : bookSt'[b] = "complete" => bookSt[b] = "complete"
      BY <3>1
    <3>3. CompleteHasFile'
      BY <3>1, <3>2 DEF CompleteHasFile
    <3> QED BY <3>1, <3>2, <3>3, CatalogueStays
  <2>5. CASE \/ \E b \in Books : \/ RequestQueue(b) \/ QueueReorganize(b)
                              \/ CancelActive(b) \/ CancelByASIN(b)
             \/ \E r \in Rows : CancelDownload(r) \/ ClearStaleFailed(r)
             \/ Pause \/ Resume
    BY <1>1, <2>5 DEF RequestQueue, QueueReorganize, CancelActive, CancelByASIN,
       CancelDownload, ClearStaleFailed, Pause, Resume
  <2> QED BY <1>4, <2>1, <2>3, <2>4, <2>5 DEF UserStep
<1>5. CASE Stop \/ StopAndWaitReturns
  <2>1. UNCHANGED <<pc, holding, decryptQ, processQ, library, bookSt, bookPath, rowBook>>
    BY <1>5 DEF Stop, StopAndWaitReturns
  <2> QED BY <2>1 DEF MovedInLibrary, BusyIncomplete, CompleteHasFile, InChannels, BookOf
<1>6. ASSUME \A w \in Workers : pc'[w] \in {"idle", "exited"},
             decryptQ' = <<>> /\ processQ' = <<>>, CompleteHasFile'
      PROVE  Kept
  BY <1>6 DEF MovedInLibrary, BusyIncomplete, InChannels, Begun
<1>7. CASE Crash
  BY <1>6, <1>7 DEF Crash, CompleteHasFile
<1>8. CASE Start
  <2>1. UNCHANGED library /\ \A b \in Books : ReconciledBook(b) = "complete" =>
              bookPath[b] = "valid" /\ b \in library
    BY <1>8 DEF Start, ReconciledBook, CompleteHasFile, Transitional
  <2>2. CASE bookSt' = [b \in Books |-> ReconciledBook(b)] /\ UNCHANGED bookPath
    <3>1. CompleteHasFile'
      BY <2>1, <2>2 DEF CompleteHasFile
    <3> QED BY <1>6, <1>8, <3>1 DEF Start, NewPool
  <2>3. ASSUME NEW found \in [Books -> BOOLEAN], \A b \in Books : found[b] \in ScanFinds(b),
               bookSt' = [b \in Books |->
                    ScannedBook(b, ReconciledBook(b), found[b]).st],
               bookPath' = [b \in Books |->
                    ScannedBook(b, ReconciledBook(b), found[b]).path]
        PROVE  Kept
    <3>1. \A b \in Books : found[b] => b \in library
      BY <2>3 DEF ScanFinds
    <3>2. \A b \in Books : bookSt'[b] = "complete" => found[b] /\ bookPath'[b] = "valid"
      BY <2>3 DEF ScannedBook
    <3>3. CompleteHasFile'
      BY <2>1, <3>1, <3>2 DEF CompleteHasFile
    <3> QED BY <1>6, <1>8, <3>3 DEF Start, NewPool
  <2> QED BY <1>8, <2>2, <2>3 DEF Start
<1>9. CASE FactoryReset
  <2>1. CompleteHasFile'
    BY <1>9 DEF FactoryReset, CompleteHasFile
  <2> QED BY <1>6, <1>9, <2>1 DEF FactoryReset, NewPool
<1>10. CASE (\E r \in Rows : FanOutDone(r)) \/ UNCHANGED vars
  BY <1>1, <1>10 DEF FanOutDone, vars
<1> QED BY <1>2, <1>3, <1>4, <1>5, <1>7, <1>8, <1>9, <1>10 DEF Next, ProcessLife

-----------------------------------------------------------------------------
(* Held tickets *)

(* A running pool loses no ticket: only a cancelled stage abandons its job,*)
(* and only stages that are over are cancelled.                            *)
LEMMA HeldOwnedStep ==
    ASSUME IInv, CancelledLeave, HeldOwned, [Next]_vars
    PROVE  HeldOwned'
<1> USE DEF IInv, dbVars, diskVars, stageVars, chanVars
<1>1. ASSUME UNCHANGED phase, UNCHANGED Queue!vars PROVE HeldOwned'
  BY <1>1 DEF HeldOwned, Queue!vars
<1>2. ASSUME NEW w \in Workers, WorkerStep(w) PROVE HeldOwned'
  <2>1. SUFFICES ASSUME Up, ~UNCHANGED Queue!vars PROVE HeldOwned'
    BY <1>1, <1>2, WorkerRows DEF HeldOwned, Up
  <2>2. ~Abandon(w)
    BY <2>1 DEF Abandon, ContextDone, CancelledLeave
  <2>3. PICK r \in Rows : Queue!Claim(r) \/ Queue!Yield(r) \/ Queue!Settle(r)
    BY <1>2, <2>1, <2>2, WorkerRefines
  <2>4. ticket \in [Rows -> {ticket[s] : s \in Rows}]
    BY MappedRows
  <2>5. CASE Queue!Claim(r)
    BY <2>1, <2>4, <2>5 DEF HeldOwned, Up, Queue!Claim
  <2>6. CASE Queue!Yield(r)
    BY <2>1, <2>4, <2>6 DEF HeldOwned, Up, Queue!Yield
  <2>7. CASE Queue!Settle(r)
    BY <2>1, <2>4, <2>7 DEF HeldOwned, Up, Queue!Settle, Queue!Final
  <2> QED BY <2>3, <2>5, <2>6, <2>7
<1>3. ASSUME UNCHANGED <<phase, owned>>,
             \A r \in Rows : rowSt'[r] \in Claimed => rowSt'[r] = rowSt[r]
      PROVE  HeldOwned'
  <2>1. \A st \in RowStatus : Seen(st) = "held" <=> st \in Claimed
    BY DEF Seen, RowStatus, Claimable, Claimed
  <2>2. \A r \in Rows : rowSt[r] \in RowStatus /\ rowSt'[r] \in RowStatus
    BY TypeStep DEF TypeOK
  <2>3. \A r \in Rows : ticket'[r] = "held" => ticket[r] = "held"
    BY <1>3, <2>1, <2>2, MappedRows, MappedRowsNext
  <2> QED BY <1>3, <2>3 DEF HeldOwned
<1>4. ASSUME NEW b \in Books, QueueBookStep(b) PROVE HeldOwned'
  <2>1. UNCHANGED <<pc, holding, decryptQ, processQ, phase>>
    BY <1>4 DEF QueueBookStep, QueueFound, QueueForget, QueueInsert, QueueStatus
  <2>2. UNCHANGED owned
    BY <2>1 DEF owned, InChannels
  <2>3. \A r \in Rows : rowSt'[r] \in Claimed => rowSt'[r] = rowSt[r]
    BY <1>4 DEF QueueBookStep, QueueFound, QueueForget, QueueInsert, QueueStatus,
       InsertRow, Claimed, TypeOK
  <2> QED BY <1>3, <2>1, <2>2, <2>3
<1>5. CASE UserStep
  <2>1. UNCHANGED <<pc, holding, decryptQ, processQ, phase>>
    BY <1>5 DEF UserStep, RequestQueue, QueueReorganize, ResetMedia, CancelActive,
       CancelByASIN, CancelDownload, RetryDownload, ClearStaleFailed,
       RetryAllDownloads, Pause, Resume
  <2>2. UNCHANGED owned
    BY <2>1 DEF owned, InChannels
  <2> QED BY <1>3, <1>5, <2>1, <2>2, UserKeepsClaims
<1>6. CASE Stop \/ StopAndWaitReturns \/ Crash
  BY <1>6 DEF Stop, StopAndWaitReturns, Crash, HeldOwned
<1>7. CASE Start \/ FactoryReset
  <2>1. \A r \in Rows : rowSt'[r] \notin Claimed
    BY <1>7 DEF Start, FactoryReset, Recovered, Claimed
  <2>2. \A r \in Rows : ticket'[r] # "held"
    <3>1. \A st \in RowStatus : Seen(st) = "held" <=> st \in Claimed
      BY DEF Seen, RowStatus, Claimable, Claimed
    <3> QED BY <2>1, <3>1, TypeStep, MappedRowsNext DEF TypeOK
  <2> QED BY <2>2 DEF HeldOwned
<1>8. CASE (\E r \in Rows : FanOutDone(r)) \/ UNCHANGED vars
  BY <1>1, <1>8, NothingMoved DEF FanOutDone, vars
<1> QED BY <1>2, <1>4, <1>5, <1>6, <1>7, <1>8 DEF Next, ProcessLife

-----------------------------------------------------------------------------
(* The theorems about careful users *)

(* The invariant holds when the pool has been set up.                      *)
LEMMA CarefulInit ==
    Init /\ CarefulUser /\ Budget["cancel"] = 0 => CarefulInv
<1> SUFFICES ASSUME Init, CarefulUser, Budget["cancel"] = 0 PROVE CarefulInv
  OBVIOUS
<1> USE DEF Init
<1>1. OneLiveRow /\ RequestAlone
  BY DEF OneLiveRow, RequestAlone, Live, Claimable, Claimed
<1>2. TokensOfJobs /\ CancelledLeave /\ DownloadKinds
  BY DEF TokensOfJobs, CancelledLeave, DownloadKinds
<1>3. WorkFilesOfActive /\ NoWorkFiles /\ MovedInLibrary
  BY DEF WorkFilesOfActive, NoWorkFiles, MovedInLibrary
<1>4. BusyIncomplete /\ CompleteHasFile
  BY DEF BusyIncomplete, CompleteHasFile, Begun, InChannels
<1>5. HeldOwned
  BY MappedRows DEF HeldOwned, Seen, Claimable, Claimed
<1> QED BY <1>1, <1>2, <1>3, <1>4, <1>5 DEF CarefulInv

(* Every step keeps it.                                                    *)
LEMMA CarefulStep == IInv /\ CarefulInv /\ [Next]_vars => CarefulInv'
<1> SUFFICES ASSUME IInv, CarefulInv, [Next]_vars PROVE CarefulInv'
  OBVIOUS
<1> USE DEF CarefulInv
<1>1. OneLiveRow' /\ RequestAlone' BY LiveRowsStep
<1>2. TokensOfJobs' /\ CancelledLeave' /\ budget'["cancel"] = 0 BY TokensOfJobsStep
<1>3. DownloadKinds' /\ WorkFilesOfActive' /\ NoWorkFiles' BY FilesStep
<1>4. MovedInLibrary' /\ BusyIncomplete' /\ CompleteHasFile' BY CatalogueStep
<1>5. HeldOwned' BY HeldOwnedStep
<1> QED BY <1>1, <1>2, <1>3, <1>4, <1>5

(* With it, a claimed row has its owner and a complete book its file.      *)
LEMMA CarefulStrands == IInv /\ CarefulInv => NothingStranded
<1> SUFFICES ASSUME IInv, CarefulInv PROVE NothingStranded
  OBVIOUS
<1>1. ActiveRowsOwned
  <2>1. SUFFICES ASSUME phase = "running", NEW r \in Rows, rowSt[r] \in Claimed
                 PROVE  Owned(r)
    BY DEF ActiveRowsOwned
  <2>2. ticket[r] = "held"
    <3>1. Seen(rowSt[r]) = "held"
      BY <2>1 DEF Seen, Claimable, Claimed
    <3> QED BY <3>1, MappedRows
  <2>3. r \in owned
    BY <2>1, <2>2 DEF CarefulInv, HeldOwned
  <2> QED BY <2>3 DEF owned, Owned
<1> QED BY <1>1 DEF NothingStranded, CarefulInv

(* A row is completed by the worker that has the book in the library and   *)
(* has removed its work files.                                             *)
LEMMA CarefulDelivers == IInv /\ CarefulInv /\ [Next]_vars => [DeliveryStep]_vars
<1> SUFFICES ASSUME IInv, CarefulInv, Next,
                    NEW r \in Rows, rowSt[r] # "complete", rowSt'[r] = "complete"
             PROVE  rowBook[r] \in library \ (enc \cup dec)
  BY DEF DeliveryStep
<1> USE DEF IInv, dbVars, diskVars, stageVars, chanVars
<1>1. ASSUME NEW w \in Workers, Complete(w) PROVE rowBook[r] \in library \ (enc \cup dec)
  <2>1. r = holding[w].row /\ pc[w] = "completing"
    BY <1>1 DEF Complete, SetRow, TypeOK
  <2> QED BY <2>1 DEF CarefulInv, MovedInLibrary, NoWorkFiles, BookOf
<1>2. ASSUME NEW w \in Workers, WorkerStep(w) PROVE Complete(w)
  <2>1. CASE DownloadStep(w)
    BY <2>1 DEF DownloadStep, PollCheck, ClaimNext, ClaimStatus, RequeueClaimed,
       RequeueStatus, LoadFails, BeginDownload, BeginReorganize, DownloadDone,
       StatusInMemory, PushDecrypt, SetRow, TypeOK
  <2>2. CASE DecryptStep(w)
    BY <2>2 DEF DecryptStep, TakeDecrypt, MetadataReady, DecryptDone
  <2>3. CASE ProcessStep(w)
    BY <2>3 DEF ProcessStep, TakeProcess, MoveFile, RenameFile, MoveFails, RecordBook,
       RecordRefused
  <2>4. CASE EndStep(w)
    BY <2>4 DEF EndStep, StageFails, PushProcess, Abandon, FailRow, FailBook, Leave,
       WorkerExits, SetRow, TypeOK
  <2> QED BY <1>2, <2>1, <2>2, <2>3, <2>4 DEF WorkerStep
<1>3. ASSUME NEW b \in Books, QueueBookStep(b) PROVE FALSE
  BY <1>3 DEF QueueBookStep, QueueFound, QueueForget, QueueInsert, QueueStatus,
     InsertRow, TypeOK
<1>4. CASE UserStep
  <2>1. ASSUME NEW b \in Books PROVE ~QueueReorganize(b) /\ ~CancelByASIN(b)
    BY DEF QueueReorganize, InsertRow, CancelByASIN, TypeOK
  <2>2. ASSUME NEW q \in Rows
        PROVE  ~CancelDownload(q) /\ ~ClearStaleFailed(q) /\ ~RetryDownload(q)
    BY DEF CancelDownload, ClearStaleFailed, RetryDownload, TypeOK
  <2>3. ~RetryAllDownloads
    BY DEF RetryAllDownloads
  <2>4. UNCHANGED rowSt
    BY <1>4, <2>1, <2>2, <2>3 DEF UserStep, RequestQueue, ResetMedia, CancelActive,
       Pause, Resume
  <2> QED BY <2>4
<1>5. ~ProcessLife
  BY DEF ProcessLife, Stop, StopAndWaitReturns, Crash, Start, FactoryReset, Recovered
<1>6. ASSUME NEW q \in Rows, FanOutDone(q) PROVE FALSE
  BY <1>6 DEF FanOutDone
<1> QED BY <1>1, <1>2, <1>3, <1>4, <1>5, <1>6 DEF Next

(* Careful users lose nothing: through failures, pauses, stops, crashes    *)
(* and restarts, a running pool has every job marked claimed in hand or in *)
(* a channel, and a complete book has its file at the recorded path.       *)
THEOREM Careful ==
    CarefulUser /\ Budget["cancel"] = 0 /\ Spec => []NothingStranded
<1>1. Init /\ CarefulUser /\ Budget["cancel"] = 0 => CarefulInv
  BY CarefulInit
<1>2. IInv /\ CarefulInv /\ [Next]_vars => CarefulInv'
  BY CarefulStep
<1>3. IInv /\ CarefulInv => NothingStranded
  BY CarefulStrands
<1> QED BY <1>1, <1>2, <1>3, Invariant, PTL DEF Spec

(* For them, too, a job is marked complete only when its book is in the    *)
(* library, with no work file left behind.                                 *)
THEOREM DeliveredOnDisk ==
    CarefulUser /\ Budget["cancel"] = 0 /\ Spec => CompleteMeansOnDisk
<1>1. Init /\ CarefulUser /\ Budget["cancel"] = 0 => CarefulInv
  BY CarefulInit
<1>2. IInv /\ CarefulInv /\ [Next]_vars => CarefulInv'
  BY CarefulStep
<1>3. IInv /\ CarefulInv /\ [Next]_vars => [DeliveryStep]_vars
  BY CarefulDelivers
<1> QED BY <1>1, <1>2, <1>3, Invariant, PTL DEF Spec, CompleteMeansOnDisk

-----------------------------------------------------------------------------
(* A scan of the files beside the pipeline                                 *)

(* What a scan matches a book to is a path or nothing.                     *)
LEMMA MatchesPaths ==
    ASSUME ScanTypeOK, NEW b \in Books
    PROVE  Matches(b) \subseteq Paths \cup {"none"}
<1>1. seen[b] \subseteq Paths
  BY DEF ScanTypeOK
<1> QED BY <1>1 DEF Matches, Paths

(* The invariant of the pipeline says nothing of the catalogue's statuses  *)
(* and paths but their types.                                              *)
LEMMA CatalogueFree ==
    ASSUME IInv,
           UNCHANGED <<rowSt, rowBook, nextRow, diskVars, phase, paused,
                       stageVars, chanVars, fanning, request, asReorg, budget>>,
           bookSt' \in [Books -> BookStatus],
           bookPath' \in [Books -> {"none", "valid", "stale"}]
    PROVE  IInv'
<1> USE DEF IInv, diskVars, stageVars, chanVars
<1>1. TypeOK' BY DEF TypeOK
<1>2. RowsInOrder' BY DEF RowsInOrder
<1>3. JobsInHand' BY DEF JobsInHand, InChannels
<1>4. HeldClaimed' BY DEF HeldClaimed, InChannels
<1>5. TokensReturned' /\ PoolGone' BY DEF TokensReturned, PoolGone
<1>6. SingleOwner' BY DEF SingleOwner, InChannels
<1>7. StageCancellable' BY DEF StageCancellable
<1>8. KindKept' BY DEF KindKept, InChannels
<1> QED BY <1>1, <1>2, <1>3, <1>4, <1>5, <1>6, <1>7, <1>8

(* What a scan writes of a book is a status and a path.                    *)
LEMMA ReconcileTypes ==
    ASSUME ScanTypeOK, NEW b \in Books, ReconcileBook(b)
    PROVE  /\ bookSt' \in [Books -> BookStatus]
           /\ bookPath' \in [Books -> {"none", "valid", "stale"}]
<1>1. bookSt \in [Books -> BookStatus]
      /\ bookPath \in [Books -> {"none", "valid", "stale"}]
  BY DEF ScanTypeOK, TypeOK
<1>2. CASE UNCHANGED <<bookSt, bookPath>>
  BY <1>1, <1>2
<1>3. ASSUME NEW p \in Matches(b), p # "none", Write(b, "complete", p)
      PROVE  /\ bookSt' \in [Books -> BookStatus]
             /\ bookPath' \in [Books -> {"none", "valid", "stale"}]
  BY <1>1, <1>3, MatchesPaths DEF Write, BookStatus, Paths
<1>4. CASE Write(b, "new", "none")
  BY <1>1, <1>4 DEF Write, BookStatus
<1> QED BY <1>2, <1>3, <1>4 DEF ReconcileBook

(* Every step, of the scan or of the pipeline, keeps the pipeline's        *)
(* invariant.                                                              *)
LEMMA ScanKeepsIInv ==
    ASSUME IInv, ScanTypeOK, [ScanNext]_allVars
    PROVE  IInv'
<1>1. CASE UNCHANGED vars
  BY <1>1, IInvStep
<1>2. CASE Next
  BY <1>2, IInvStep
<1>3. ASSUME NEW b \in Books, ReconcileBook(b)
      PROVE  IInv'
  <2>1. UNCHANGED <<rowSt, rowBook, nextRow, diskVars, phase, paused,
                    stageVars, chanVars, fanning, request, asReorg, budget>>
    BY <1>3 DEF ReconcileBook
  <2> QED BY <1>3, <2>1, ReconcileTypes, CatalogueFree
<1>4. CASE ScanStep
  <2>1. CASE ScanBegin \/ ScanList \/ ScanReturns \/ ScanFails
    BY <1>1, <2>1 DEF ScanBegin, ScanList, ScanReturns, ScanFails
  <2>2. ASSUME NEW b \in Books, Walk(b)
        PROVE  IInv'
    BY <1>1, <2>2 DEF Walk
  <2> QED BY <1>3, <1>4, <2>1, <2>2 DEF ScanStep
<1>5. CASE CrashDuringScan
  BY <1>2, <1>5 DEF CrashDuringScan, Next, ProcessLife
<1> QED BY <1>1, <1>2, <1>4, <1>5
        DEF ScanNext, PipelineAlone, PipelineBesideScan, allVars

-----------------------------------------------------------------------------
(* Types *)

(* A path the scan remembers stays a path, whatever happens to the file.   *)
LEMMA PathNowType ==
    ASSUME NEW b \in Books, NEW p \in Paths \cup {"none"}, NEW again \in BOOLEAN
    PROVE  PathNow(b, p, again) \in Paths \cup {"none"}
           /\ (p \in Paths => PathNow(b, p, again) \in Paths)
BY DEF PathNow, Paths

(* The scan's own variables keep their types.                              *)
LEMMA ScanTypeStep ==
    ASSUME IInv, ScanTypeOK, [ScanNext]_allVars
    PROVE  ScanTypeOK'
<1>1. TypeOK'
  BY ScanKeepsIInv DEF IInv
<1>2. CASE UNCHANGED scanVars
  BY <1>1, <1>2 DEF ScanTypeOK, scanVars
<1>3. CASE ScanOver
  BY <1>1, <1>3 DEF ScanOver, ScanTypeOK, NothingListed, BookRecord, BookStatus
<1>4. CASE ScanBegin
  BY <1>1, <1>4 DEF ScanBegin, ScanTypeOK
<1>5. CASE ScanList
  BY <1>1, <1>5 DEF ScanList, ScanTypeOK, TypeOK, BookRecord, Paths
<1>6. ASSUME NEW b \in Books, Walk(b)
      PROVE  ScanTypeOK'
  BY <1>1, <1>6 DEF Walk, ScanTypeOK, Paths
<1>7. ASSUME NEW b \in Books, ReconcileBook(b)
      PROVE  ScanTypeOK'
  BY <1>1, <1>7 DEF ReconcileBook, ScanTypeOK
<1>8. CASE PipelineBesideScan
  <2>1. PICK again \in BOOLEAN :
          /\ seen' = [b \in Books |-> {PathNow(b, p, again) : p \in seen[b]}]
          /\ listed' = [b \in Books |->
                [listed[b] EXCEPT !.path = PathNow(b, @, again)]]
    BY <1>8 DEF PipelineBesideScan
  <2>2. seen' \in [Books -> SUBSET Paths]
    BY <2>1, PathNowType DEF ScanTypeOK
  <2>3. listed' \in [Books -> BookRecord]
    BY <2>1, PathNowType DEF ScanTypeOK, BookRecord
  <2>4. unwalked' \subseteq Books /\ touched' \subseteq Books
    BY <1>8 DEF PipelineBesideScan, ScanTypeOK, Moved, TouchedNow
  <2> QED BY <1>1, <1>8, <2>2, <2>3, <2>4 DEF PipelineBesideScan, ScanTypeOK
<1> QED BY <1>2, <1>3, <1>4, <1>5, <1>6, <1>7, <1>8
        DEF ScanNext, ScanStep, ScanReturns, ScanFails, PipelineAlone,
            CrashDuringScan, allVars

-----------------------------------------------------------------------------
(* What the scan knows *)

(* What the scan knows of a book the pipeline does not touch stays as it   *)
(* is, and so does the book.                                               *)
LEMMA Untouched ==
    ASSUME ScanTypeOK, PipelineBesideScan, NEW b \in Books, b \notin touched'
    PROVE  /\ b \notin touched
           /\ bookSt'[b] = bookSt[b] /\ bookPath'[b] = bookPath[b]
           /\ b \in library' <=> b \in library
           /\ seen'[b] = seen[b] /\ listed'[b] = listed[b]
           /\ scanPc = "walking" => (b \in unwalked' <=> b \in unwalked)
<1>1. b \notin touched /\ b \notin TouchedNow
  BY DEF PipelineBesideScan
<1>2. /\ bookSt'[b] = bookSt[b] /\ bookPath'[b] = bookPath[b]
      /\ b \notin Moved
  BY <1>1 DEF TouchedNow
<1>3. ~Delivered(b) /\ ~FileLeft(b)
  BY <1>2 DEF Moved
<1>4. b \in library' <=> b \in library
  BY <1>3 DEF Delivered, FileLeft
<1>5. \A p, again : PathNow(b, p, again) = p
  BY <1>3 DEF PathNow
<1>6. PICK again \in BOOLEAN :
          /\ seen' = [c \in Books |-> {PathNow(c, p, again) : p \in seen[c]}]
          /\ listed' = [c \in Books |->
                [listed[c] EXCEPT !.path = PathNow(c, @, again)]]
  BY DEF PipelineBesideScan
<1>7. seen'[b] = seen[b]
  <2>1. seen'[b] = {PathNow(b, p, again) : p \in seen[b]}
    BY <1>6
  <2> QED BY <1>5, <2>1
<1>8. listed'[b] = listed[b]
  <2>1. listed'[b] = [listed[b] EXCEPT !.path = PathNow(b, listed[b].path, again)]
    BY <1>6
  <2>2. listed[b] \in BookRecord
    BY DEF ScanTypeOK
  <2> QED BY <1>5, <2>1, <2>2 DEF BookRecord
<1>9. b \in unwalked' <=> b \in unwalked
  BY <1>2 DEF PipelineBesideScan
<1> QED BY <1>1, <1>2, <1>4, <1>7, <1>8, <1>9

(* A book nobody else changed agrees with the disk once it is written.     *)
LEMMA ReconcileHeals ==
    ASSUME ScanTypeOK, FilesNamed, NEW b \in Books, ReconcileBook(b), SeenNow(b),
           listed[b] = [st |-> bookSt[b], path |-> bookPath[b]]
    PROVE  Agree(b)'
<1>0. /\ bookSt \in [Books -> BookStatus]
      /\ bookPath \in [Books -> {"none", "valid", "stale"}]
      /\ library' = library
  BY DEF ScanTypeOK, TypeOK, ReconcileBook, diskVars
<1>1. CASE b \in library
  <2>1. seen[b] = {"valid"}
    BY <1>1 DEF SeenNow
  <2>2. Matches(b) = {"valid"}
    BY <2>1 DEF Matches
  <2>3. \/ Write(b, "complete", "valid")
        \/ UpToDate(b, "valid") /\ UNCHANGED <<bookSt, bookPath>>
    BY <2>2 DEF ReconcileBook
  <2> QED BY <1>0, <1>1, <2>3 DEF Write, UpToDate, Agree
<1>2. CASE b \notin library
  <2>1. seen[b] = {}
    BY <1>2 DEF SeenNow
  <2>2. Matches(b) = {"none"}
    BY <2>1 DEF Matches
  <2>3. \/ Write(b, "new", "none")
        \/ bookSt[b] # "complete" /\ UNCHANGED <<bookSt, bookPath>>
    BY <2>2 DEF ReconcileBook
  <2> QED BY <1>0, <1>2, <2>3 DEF Write, Agree
<1> QED BY <1>1, <1>2

(* Every step keeps what the scan knows, and what it has healed.           *)
LEMMA ScanKnowsStep ==
    ASSUME ScanTypeOK, ScanKnows, ScanHeals, [ScanNext]_allVars
    PROVE  ScanKnows' /\ ScanHeals'
<1> USE DEF ScanKnows, ScanHeals, SeenNow, Agree
<1>1. CASE UNCHANGED allVars
  BY <1>1 DEF allVars, vars, scanVars, dbVars, diskVars
<1>2. CASE ScanOver
  BY <1>2 DEF ScanOver
<1>3. CASE ScanBegin
  BY <1>3 DEF ScanBegin, vars, diskVars, dbVars
<1>4. CASE ScanList
  BY <1>4 DEF ScanList, vars, diskVars, dbVars
<1>5. ASSUME NEW b \in Books, Walk(b)
      PROVE  ScanKnows' /\ ScanHeals'
  BY <1>5 DEF Walk, ScanTypeOK, vars, diskVars, dbVars
<1>6. ASSUME NEW b \in Books, ReconcileBook(b)
      PROVE  ScanKnows' /\ ScanHeals'
  <2>1. \A c \in Books \ {b} : bookSt'[c] = bookSt[c] /\ bookPath'[c] = bookPath[c]
    BY <1>6 DEF ReconcileBook, Write, ScanTypeOK, TypeOK
  <2>2. /\ UNCHANGED <<library, scanPc, unwalked, seen, listed, touched>>
        /\ scanPc = "writing" /\ b \in toWrite /\ toWrite' = toWrite \ {b}
    BY <1>6 DEF ReconcileBook, diskVars
  <2>3. ScanKnows'
    BY <2>1, <2>2 DEF ScanTypeOK
  <2>4. ASSUME FilesNamed, b \notin touched
        PROVE  Agree(b)'
    BY <1>6, <2>2, <2>4, ReconcileHeals
  <2>5. ScanHeals'
    <3> SUFFICES ASSUME FilesNamed, NEW c \in Books, c \notin toWrite', c \notin touched'
                 PROVE  Agree(c)'
      OBVIOUS
    <3> QED BY <2>1, <2>2, <2>4
  <2> QED BY <2>3, <2>5
<1>7. CASE PipelineAlone
  BY <1>7 DEF PipelineAlone, scanVars
<1>8. CASE PipelineBesideScan
  <2>1. scanPc # "off" /\ UNCHANGED <<scanPc, toWrite>>
    BY <1>8 DEF PipelineBesideScan
  <2> QED BY <1>8, <2>1, Untouched DEF ScanTypeOK
<1> QED BY <1>1, <1>2, <1>3, <1>4, <1>5, <1>6, <1>7, <1>8
        DEF ScanNext, ScanStep, ScanReturns, ScanFails, CrashDuringScan

-----------------------------------------------------------------------------
(* The theorems *)

(* A scan may run at any time: the pipeline's invariant holds, the scan    *)
(* knows what is there of every untouched book, and heals it.              *)
THEOREM ScanInvariant == ScanSpec => []ScanInv
<1>1. ScanInit => ScanInv
  <2> SUFFICES ASSUME ScanInit PROVE ScanInv
    OBVIOUS
  <2>1. IInv
    BY InitIInv DEF ScanInit
  <2>2. ScanTypeOK
    BY <2>1 DEF ScanInit, IInv, ScanTypeOK, NothingListed, BookRecord, BookStatus
  <2> QED BY <2>1, <2>2 DEF ScanInit, ScanInv, ScanKnows, ScanHeals
<1>2. ScanInv /\ [ScanNext]_allVars => ScanInv'
  BY ScanKeepsIInv, ScanTypeStep, ScanKnowsStep DEF ScanInv
<1> QED BY <1>1, <1>2, PTL DEF ScanSpec

(* An undisturbed book is right once the scan has written it, whatever     *)
(* state the pipeline, crashes or earlier scans had left it in.            *)
THEOREM Healing == ScanSpec => []ScanHeals
<1>1. ScanInv => ScanHeals
  BY DEF ScanInv
<1> QED BY <1>1, ScanInvariant, PTL

(* No scan, at whatever moment, gives a row a second owner, makes a stage  *)
(* uncancellable or turns a job into one of the other kind.                *)
THEOREM ScanIsHarmless == ScanSpec => [](SingleOwner /\ StageCancellable /\ KindKept)
<1>1. ScanInv => SingleOwner /\ StageCancellable /\ KindKept
  BY DEF ScanInv, IInv
<1> QED BY <1>1, ScanInvariant, PTL
=============================================================================
