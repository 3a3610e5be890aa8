---------------------------- MODULE PipelineFeed ----------------------------
(***************************************************************************)
(* The live view of the pipeline: the events that the stages emit, the     *)
(* three maps of cards that the events change, the channel of a subscriber *)
(* and the page that follows it.                                           *)
(*                                                                         *)
(* Source: internal/library/download.go and pipeline_stages.go,            *)
(* internal/library/convert.go, internal/web/server.go (handleSSE) and     *)
(* internal/web/templates/base.html.                                       *)
(*                                                                         *)
(* What the stages do to files and rows is in Pipeline and Files: here an  *)
(* item only moves through them.  emit is two steps, for another goroutine *)
(* can emit between its change of the maps and its send to the channel; a  *)
(* snapshot is two, for it lists the waiting rows before it reads the      *)
(* maps.  A card is the stage it shows: progress and speed are left out.   *)
(***************************************************************************)
EXTENDS Integers, Sequences, SequencesExt, FiniteSets

CONSTANTS
    Books,
    DownloadWorkers, DecryptWorkers, ProcessWorkers,
    Converters,   \* conversions that can be in progress
    QueueCap,     \* capacity of the channels between stages (100 in the code)
    FeedCap,      \* capacity of a subscriber's channel (32 in the code)
    Budget,       \* bound: how often each event may happen; "any": in all
    NoBook        \* placeholder

Workers  == DownloadWorkers \cup DecryptWorkers \cup ProcessWorkers
Emitters == Workers \cup Converters
Events   == {"queue", "fail", "cancel", "convert", "stop", "leave", "any"}

(* Each goroutine serves one stage: Start gives every stage its own.       *)
ASSUME FeedAssumption ==
    /\ NoBook \notin Books \cup Emitters
    /\ DownloadWorkers \cap DecryptWorkers = {}
    /\ (DownloadWorkers \cup DecryptWorkers) \cap ProcessWorkers = {}
    /\ Workers \cap Converters = {}
    /\ QueueCap \in Nat \ {0} /\ FeedCap \in Nat \ {0}
    /\ Budget \in [Events -> Nat]

VARIABLES
    \* the pipeline
    rows,      \* the live row of each book in download_queue
    decryptQueue, processQueue,
    job,       \* what each worker and conversion is at
    stopping,  \* whether StopAndWait has cancelled the workers' context
    \* the view
    activeByASIN, waitingDecrypt, waitingMoving,
    out,       \* the event each emitter has still to send to the channel
    \* a subscriber
    conn,      \* whether its page is connected
    feed,      \* its channel
    listed,    \* the waiting rows of the snapshot being made
    page,      \* the card of each book
    \* history and bounds
    skewed,    \* books whose last event did not come from who has the book
    budget

pipeline == <<rows, decryptQueue, processQueue, job, stopping>>
maps == <<activeByASIN, waitingDecrypt, waitingMoving>>
subscriber == <<conn, feed, listed, page>>
vars == <<pipeline, maps, out, subscriber, skewed, budget>>

Running == {"downloading", "decrypting", "moving", "transcoding", "finalizing", "converting"}
Waiting == {"waiting_decrypt", "waiting_moving"}
Final   == {"complete", "failed"}

Free    == [book |-> NoBook, at |-> "free", stage |-> "none"]
NoEvent == [book |-> NoBook, kind |-> "none"]
NoPoll  == {NoBook}

Spend(k) ==
    /\ budget[k] > 0 /\ budget["any"] > 0
    /\ budget' = [budget EXCEPT ![k] = @ - 1, !["any"] = @ - 1]

-----------------------------------------------------------------------------
(* Events *)

(* Who has book b: an item between two stages, taken or not, and those     *)
(* whose events its card should show.                                      *)
Queued(b, q, W, w) ==
    b \in ToSet(q) \/ \E v \in W \ {w} : job[v].book = b /\ job[v].at = "begin"
InHand(b, w) ==
    {v \in (Workers \cup Converters) \ {w} :
        job[v].book = b /\ job[v].at \in {"wait", "work", "hand", "end"}}
Telling(b) == \E v \in Workers : job[v].book = b /\ job[v].at = "tell"

(* Whether an event of emitter w says what is the case: a stage's own      *)
(* while nobody else has the book, a sender's while its item waits.        *)
Timely(w, b, kind) ==
    /\ InHand(b, w) = {}
    /\ CASE kind = "waiting_decrypt" -> Queued(b, decryptQueue, DecryptWorkers, w)
         [] kind = "waiting_moving"  -> \/ job[w].at = "begin"
                                        \/ Queued(b, processQueue, ProcessWorkers, w)
         [] OTHER -> /\ ~Queued(b, decryptQueue, DecryptWorkers, w)
                     /\ ~Queued(b, processQueue, ProcessWorkers, w)

(* The maps of cards.                                                      *)
MutPipelineState(b, kind) ==
    /\ activeByASIN' = [activeByASIN EXCEPT ![b] = IF kind \in Running THEN kind ELSE "none"]
    /\ waitingDecrypt' = CASE kind = "waiting_decrypt" -> waitingDecrypt \cup {b}
                           [] kind = "waiting_moving"  -> waitingDecrypt
                           [] OTHER -> waitingDecrypt \ {b}
    /\ waitingMoving'  = CASE kind = "waiting_moving" -> waitingMoving \cup {b}
                           [] kind \in Running -> waitingMoving \ {b}
                           [] OTHER -> waitingMoving
updatePipelineState(b, kind) ==
    /\ activeByASIN' = [activeByASIN EXCEPT ![b] = IF kind \in Running THEN kind ELSE "none"]
    /\ waitingDecrypt' = CASE kind = "waiting_decrypt" -> waitingDecrypt \cup {b}
                           [] kind = "waiting_moving"  -> waitingDecrypt
                           [] OTHER -> waitingDecrypt \ {b}
    /\ waitingMoving'  = CASE kind = "waiting_moving" -> waitingMoving \cup {b}
                           [] kind = "waiting_decrypt" -> waitingMoving
                           [] OTHER -> waitingMoving \ {b}

(* The first half of emit; Send is the second.                             *)
emit(w, b, kind) ==
    /\ out[w] = NoEvent
    /\ updatePipelineState(b, kind)
    /\ out' = [out EXCEPT ![w] = [book |-> b, kind |-> kind]]
    /\ skewed' = IF ~Timely(w, b, kind) THEN skewed \cup {b}
                 ELSE IF kind \in Waiting THEN skewed ELSE skewed \ {b}
    /\ UNCHANGED subscriber

Goes(w, at, kind) == job' = [job EXCEPT ![w].at = at, ![w].stage = kind]

(* A silent step of emitter w: it has no event to send.                    *)
Silent(w) == out[w] = NoEvent /\ UNCHANGED <<maps, out, subscriber>>

MutSend(w) ==
    /\ out[w] # NoEvent
    /\ feed' = IF conn /\ Len(feed) <= FeedCap THEN Append(feed, out[w]) ELSE feed
    /\ out' = [out EXCEPT ![w] = NoEvent]
    /\ job' = IF job[w].at = "done" THEN [job EXCEPT ![w] = Free] ELSE job
    /\ UNCHANGED <<rows, decryptQueue, processQueue, stopping, maps, conn, listed, page,
                   skewed, budget>>
(* A subscriber that is behind misses the event.                           *)
Send(w) ==
    /\ out[w] # NoEvent
    /\ feed' = IF conn /\ Len(feed) < FeedCap THEN Append(feed, out[w]) ELSE feed
    /\ out' = [out EXCEPT ![w] = NoEvent]
    /\ job' = IF job[w].at = "done" THEN [job EXCEPT ![w] = Free] ELSE job
    /\ UNCHANGED <<rows, decryptQueue, processQueue, stopping, maps, conn, listed, page,
                   skewed, budget>>

-----------------------------------------------------------------------------
(* The stages *)

(* A book with no live row is queued, for a download or a reorganization.  *)
QueueBook(b, st) ==
    /\ rows[b] = "none" /\ Spend("queue")
    /\ rows' = [rows EXCEPT ![b] = st]
    /\ UNCHANGED <<decryptQueue, processQueue, job, stopping, maps, out, subscriber, skewed>>

GetNextPendingDownload(w) ==
    /\ job[w] = Free /\ ~stopping /\ Silent(w)
    /\ \E b \in Books :
         /\ rows[b] \in {"pending", "reorganize"}
         /\ rows' = [rows EXCEPT ![b] = IF @ = "pending" THEN "active" ELSE "reorganizing"]
         /\ job' = [job EXCEPT ![w] = [book |-> b, at |-> "begin", stage |-> "none"]]
    /\ UNCHANGED <<decryptQueue, processQueue, stopping, skewed, budget>>

(* A reorganization says that it waits to be moved before it is sent.      *)
handleDownloadStage(w) ==
    LET b == job[w].book IN
    /\ job[w].at = "begin"
    /\ \/ rows[b] = "active" /\ emit(w, b, "downloading") /\ Goes(w, "work", "downloading")
       \/ rows[b] = "reorganizing" /\ emit(w, b, "waiting_moving") /\ Goes(w, "hand", "waiting_moving")
    /\ UNCHANGED <<rows, decryptQueue, processQueue, stopping, budget>>

decryptWorker(w) ==
    /\ job[w] = Free /\ decryptQueue # <<>> /\ Silent(w)
    /\ job' = [job EXCEPT ![w] = [book |-> Head(decryptQueue), at |-> "begin", stage |-> "none"]]
    /\ decryptQueue' = Tail(decryptQueue)
    /\ UNCHANGED <<rows, processQueue, stopping, skewed, budget>>
handleDecryptStage(w) ==
    /\ job[w].at = "begin"
    /\ emit(w, job[w].book, "decrypting") /\ Goes(w, "wait", "decrypting")
    /\ UNCHANGED <<rows, decryptQueue, processQueue, stopping, budget>>
EnrichDone(w) ==
    /\ job[w].at = "wait" /\ Silent(w)
    /\ job' = [job EXCEPT ![w].at = "work"]
    /\ UNCHANGED <<rows, decryptQueue, processQueue, stopping, skewed, budget>>

processWorker(w) ==
    /\ job[w] = Free /\ processQueue # <<>> /\ Silent(w)
    /\ job' = [job EXCEPT ![w] = [book |-> Head(processQueue), at |-> "begin", stage |-> "none"]]
    /\ processQueue' = Tail(processQueue)
    /\ UNCHANGED <<rows, decryptQueue, stopping, skewed, budget>>
handleProcessStage(w) ==
    /\ job[w].at = "begin"
    /\ emit(w, job[w].book, "moving") /\ Goes(w, "work", "moving")
    /\ UNCHANGED <<rows, decryptQueue, processQueue, stopping, budget>>

(* What a stage that works emits meanwhile.                                *)
NextStages == [downloading |-> {"downloading"}, decrypting |-> {"decrypting"},
               moving |-> {"moving", "transcoding", "finalizing"},
               transcoding |-> {"transcoding", "moving"}, finalizing |-> {},
               converting |-> {"converting"}]
Progress(w) ==
    /\ job[w].at = "work"
    /\ \E s \in NextStages[job[w].stage] : emit(w, job[w].book, s) /\ Goes(w, "work", s)
    /\ UNCHANGED <<rows, decryptQueue, processQueue, stopping, budget>>

(* A download or a decryption is through, and says so.                     *)
Through(w) ==
    /\ w \notin ProcessWorkers /\ job[w].at = "work"
    /\ emit(w, job[w].book, job[w].stage) /\ Goes(w, "hand", job[w].stage)
    /\ UNCHANGED <<rows, decryptQueue, processQueue, stopping, budget>>

(* The item is sent first, and the event that it waits comes after.        *)
SendToDecrypt(w) ==
    /\ job[w].at = "hand" /\ job[w].stage = "downloading" /\ Silent(w)
    /\ Len(decryptQueue) < QueueCap
    /\ decryptQueue' = Append(decryptQueue, job[w].book)
    /\ job' = [job EXCEPT ![w].at = "tell"]
    /\ UNCHANGED <<rows, processQueue, stopping, skewed, budget>>
SendToProcess(w) ==
    /\ job[w].at = "hand" /\ job[w].stage # "downloading" /\ Silent(w)
    /\ Len(processQueue) < QueueCap
    /\ processQueue' = Append(processQueue, job[w].book)
    /\ job' = IF job[w].stage = "decrypting" THEN [job EXCEPT ![w].at = "tell"]
              ELSE [job EXCEPT ![w] = Free]
    /\ UNCHANGED <<rows, decryptQueue, stopping, skewed, budget>>
TellWaiting(w) ==
    /\ job[w].at = "tell"
    /\ emit(w, job[w].book, IF w \in DownloadWorkers THEN "waiting_decrypt" ELSE "waiting_moving")
    /\ Goes(w, "done", "none")
    /\ UNCHANGED <<rows, decryptQueue, processQueue, stopping, budget>>

(* The row is complete before the event: the book can be queued between.   *)
MarkComplete(w) ==
    /\ job[w].at = "work" /\ Silent(w)
    /\ job' = [job EXCEPT ![w].at = "end"]
    /\ rows' = [rows EXCEPT ![job[w].book] = "none"]
    /\ UNCHANGED <<decryptQueue, processQueue, stopping, skewed, budget>>
EmitComplete(w) ==
    /\ job[w].at = "end"
    /\ emit(w, job[w].book, "complete") /\ Goes(w, "done", "none")
    /\ UNCHANGED <<rows, decryptQueue, processQueue, stopping, budget>>

(* Writes with a cancelled context fail: the row is still claimed.         *)
failItem(w) ==
    /\ job[w].at = "work" \/ (job[w].at = "begin" /\ w \in DownloadWorkers)
    /\ IF stopping THEN UNCHANGED <<rows, budget>>
       ELSE Spend("fail") /\ rows' = [rows EXCEPT ![job[w].book] = "none"]
    /\ emit(w, job[w].book, "failed")
    /\ Goes(w, "done", "none")
    /\ UNCHANGED <<decryptQueue, processQueue, stopping>>

(* A stage whose context ends while it waits for metadata, or to send its  *)
(* item, returns without a word.  A download's send ends only with the     *)
(* workers' context.                                                       *)
Abandon(w) ==
    /\ \/ w \in DecryptWorkers /\ job[w].at \in {"wait", "hand"}
       \/ w \in DownloadWorkers /\ job[w].at = "hand" /\ stopping
    /\ Silent(w)
    /\ IF stopping THEN UNCHANGED budget ELSE Spend("cancel")
    /\ job' = [job EXCEPT ![w] = Free]
    /\ skewed' = skewed \cup {job[w].book}
    /\ UNCHANGED <<rows, decryptQueue, processQueue, stopping>>

-----------------------------------------------------------------------------
(* Conversions, and a stop with a new start *)

ConvertBook(w, b) ==
    /\ job[w] = Free /\ out[w] = NoEvent
    /\ \A v \in Converters : job[v].book # b
    /\ Spend("convert")
    /\ emit(w, b, "converting")
    /\ job' = [job EXCEPT ![w] = [book |-> b, at |-> "work", stage |-> "converting"]]
    /\ UNCHANGED <<rows, decryptQueue, processQueue, stopping>>
EndConvert(w) ==
    /\ job[w].at = "work"
    /\ \E k \in Final : emit(w, job[w].book, k)
    /\ Goes(w, "done", "none")
    /\ UNCHANGED <<rows, decryptQueue, processQueue, stopping, budget>>

Stop ==
    /\ ~stopping /\ Spend("stop") /\ stopping' = TRUE
    /\ UNCHANGED <<rows, decryptQueue, processQueue, job, maps, out, subscriber, skewed>>

(* A factory reset or a failed restore starts the pipeline that it has     *)
(* stopped: the channels are new, the maps are not.  Rows claimed go back, *)
(* and after a reset there are none.                                       *)
Start ==
    /\ stopping /\ \A w \in Workers : job[w] = Free
    /\ stopping' = FALSE
    /\ decryptQueue' = <<>> /\ processQueue' = <<>>
    /\ skewed' = skewed \cup ToSet(decryptQueue) \cup ToSet(processQueue)
    /\ \/ rows' = [b \in Books |-> "none"]
       \/ rows' = [b \in Books |-> CASE rows[b] = "active" -> "pending"
                                     [] rows[b] = "reorganizing" -> "reorganize"
                                     [] OTHER -> rows[b]]
    /\ UNCHANGED <<job, maps, out, subscriber, budget>>

-----------------------------------------------------------------------------
(* The subscriber *)

(* The cards of a book in a snapshot, in the order the page goes through   *)
(* them; the card of a waiting row is not shown and removes one that is.   *)
Listed(b, pending) ==
    (IF activeByASIN[b] # "none" THEN <<activeByASIN[b]>> ELSE <<>>)
    \o (IF b \in pending THEN <<"queued">> ELSE <<>>)
    \o (IF b \in waitingDecrypt THEN <<"waiting_decrypt">> ELSE <<>>)
    \o (IF b \in waitingMoving THEN <<"waiting_moving">> ELSE <<>>)
Pending == {b \in Books : rows[b] = "pending"}

MutSnapshotItems(pending) ==
    page' = [b \in Books |-> LET cards == Listed(b, pending) IN
               IF cards = <<>> THEN page[b]
               ELSE IF Last(cards) = "queued" THEN "none" ELSE Last(cards)]
renderSnapshotItems(pending) ==
    page' = [b \in Books |-> LET cards == Listed(b, pending) IN
               IF cards = <<>> \/ Last(cards) = "queued" THEN "none" ELSE Last(cards)]

(* The page connects: it shows a snapshot, and subscribes.                 *)
Subscribe ==
    /\ ~conn /\ conn' = TRUE /\ feed' = <<>>
    /\ renderSnapshotItems(Pending)
    /\ UNCHANGED <<pipeline, maps, out, listed, skewed, budget>>
Unsubscribe ==
    /\ conn /\ Spend("leave")
    /\ conn' = FALSE /\ feed' = <<>> /\ listed' = NoPoll
    /\ UNCHANGED <<pipeline, maps, out, page, skewed>>

(* Every three seconds a snapshot, which reads the rows before the maps.   *)
ReadPending ==
    /\ conn /\ listed = NoPoll /\ listed' = Pending
    /\ UNCHANGED <<pipeline, maps, out, conn, feed, page, skewed, budget>>
PipelineSnapshot ==
    /\ conn /\ listed # NoPoll /\ listed' = NoPoll
    /\ renderSnapshotItems(listed)
    /\ UNCHANGED <<pipeline, maps, out, conn, feed, skewed, budget>>

(* An event from the channel, as the page takes it.                        *)
onPipelineEvent ==
    LET e == Head(feed) IN
    /\ conn /\ listed = NoPoll /\ feed # <<>>
    /\ feed' = Tail(feed)
    /\ page' = [page EXCEPT ![e.book] = IF e.kind \in Final THEN "none" ELSE e.kind]
    /\ UNCHANGED <<pipeline, maps, out, conn, listed, skewed, budget>>

-----------------------------------------------------------------------------
Init ==
    /\ rows = [b \in Books |-> "none"]
    /\ decryptQueue = <<>> /\ processQueue = <<>>
    /\ job = [w \in Workers \cup Converters |-> Free]
    /\ stopping = FALSE
    /\ activeByASIN = [b \in Books |-> "none"]
    /\ waitingDecrypt = {} /\ waitingMoving = {}
    /\ out = [w \in Emitters |-> NoEvent]
    /\ conn = TRUE /\ feed = <<>> /\ listed = NoPoll
    /\ page = [b \in Books |-> "none"]
    /\ skewed = {} /\ budget = Budget

Stages ==
    \/ \E w \in DownloadWorkers : GetNextPendingDownload(w) \/ handleDownloadStage(w)
    \/ \E w \in DecryptWorkers : decryptWorker(w) \/ handleDecryptStage(w) \/ EnrichDone(w)
    \/ \E w \in ProcessWorkers :
          processWorker(w) \/ handleProcessStage(w) \/ MarkComplete(w) \/ EmitComplete(w)
    \/ \E w \in Workers :
          \/ Progress(w) \/ Through(w) \/ SendToDecrypt(w) \/ SendToProcess(w) \/ TellWaiting(w)
          \/ failItem(w) \/ Abandon(w)
    \/ \E w \in Converters :
          (\E b \in Books : ConvertBook(w, b)) \/ Progress(w) \/ EndConvert(w)
    \/ \E w \in Emitters : Send(w)

Subscriber ==
    \/ Subscribe \/ Unsubscribe \/ ReadPending \/ PipelineSnapshot \/ onPipelineEvent

Next ==
    \/ Stages \/ Subscriber \/ Stop \/ Start
    \/ \E b \in Books, st \in {"pending", "reorganize"} : QueueBook(b, st)

(* handleSSE's select takes a ready tick and a ready event at random.      *)
Fairness == SF_vars(ReadPending) /\ WF_vars(PipelineSnapshot) /\ SF_vars(onPipelineEvent)

Spec == Init /\ [][Next]_vars /\ Fairness

-----------------------------------------------------------------------------
(* Properties *)

FeedEvent == [book : Books, kind : Running \cup Waiting \cup Final]

(* The view has a place for every card, and a subscriber's channel never   *)
(* more than it can take (download.go:508: the emitter never waits).       *)
FeedTypeOK ==
    /\ rows \in [Books -> {"none", "pending", "reorganize", "active", "reorganizing"}]
    /\ Len(decryptQueue) <= QueueCap /\ Len(processQueue) <= QueueCap
    /\ \A w \in DOMAIN job : job[w].book \in Books \cup {NoBook} /\ (job[w].at = "free" => job[w] = Free)
    /\ activeByASIN \in [Books -> Running \cup {"none"}]
    /\ waitingDecrypt \cup waitingMoving \cup skewed \subseteq Books
    /\ out \in [Emitters -> FeedEvent \cup {NoEvent}]
    /\ feed \in Seq(FeedEvent) /\ Len(feed) <= FeedCap
    /\ page \in [Books -> Running \cup Waiting \cup {"none"}]
    /\ listed = NoPoll \/ listed \subseteq Books

(* The cards tell where a book is (download.go:625): what works on it and  *)
(* what it last emitted, the queue it waits in, or no card at all.         *)
(* Exempt are the moments when a sender has still to say that its item     *)
(* waits, and the books whose last event came from one who no longer had   *)
(* them (pipeline_stages.go:282), until the next event of the one who has. *)
CardsTell ==
    \A b \in Books \ skewed :
       \/ Telling(b)
       \/ LET card == <<activeByASIN[b], b \in waitingDecrypt, b \in waitingMoving>> IN
          IF \E w \in InHand(b, NoBook) : job[w].stage # "waiting_moving"
          THEN \A w \in InHand(b, NoBook) : card = <<job[w].stage, FALSE, FALSE>>
          ELSE card = <<"none", Queued(b, decryptQueue, DecryptWorkers, NoBook),
                        \/ Queued(b, processQueue, ProcessWorkers, NoBook)
                        \/ InHand(b, NoBook) # {}>>

(* Whatever a page missed, for its channel was full, events overtook each  *)
(* other or a snapshot overtook them, once it stays connected and the      *)
(* pipeline has come to rest it shows for good what the snapshot has       *)
(* (server.go:3490, base.html:419).                                        *)
Agrees(b) ==
    LET cards == ToSet(Listed(b, Pending)) \ {"queued"} IN
    IF cards = {} THEN page[b] = "none"
    ELSE \/ page[b] \in cards
         \/ b \in Pending /\ page[b] = "none"
PageCatchesUp ==
    (<>[]conn /\ <>[][FALSE]_<<maps, rows>>) => <>[](\A b \in Books : Agrees(b))
=============================================================================
