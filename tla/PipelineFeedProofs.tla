------------------------- MODULE PipelineFeedProofs -------------------------
(***************************************************************************)
(* Proofs about the live view of the pipeline: FeedTypeOK and CardsTell    *)
(* hold for any number of books, workers and conversions, any capacity of  *)
(* the channels and any budget.                                            *)
(*                                                                         *)
(* Inv has three parts.  Types are the types, with what a worker of each   *)
(* stage can be at; Items says that a book is in one place of the pipeline *)
(* at most; Cards(b) is CardsTell for book b, with what the maps may show  *)
(* in the moments that CardsTell exempts.  One section says what a step    *)
(* must leave alone to keep the cards of a book, and one what each kind of *)
(* event does to them; then each step has a lemma of its own.              *)
(***************************************************************************)
EXTENDS PipelineFeed, SequenceTheorems, TLAPS

Rows == {"none", "pending", "reorganize", "active", "reorganizing"}
Busy == {"active", "reorganizing"}
Ats  == {"begin", "wait", "work", "hand", "tell", "end", "done"}
Job  == [book : Books, at : Ats, stage : Running \cup {"none", "waiting_moving"}]

(* What the emitter w can be at: each stage has steps of its own.          *)
Fits(w) ==
    /\ job[w] \in Job \cup {Free}
    /\ job[w].at \in {"wait", "work", "end"} => job[w].stage \in Running
    /\ job[w].at = "hand" => job[w].stage \in {"downloading", "decrypting", "waiting_moving"}
    /\ w \in DownloadWorkers =>
          /\ job[w].at \notin {"wait", "end"}
          /\ job[w].at = "work" => job[w].stage = "downloading"
    /\ w \in DecryptWorkers /\ job[w].at \in {"wait", "work", "hand"} =>
          job[w].stage = "decrypting"

(* The types, one part for each group of variables that steps leave alone  *)
(* together.                                                               *)
RowsOK   == rows \in [Books -> Rows]
QueuesOK ==
    /\ decryptQueue \in Seq(Books) /\ Len(decryptQueue) <= QueueCap
    /\ processQueue \in Seq(Books) /\ Len(processQueue) <= QueueCap
JobsOK   == DOMAIN job = Emitters /\ \A w \in Emitters : Fits(w)
MapsOK   ==
    /\ activeByASIN \in [Books -> Running \cup {"none"}]
    /\ waitingDecrypt \subseteq Books /\ waitingMoving \subseteq Books
OutOK    == out \in [Emitters -> FeedEvent \cup {NoEvent}] /\ skewed \subseteq Books
PageOK   ==
    /\ feed \in Seq(FeedEvent) /\ Len(feed) <= FeedCap
    /\ page \in [Books -> Running \cup Waiting \cup {"none"}]
    /\ listed = NoPoll \/ listed \subseteq Books
Types == RowsOK /\ QueuesOK /\ JobsOK /\ MapsOK /\ OutOK /\ PageOK

(* A worker that has an item, from the claim or the receive to the send or *)
(* the end.                                                                *)
Holds(w) == job[w].at \in {"begin", "wait", "work", "hand"}
Distinct(q) == \A i, j \in 1..Len(q) : q[i] = q[j] => i = j

(* A book has one item at most, in a queue or with a worker, and none that *)
(* its row does not say so.  CardsTell needs it: a sender that says late   *)
(* that its item waits is right only if there is no other item.            *)
Items ==
    /\ Distinct(decryptQueue) /\ Distinct(processQueue)
    /\ \A b \in Books : ~(b \in ToSet(decryptQueue) /\ b \in ToSet(processQueue))
    /\ \A b \in Books :
          b \in ToSet(decryptQueue) \/ b \in ToSet(processQueue) =>
             /\ rows[b] \in Busy
             /\ \A w \in Workers : Holds(w) => job[w].book # b
    /\ \A w \in Workers : Holds(w) => rows[job[w].book] \in Busy
    /\ \A v, w \in Workers : Holds(v) /\ Holds(w) /\ job[v].book = job[w].book => v = w

(* Emitter w has book b in hand; an item of b waits for a stage; a worker  *)
(* has sent one and not said so.                                           *)
Has(w, b) == job[w].book = b /\ job[w].at \in {"wait", "work", "hand", "end"}
Begins(w, b) == job[w].book = b /\ job[w].at = "begin"
QD(b) == b \in ToSet(decryptQueue) \/ \E v \in DecryptWorkers : Begins(v, b)
QP(b) == b \in ToSet(processQueue) \/ \E v \in ProcessWorkers : Begins(v, b)

Shows(b, s, d, m) ==
    activeByASIN[b] = s /\ (b \in waitingDecrypt <=> d) /\ (b \in waitingMoving <=> m)

(* What the maps show of a book whose last event came from who has it.     *)
(* While a sender has still to say that its item waits, they can lag: but  *)
(* they never show a queue that the book is not in.                        *)
AtRest(b) == \A w \in Emitters : Has(w, b) => job[w].stage = "waiting_moving"
Held(b)   == \E w \in Emitters : Has(w, b)
Alone(b)  == \A v, w \in Emitters : Has(v, b) /\ Has(w, b) => v = w
AtWork(b) == \A w \in Emitters :
    Has(w, b) /\ job[w].stage # "waiting_moving" =>
       Shows(b, job[w].stage, FALSE, FALSE) /\ ~QD(b) /\ ~QP(b)
Lags(b) == AtRest(b) =>
    /\ b \in waitingDecrypt => QD(b)
    /\ b \in waitingMoving => QP(b) \/ Held(b)
Told(b) == AtRest(b) /\ ~Telling(b) => Shows(b, "none", QD(b), QP(b) \/ Held(b))
Cards(b) == Alone(b) /\ AtWork(b) /\ Lags(b) /\ Told(b)

(* The inductive invariant.                                                *)
Inv == Types /\ Items /\ \A b \in Books \ skewed : Cards(b)

-----------------------------------------------------------------------------
(* Queues and jobs *)

(* A book sent to a queue.                                                 *)
LEMMA AppendQueue ==
    ASSUME NEW q \in Seq(Books), NEW b \in Books, NEW p, p = Append(q, b)
    PROVE  /\ p \in Seq(Books) /\ Len(p) = Len(q) + 1
           /\ \A c : c \in ToSet(p) <=> c \in ToSet(q) \/ c = b
           /\ Distinct(q) /\ b \notin ToSet(q) => Distinct(p)
<1>1. /\ p \in Seq(Books) /\ Len(p) = Len(q) + 1 /\ p[Len(q) + 1] = b
      /\ \A i \in 1..Len(q) : p[i] = q[i]
      /\ Len(q) \in Nat /\ DOMAIN q = 1..Len(q) /\ DOMAIN p = 1..Len(p)
  BY AppendProperties
<1>2. ASSUME NEW c PROVE c \in ToSet(p) <=> c \in ToSet(q) \/ c = b
  <2>1. c \in ToSet(p) <=> \E i \in 1..(Len(q) + 1) : p[i] = c
    BY <1>1 DEF ToSet
  <2>2. c \in ToSet(q) <=> \E i \in 1..Len(q) : q[i] = c
    BY <1>1 DEF ToSet
  <2>3. \A i \in 1..(Len(q) + 1) : i \in 1..Len(q) \/ i = Len(q) + 1
    BY <1>1
  <2>4. 1..Len(q) \subseteq 1..(Len(q) + 1) /\ Len(q) + 1 \in 1..(Len(q) + 1)
    BY <1>1
  <2> QED BY <1>1, <2>1, <2>2, <2>3, <2>4
<1>3. ASSUME Distinct(q), b \notin ToSet(q) PROVE Distinct(p)
  <2>1. \A i \in 1..Len(q) : q[i] # b
    BY <1>1, <1>3 DEF ToSet
  <2>2. \A i \in 1..Len(p) : i \in 1..Len(q) \/ i = Len(q) + 1
    BY <1>1
  <2> QED BY <1>1, <1>3, <2>1, <2>2 DEF Distinct
<1> QED BY <1>1, <1>2, <1>3

(* A book taken from a queue.                                              *)
LEMMA TailQueue ==
    ASSUME NEW q \in Seq(Books), q # <<>>, Distinct(q), NEW p, p = Tail(q)
    PROVE  /\ Head(q) \in Books /\ p \in Seq(Books) /\ Len(p) <= Len(q)
           /\ Head(q) \in ToSet(q) /\ Head(q) \notin ToSet(p) /\ Distinct(p)
           /\ \A c : c \in ToSet(q) <=> c \in ToSet(p) \/ c = Head(q)
<1>1. /\ Head(q) = q[1] /\ Head(q) \in Books /\ p \in Seq(Books) /\ Len(p) = Len(q) - 1
      /\ \A i \in 1..(Len(q) - 1) : p[i] = q[i + 1]
      /\ Len(q) \in Nat \ {0} /\ DOMAIN q = 1..Len(q) /\ DOMAIN p = 1..(Len(q) - 1)
  BY HeadTailProperties, LenProperties, EmptySeq
<1>2. Head(q) \in ToSet(q)
  BY <1>1 DEF ToSet
<1>3. \A i \in 1..(Len(q) - 1) : i + 1 \in 1..Len(q) /\ i + 1 # 1
  BY <1>1
<1>4. Head(q) \notin ToSet(p)
  BY <1>1, <1>3 DEF ToSet, Distinct
<1>5. Distinct(p)
  <2> SUFFICES ASSUME NEW i \in 1..(Len(q) - 1), NEW j \in 1..(Len(q) - 1), p[i] = p[j]
               PROVE  i = j
    BY <1>1 DEF Distinct
  <2>1. q[i + 1] = q[j + 1] /\ i + 1 \in 1..Len(q) /\ j + 1 \in 1..Len(q)
    BY <1>1, <1>3
  <2>2. i + 1 = j + 1
    BY <2>1 DEF Distinct
  <2> QED BY <1>1, <2>2
<1>6. ASSUME NEW c PROVE c \in ToSet(q) <=> c \in ToSet(p) \/ c = Head(q)
  <2>1. c \in ToSet(q) <=> \E i \in 1..Len(q) : q[i] = c
    BY <1>1 DEF ToSet
  <2>2. c \in ToSet(p) <=> \E i \in 1..(Len(q) - 1) : q[i + 1] = c
    BY <1>1 DEF ToSet
  <2>3. \A i \in 1..Len(q) : i = 1 \/ (i - 1 \in 1..(Len(q) - 1) /\ (i - 1) + 1 = i)
    BY <1>1
  <2> QED BY <1>1, <1>3, <2>1, <2>2, <2>3
<1> QED BY <1>1, <1>2, <1>4, <1>5, <1>6

(* An empty channel.                                                       *)
LEMMA NoQueue ==
    ASSUME NEW q, q = <<>>
    PROVE  q \in Seq(Books) /\ Len(q) = 0 /\ ToSet(q) = {} /\ Distinct(q)
BY DEF ToSet, Distinct

(* Emitter w goes on to what b, at and st say, and no other does.          *)
Becomes(w, b, at, st) ==
    /\ DOMAIN job' = Emitters
    /\ job'[w] = [book |-> b, at |-> at, stage |-> st]
    /\ \A v \in Emitters \ {w} : job'[v] = job[v]

(* The ways in which the steps write job.                                  *)
LEMMA GoesOn ==
    ASSUME JobsOK, NEW w \in Emitters, job[w] \in Job, NEW at, NEW st,
           \/ Goes(w, at, st)
           \/ job' = [job EXCEPT ![w].at = at] /\ st = job[w].stage
    PROVE  Becomes(w, job[w].book, at, st)
BY DEF JobsOK, Job, Goes, Becomes

(* The same for a record written whole.                                    *)
LEMMA TakesOn ==
    ASSUME JobsOK, NEW w \in Emitters, NEW b, NEW at, NEW st,
           job' = [job EXCEPT ![w] = [book |-> b, at |-> at, stage |-> st]]
    PROVE  Becomes(w, b, at, st)
BY DEF JobsOK, Becomes

(* An emitter that is at something has a book.                             *)
LEMMA HasBook ==
    ASSUME JobsOK, NEW w \in Emitters, job[w].at # "free"
    PROVE  job[w] \in Job /\ job[w].book \in Books /\ Fits(w)
BY DEF JobsOK, Fits, Free, Job

(* An emitter is in one pool.                                              *)
LEMMA Pools ==
    /\ \A w \in DownloadWorkers :
          w \notin DecryptWorkers \cup ProcessWorkers \cup Converters /\ w \in Workers
    /\ \A w \in DecryptWorkers :
          w \notin DownloadWorkers \cup ProcessWorkers \cup Converters /\ w \in Workers
    /\ \A w \in ProcessWorkers :
          w \notin DownloadWorkers \cup DecryptWorkers \cup Converters /\ w \in Workers
    /\ \A w \in Converters : w \notin Workers
    /\ \A w \in Workers : w \in DownloadWorkers \cup DecryptWorkers \cup ProcessWorkers
    /\ Emitters = Workers \cup Converters /\ NoBook \notin Emitters /\ NoBook \notin Books
BY FeedAssumption DEF Workers, Emitters

(* The types are the ones that the run checks.                             *)
LEMMA TypesImply == Types => FeedTypeOK
<1> SUFFICES ASSUME Types PROVE FeedTypeOK
  OBVIOUS
<1>1. \A w \in DOMAIN job : /\ job[w].book \in Books \cup {NoBook}
                            /\ job[w].at = "free" => job[w] = Free
  <2> SUFFICES ASSUME NEW w \in Emitters
               PROVE  /\ job[w].book \in Books \cup {NoBook}
                      /\ job[w].at = "free" => job[w] = Free
    BY DEF Types, JobsOK
  <2>1. job[w] \in Job \/ job[w] = Free
    BY DEF Types, JobsOK, Fits
  <2>2. CASE job[w] \in Job
    BY <2>2 DEF Job, Ats
  <2>3. CASE job[w] = Free
    BY <2>3 DEF Free
  <2> QED BY <2>1, <2>2, <2>3
<1>2. waitingDecrypt \cup waitingMoving \cup skewed \subseteq Books
  BY DEF Types, MapsOK, OutOK
<1> QED BY <1>1, <1>2 DEF Types, RowsOK, QueuesOK, MapsOK, OutOK, PageOK, FeedTypeOK, Rows

(* The card of a book, as CardsTell compares it.                           *)
LEMMA ShownAs ==
    ASSUME NEW b, NEW st, NEW d \in BOOLEAN, NEW m \in BOOLEAN, Shows(b, st, d, m)
    PROVE  <<activeByASIN[b], b \in waitingDecrypt, b \in waitingMoving>> = <<st, d, m>>
<1>1. activeByASIN[b] = st /\ (b \in waitingDecrypt) = d /\ (b \in waitingMoving) = m
  BY DEF Shows
<1> QED BY <1>1, Zenon

(* With the invariant, the cards tell.                                     *)
LEMMA CardsImply == Inv => CardsTell
<1> SUFFICES ASSUME Inv, NEW b \in Books \ skewed, ~Telling(b)
             PROVE  LET card == <<activeByASIN[b], b \in waitingDecrypt, b \in waitingMoving>> IN
                    IF \E w \in InHand(b, NoBook) : job[w].stage # "waiting_moving"
                    THEN \A w \in InHand(b, NoBook) : card = <<job[w].stage, FALSE, FALSE>>
                    ELSE card = <<"none", Queued(b, decryptQueue, DecryptWorkers, NoBook),
                                  \/ Queued(b, processQueue, ProcessWorkers, NoBook)
                                  \/ InHand(b, NoBook) # {}>>
  BY DEF CardsTell
<1>1. \A w : w \in InHand(b, NoBook) <=> w \in Emitters /\ Has(w, b)
  BY Pools DEF InHand, Has
<1>2. Queued(b, decryptQueue, DecryptWorkers, NoBook) <=> QD(b)
  BY Pools DEF Queued, QD, Begins
<1>3. Queued(b, processQueue, ProcessWorkers, NoBook) <=> QP(b)
  BY Pools DEF Queued, QP, Begins
<1>4. Cards(b)
  BY DEF Inv
<1>5. CASE \E w \in InHand(b, NoBook) : job[w].stage # "waiting_moving"
  <2> SUFFICES ASSUME NEW w \in InHand(b, NoBook)
               PROVE  <<activeByASIN[b], b \in waitingDecrypt, b \in waitingMoving>>
                        = <<job[w].stage, FALSE, FALSE>>
    BY <1>5
  <2>1. PICK v \in InHand(b, NoBook) : job[v].stage # "waiting_moving"
    BY <1>5
  <2>2. v = w
    BY <1>1, <1>4 DEF Cards, Alone
  <2>3. Shows(b, job[w].stage, FALSE, FALSE)
    BY <1>1, <1>4, <2>1, <2>2 DEF Cards, AtWork
  <2> QED BY <2>3, ShownAs
<1>6. CASE ~\E w \in InHand(b, NoBook) : job[w].stage # "waiting_moving"
  <2>1. AtRest(b)
    BY <1>1, <1>6 DEF AtRest
  <2>2. InHand(b, NoBook) # {} <=> Held(b)
    BY <1>1 DEF Held
  <2>3. Shows(b, "none", Queued(b, decryptQueue, DecryptWorkers, NoBook),
              Queued(b, processQueue, ProcessWorkers, NoBook) \/ InHand(b, NoBook) # {})
    BY <1>2, <1>3, <1>4, <2>1, <2>2 DEF Cards, Told, Shows
  <2>4. /\ Queued(b, decryptQueue, DecryptWorkers, NoBook) \in BOOLEAN
        /\ (Queued(b, processQueue, ProcessWorkers, NoBook) \/ InHand(b, NoBook) # {}) \in BOOLEAN
    BY DEF Queued
  <2>5. <<activeByASIN[b], b \in waitingDecrypt, b \in waitingMoving>>
          = <<"none", Queued(b, decryptQueue, DecryptWorkers, NoBook),
              Queued(b, processQueue, ProcessWorkers, NoBook) \/ InHand(b, NoBook) # {}>>
    BY <2>3, <2>4, ShownAs
  <2> QED BY <1>6, <2>5
<1> QED BY <1>5, <1>6

-----------------------------------------------------------------------------
(* What a step leaves alone *)

MapsKept(b) ==
    /\ activeByASIN'[b] = activeByASIN[b]
    /\ b \in waitingDecrypt' <=> b \in waitingDecrypt
    /\ b \in waitingMoving' <=> b \in waitingMoving
QueuesKept(b) ==
    /\ b \in ToSet(decryptQueue') <=> b \in ToSet(decryptQueue)
    /\ b \in ToSet(processQueue') <=> b \in ToSet(processQueue)

(* The cards of a book tell as before when the same emitters have it at    *)
(* the same stage, the same queues, and the maps show the same.            *)
LEMMA CardsSame ==
    ASSUME NEW b \in Books, Cards(b), MapsKept(b),
           \A w \in Emitters : /\ Has(w, b)' <=> Has(w, b)
                               /\ Has(w, b) => job'[w].stage = job[w].stage,
           QD(b)' <=> QD(b), QP(b)' <=> QP(b), Telling(b) => Telling(b)'
    PROVE  Cards(b)'
<1>1. Alone(b)'
  BY DEF Cards, Alone
<1>2. AtWork(b)'
  BY DEF Cards, AtWork, Shows, MapsKept
<1>3. (AtRest(b)' <=> AtRest(b)) /\ (Held(b)' <=> Held(b))
  BY DEF AtRest, Held
<1>4. Lags(b)'
  BY <1>3 DEF Cards, Lags, MapsKept
<1>5. Told(b)'
  BY <1>3 DEF Cards, Told, Shows, MapsKept
<1> QED BY <1>1, <1>2, <1>4, <1>5 DEF Cards

(* The books that the step of an emitter is not about.                     *)
LEMMA OtherCards ==
    ASSUME NEW w \in Emitters, NEW a, NEW at, NEW st, Becomes(w, a, at, st),
           NEW b \in Books, job[w].book # b, a # b, MapsKept(b), QueuesKept(b), Cards(b)
    PROVE  Cards(b)'
<1>1. \A v \in Emitters : job'[v] = job[v] \/ (job[v].book # b /\ job'[v].book # b)
  BY DEF Becomes
<1>2. /\ DecryptWorkers \subseteq Emitters /\ ProcessWorkers \subseteq Emitters
      /\ Workers \subseteq Emitters
  BY Pools
<1>3. \A v \in Emitters : /\ Has(v, b)' <=> Has(v, b)
                          /\ Has(v, b) => job'[v].stage = job[v].stage
  BY <1>1 DEF Has
<1>4. \A v \in Emitters : Begins(v, b)' <=> Begins(v, b)
  BY <1>1 DEF Begins
<1>5. (QD(b)' <=> QD(b)) /\ (QP(b)' <=> QP(b))
  BY <1>2, <1>4 DEF QD, QP, QueuesKept
<1>6. Telling(b) => Telling(b)'
  BY <1>1, <1>2 DEF Telling
<1> QED BY <1>3, <1>5, <1>6, CardsSame

(* Nobody gets an item, no queue changes, and a row whose item is gone may *)
(* be free.                                                                *)
LEMMA ItemsKept ==
    ASSUME Items, JobsOK, UNCHANGED <<decryptQueue, processQueue>>,
           \A v \in Workers : Holds(v)' => Holds(v) /\ job'[v].book = job[v].book,
           \A v \in Workers : job[v].at # "free" => job[v].book \in Books,
           \A b \in Books : rows[b] \in Busy =>
               \/ rows'[b] \in Busy
               \/ /\ b \notin ToSet(decryptQueue) /\ b \notin ToSet(processQueue)
                  /\ \A v \in Workers : Holds(v)' => job[v].book # b
    PROVE  Items'
<1>1. \A v \in Workers : Holds(v) => job[v].book \in Books
  BY DEF Holds
<1>2. \A v \in Workers : Holds(v)' => rows'[job'[v].book] \in Busy
  BY <1>1 DEF Items
<1>3. \A b \in Books :
         b \in ToSet(decryptQueue') \/ b \in ToSet(processQueue') =>
            /\ rows'[b] \in Busy
            /\ \A v \in Workers : Holds(v)' => job'[v].book # b
  BY DEF Items
<1>4. \A v, w \in Workers : Holds(v)' /\ Holds(w)' /\ job'[v].book = job'[w].book => v = w
  BY DEF Items
<1> QED BY <1>2, <1>3, <1>4 DEF Items

(* The types of the jobs, for a step of emitter w.                         *)
LEMMA JobsStep ==
    ASSUME JobsOK, NEW w \in Emitters, NEW a, NEW at, NEW st, Becomes(w, a, at, st), Fits(w)'
    PROVE  JobsOK'
<1>1. \A v \in Emitters \ {w} : Fits(v)'
  BY DEF JobsOK, Fits, Becomes
<1> QED BY <1>1 DEF JobsOK, Becomes

-----------------------------------------------------------------------------
(* What an event does *)

Kinds == Running \cup Waiting \cup Final

(* The first half of emit: the maps at the book, and whether the event     *)
(* came from who has it.                                                   *)
LEMMA Emitted ==
    ASSUME MapsOK, OutOK, NEW w \in Emitters, NEW b \in Books, NEW kind \in Kinds,
           emit(w, b, kind)
    PROVE  /\ MapsOK' /\ OutOK'
           /\ activeByASIN'[b] = IF kind \in Running THEN kind ELSE "none"
           /\ b \in waitingDecrypt' <=> \/ kind = "waiting_decrypt"
                                        \/ kind = "waiting_moving" /\ b \in waitingDecrypt
           /\ b \in waitingMoving' <=> \/ kind = "waiting_moving"
                                       \/ kind = "waiting_decrypt" /\ b \in waitingMoving
           /\ \A c \in Books \ {b} : MapsKept(c) /\ (c \in skewed' <=> c \in skewed)
           /\ b \notin skewed' =>
                 Timely(w, b, kind) /\ (kind \in Waiting => b \notin skewed)
           /\ UNCHANGED subscriber
<1>1. /\ activeByASIN' = [activeByASIN EXCEPT ![b] = IF kind \in Running THEN kind ELSE "none"]
      /\ kind = "waiting_decrypt" =>
            waitingDecrypt' = waitingDecrypt \cup {b} /\ waitingMoving' = waitingMoving
      /\ kind = "waiting_moving" =>
            waitingDecrypt' = waitingDecrypt /\ waitingMoving' = waitingMoving \cup {b}
      /\ kind \notin {"waiting_decrypt", "waiting_moving"} =>
            waitingDecrypt' = waitingDecrypt \ {b} /\ waitingMoving' = waitingMoving \ {b}
  BY DEF emit, updatePipelineState
<1>2. /\ out' = [out EXCEPT ![w] = [book |-> b, kind |-> kind]]
      /\ skewed' = IF ~Timely(w, b, kind) THEN skewed \cup {b}
                   ELSE IF kind \in Waiting THEN skewed ELSE skewed \ {b}
      /\ UNCHANGED subscriber
  BY DEF emit
<1>3. /\ activeByASIN'[b] = IF kind \in Running THEN kind ELSE "none"
      /\ \A c \in Books \ {b} : activeByASIN'[c] = activeByASIN[c]
      /\ activeByASIN' \in [Books -> Running \cup {"none"}]
  BY <1>1 DEF MapsOK
<1>4. /\ b \in waitingDecrypt' <=> \/ kind = "waiting_decrypt"
                                   \/ kind = "waiting_moving" /\ b \in waitingDecrypt
      /\ b \in waitingMoving' <=> \/ kind = "waiting_moving"
                                  \/ kind = "waiting_decrypt" /\ b \in waitingMoving
      /\ \A c \in Books \ {b} : /\ c \in waitingDecrypt' <=> c \in waitingDecrypt
                                /\ c \in waitingMoving' <=> c \in waitingMoving
      /\ waitingDecrypt' \subseteq Books /\ waitingMoving' \subseteq Books
  BY <1>1 DEF MapsOK
<1>5. [book |-> b, kind |-> kind] \in FeedEvent
  BY DEF FeedEvent, Kinds
<1>6. skewed' \subseteq Books /\ \A c \in Books \ {b} : c \in skewed' <=> c \in skewed
  BY <1>2 DEF OutOK
<1>7. b \notin skewed' => Timely(w, b, kind) /\ (kind \in Waiting => b \notin skewed)
  BY <1>2
<1>8. OutOK'
  BY <1>2, <1>5, <1>6 DEF OutOK
<1> QED BY <1>2, <1>3, <1>4, <1>6, <1>7, <1>8 DEF MapsOK, MapsKept

(* Who else has a book when the event of w is timely.                      *)
LEMMA TimelyFacts ==
    ASSUME NEW w \in Emitters, NEW b \in Books, NEW kind, Timely(w, b, kind)
    PROVE  /\ \A v \in Emitters \ {w} : ~Has(v, b)
           /\ kind = "waiting_decrypt" =>
                 \/ b \in ToSet(decryptQueue)
                 \/ \E v \in DecryptWorkers \ {w} : Begins(v, b)
           /\ kind = "waiting_moving" =>
                 \/ job[w].at = "begin"
                 \/ b \in ToSet(processQueue)
                 \/ \E v \in ProcessWorkers \ {w} : Begins(v, b)
           /\ kind \notin Waiting =>
                 /\ b \notin ToSet(decryptQueue) /\ b \notin ToSet(processQueue)
                 /\ \A v \in (DecryptWorkers \cup ProcessWorkers) \ {w} : ~Begins(v, b)
<1>1. \A v \in Emitters \ {w} : ~Has(v, b)
  BY Pools DEF Timely, InHand, Has
<1>2. kind = "waiting_decrypt" => Queued(b, decryptQueue, DecryptWorkers, w)
  BY DEF Timely
<1>3. kind = "waiting_moving" => job[w].at = "begin" \/ Queued(b, processQueue, ProcessWorkers, w)
  BY DEF Timely
<1>4. kind \notin Waiting => /\ ~Queued(b, decryptQueue, DecryptWorkers, w)
                             /\ ~Queued(b, processQueue, ProcessWorkers, w)
  BY DEF Timely, Waiting
<1> QED BY <1>1, <1>2, <1>3, <1>4 DEF Queued, Begins

(* What the queues and workers are for the book when emitter w goes on to  *)
(* something that is not a begin.                                          *)
LEMMA QueuedAfter ==
    ASSUME NEW w \in Emitters, NEW b \in Books, NEW at, NEW st, Becomes(w, b, at, st),
           at # "begin", QueuesKept(b)
    PROVE  /\ QD(b)' <=> \/ b \in ToSet(decryptQueue)
                         \/ \E v \in DecryptWorkers \ {w} : Begins(v, b)
           /\ QP(b)' <=> \/ b \in ToSet(processQueue)
                         \/ \E v \in ProcessWorkers \ {w} : Begins(v, b)
<1>1. DecryptWorkers \subseteq Emitters /\ ProcessWorkers \subseteq Emitters
  BY Pools
<1>2. ~Begins(w, b)' /\ \A v \in Emitters \ {w} : Begins(v, b)' <=> Begins(v, b)
  BY DEF Becomes, Begins
<1> QED BY <1>1, <1>2 DEF QD, QP, QueuesKept

(* After the event of a stage that goes on, the card is that stage's.      *)
LEMMA RunningCards ==
    ASSUME NEW w \in Emitters, NEW b \in Books, NEW kind \in Running, NEW at,
           at \in {"wait", "work", "hand"}, Becomes(w, b, at, kind), QueuesKept(b),
           Timely(w, b, kind), activeByASIN'[b] = kind,
           b \notin waitingDecrypt', b \notin waitingMoving'
    PROVE  Cards(b)'
<1>1. kind \notin Waiting /\ kind # "waiting_moving"
  BY DEF Running, Waiting
<1>2. \A v \in Emitters : Has(v, b)' <=> v = w
  BY TimelyFacts DEF Becomes, Has
<1>3. ~QD(b)' /\ ~QP(b)'
  BY <1>1, TimelyFacts, QueuedAfter
<1>4. job'[w].stage = kind
  BY DEF Becomes
<1>5. Alone(b)'
  BY <1>2 DEF Alone
<1>6. AtWork(b)'
  BY <1>2, <1>3, <1>4 DEF AtWork, Shows
<1>7. ~AtRest(b)'
  BY <1>1, <1>2, <1>4 DEF AtRest
<1> QED BY <1>5, <1>6, <1>7 DEF Cards, Lags, Told

(* After the last event of a stage or a conversion there is no card.       *)
LEMMA FinalCards ==
    ASSUME NEW w \in Emitters, NEW b \in Books, NEW kind \in Final,
           Becomes(w, b, "done", "none"), QueuesKept(b),
           Timely(w, b, kind), activeByASIN'[b] = "none",
           b \notin waitingDecrypt', b \notin waitingMoving'
    PROVE  Cards(b)'
<1>1. kind \notin Waiting
  BY DEF Final, Waiting
<1>2. \A v \in Emitters : ~Has(v, b)'
  BY TimelyFacts DEF Becomes, Has
<1>3. ~QD(b)' /\ ~QP(b)'
  BY <1>1, TimelyFacts, QueuedAfter
<1>4. Alone(b)' /\ AtWork(b)' /\ ~Held(b)'
  BY <1>2 DEF Alone, AtWork, Held
<1> QED BY <1>3, <1>4 DEF Cards, Lags, Told, Shows

(* An item of the book is in one place.                                    *)
LEMMA OnePlace ==
    ASSUME Items, NEW b \in Books
    PROVE  /\ QD(b) => ~QP(b)
           /\ \A w \in Workers : Holds(w) /\ job[w].book = b =>
                 /\ b \notin ToSet(decryptQueue) /\ b \notin ToSet(processQueue)
                 /\ \A v \in Workers \ {w} : ~Begins(v, b)
<1>1. \A v \in Workers : Begins(v, b) => Holds(v) /\ job[v].book = b
  BY DEF Begins, Holds
<1>2. \A v \in DecryptWorkers : v \in Workers /\ v \notin ProcessWorkers
  BY Pools
<1>3. \A v \in ProcessWorkers : v \in Workers
  BY Pools
<1> QED BY <1>1, <1>2, <1>3 DEF Items, QD, QP

(* A sender that says that its item waits, and is right.                   *)
LEMMA ToldCards ==
    ASSUME Items, NEW w \in Workers, NEW b \in Books, Cards(b), job[w].at = "tell",
           NEW kind, Timely(w, b, kind),
           Becomes(w, b, "done", "none"), QueuesKept(b), activeByASIN'[b] = "none",
           \/ /\ kind = "waiting_decrypt" /\ b \in waitingDecrypt'
              /\ b \in waitingMoving' <=> b \in waitingMoving
           \/ /\ kind = "waiting_moving" /\ b \in waitingMoving'
              /\ b \in waitingDecrypt' <=> b \in waitingDecrypt
    PROVE  Cards(b)'
<1>0. w \in Emitters
  BY Pools
<1>1. \A v \in Emitters : ~Has(v, b)' /\ ~Has(v, b)
  BY <1>0, TimelyFacts DEF Becomes, Has
<1>2. ~Begins(w, b)
  BY DEF Begins
<1>3. (QD(b)' <=> QD(b)) /\ (QP(b)' <=> QP(b))
  BY <1>0, <1>2, QueuedAfter DEF QD, QP
<1>4. /\ kind = "waiting_decrypt" => QD(b)
      /\ kind = "waiting_moving" => QP(b)
  BY <1>0, TimelyFacts DEF QD, QP
<1>5. ~Held(b) /\ AtRest(b) /\ ~Held(b)' /\ Alone(b)' /\ AtWork(b)'
  BY <1>1 DEF Alone, AtWork, Held, AtRest
<1>6. /\ b \in waitingDecrypt => QD(b)
      /\ b \in waitingMoving => QP(b)
  BY <1>5 DEF Cards, Lags
<1>7. QD(b) => ~QP(b)
  BY OnePlace
<1>8. /\ b \in waitingDecrypt' <=> QD(b)'
      /\ b \in waitingMoving' <=> QP(b)'
  BY <1>3, <1>4, <1>6, <1>7
<1> QED BY <1>5, <1>8 DEF Cards, Lags, Told, Shows

(* A reorganization says that it waits, and goes on to send its item.      *)
LEMMA HandsCards ==
    ASSUME Items, NEW w \in DownloadWorkers, NEW b \in Books, Cards(b),
           job[w].at = "begin", job[w].book = b, Timely(w, b, "waiting_moving"),
           Becomes(w, b, "hand", "waiting_moving"), QueuesKept(b), activeByASIN'[b] = "none",
           b \in waitingMoving', b \in waitingDecrypt' <=> b \in waitingDecrypt
    PROVE  Cards(b)'
<1>0. w \in Emitters /\ w \in Workers /\ w \notin DecryptWorkers /\ w \notin ProcessWorkers
      /\ DecryptWorkers \subseteq Workers /\ ProcessWorkers \subseteq Workers
  BY Pools
<1>1. \A v \in Emitters : ~Has(v, b)
  BY <1>0, TimelyFacts DEF Has
<1>2. \A v \in Emitters : Has(v, b)' <=> v = w
  BY <1>0, TimelyFacts DEF Becomes, Has
<1>3. ~QD(b) /\ ~QP(b)
  BY <1>0, OnePlace DEF Holds, QD, QP
<1>4. ~QD(b)' /\ ~QP(b)'
  BY <1>0, <1>3, QueuedAfter DEF QD, QP
<1>5. AtRest(b) /\ ~Held(b)
  BY <1>1 DEF AtRest, Held
<1>6. b \notin waitingDecrypt'
  BY <1>3, <1>5 DEF Cards, Lags
<1>7. job'[w].stage = "waiting_moving"
  BY DEF Becomes
<1>8. Alone(b)' /\ AtWork(b)' /\ Held(b)'
  BY <1>0, <1>2, <1>7 DEF Alone, AtWork, Held
<1> QED BY <1>4, <1>6, <1>8 DEF Cards, Lags, Told, Shows

(* A step of emitter w that emits an event for book b and goes on to at,   *)
(* at stage st.  It keeps the item it has, or gives it up; only then it    *)
(* may free the row.                                                       *)
LEMMA EmitStep ==
    ASSUME Inv, NEW w \in Emitters, NEW b \in Books, NEW kind, NEW at, NEW st,
           emit(w, b, kind), Becomes(w, b, at, st), Fits(w)',
           UNCHANGED <<decryptQueue, processQueue>>,
           job[w].book = b \/ job[w] = Free,
           w \in Workers /\ at \in {"begin", "wait", "work", "hand"} => Holds(w),
           \/ rows' = rows
           \/ rows' = [rows EXCEPT ![b] = "none"] /\ Holds(w) /\ w \in Workers /\ at = "done",
           \/ kind \in Running /\ at \in {"wait", "work", "hand"} /\ st = kind
           \/ kind \in Final /\ at = "done" /\ st = "none"
           \/ /\ kind \in Waiting /\ w \in Workers
              /\ job[w].at = "tell" /\ at = "done" /\ st = "none"
           \/ /\ kind = "waiting_moving" /\ w \in DownloadWorkers
              /\ job[w].at = "begin" /\ at = "hand" /\ st = "waiting_moving"
    PROVE  Inv'
<1>0. kind \in Kinds
  BY DEF Kinds, Waiting
<1>1. /\ MapsOK' /\ OutOK'
      /\ activeByASIN'[b] = IF kind \in Running THEN kind ELSE "none"
      /\ b \in waitingDecrypt' <=> \/ kind = "waiting_decrypt"
                                   \/ kind = "waiting_moving" /\ b \in waitingDecrypt
      /\ b \in waitingMoving' <=> \/ kind = "waiting_moving"
                                  \/ kind = "waiting_decrypt" /\ b \in waitingMoving
      /\ \A c \in Books \ {b} : MapsKept(c) /\ (c \in skewed' <=> c \in skewed)
      /\ b \notin skewed' => Timely(w, b, kind) /\ (kind \in Waiting => b \notin skewed)
      /\ UNCHANGED subscriber
  BY <1>0, Emitted DEF Inv, Types
<1>2. Types'
  <2>1. RowsOK'
    BY DEF Inv, Types, RowsOK, Rows
  <2>2. JobsOK'
    BY JobsStep DEF Inv, Types
  <2>3. QueuesOK' /\ PageOK'
    BY <1>1 DEF Inv, Types, QueuesOK, PageOK, subscriber
  <2> QED BY <1>1, <2>1, <2>2, <2>3 DEF Types
<1>3. \A v \in Workers : Holds(v)' => Holds(v) /\ job'[v].book = job[v].book
  <2> SUFFICES ASSUME NEW v \in Workers, Holds(v)'
               PROVE  Holds(v) /\ job'[v].book = job[v].book
    OBVIOUS
  <2>1. v \in Emitters
    BY Pools
  <2>2. CASE v # w
    BY <2>1, <2>2 DEF Becomes, Holds
  <2>3. CASE v = w
    BY <2>3 DEF Becomes, Holds, Free
  <2> QED BY <2>2, <2>3
<1>4. Items'
  <2>1. \A v \in Workers : job[v].at # "free" => job[v].book \in Books
    BY Pools, HasBook DEF Inv, Types
  <2>2. ASSUME NEW c \in Books, rows[c] \in Busy
        PROVE  \/ rows'[c] \in Busy
               \/ /\ c \notin ToSet(decryptQueue) /\ c \notin ToSet(processQueue)
                  /\ \A v \in Workers : Holds(v)' => job[v].book # c
    <3>1. CASE rows' = rows \/ c # b
      BY <2>2, <3>1 DEF Inv, Types, RowsOK
    <3>2. CASE c = b /\ Holds(w) /\ w \in Workers /\ at = "done"
      <4>1. job[w].book = b
        BY <3>2 DEF Holds, Free
      <4>2. ~Holds(w)'
        BY <3>2 DEF Becomes, Holds
      <4>3. \A v \in Workers : Holds(v)' => job[v].book # b
        BY <1>3, <3>2, <4>1, <4>2 DEF Inv, Items
      <4>4. b \notin ToSet(decryptQueue) /\ b \notin ToSet(processQueue)
        BY <3>2, <4>1 DEF Inv, Items
      <4> QED BY <3>2, <4>3, <4>4
    <3> QED BY <3>1, <3>2
  <2> QED BY <1>3, <2>1, <2>2, ItemsKept DEF Inv, Types
<1>5. \A c \in Books : QueuesKept(c)
  BY DEF QueuesKept
<1>6. ASSUME NEW c \in Books \ {b}, c \notin skewed'
      PROVE  Cards(c)'
  <2>1. Cards(c)
    BY <1>1, <1>6 DEF Inv
  <2>2. job[w].book # c
    BY Pools DEF Free
  <2> QED BY <1>1, <1>5, <2>1, <2>2, OtherCards
<1>7. ASSUME b \notin skewed'
      PROVE  Cards(b)'
  <2>1. Timely(w, b, kind) /\ (kind \in Waiting => b \notin skewed)
    BY <1>1, <1>7
  <2>2. CASE kind \in Running /\ at \in {"wait", "work", "hand"} /\ st = kind
    <3>1. b \notin waitingDecrypt' /\ b \notin waitingMoving' /\ activeByASIN'[b] = kind
      BY <1>1, <2>2 DEF Running
    <3> QED BY <1>5, <2>1, <2>2, <3>1, RunningCards
  <2>3. CASE kind \in Final /\ at = "done" /\ st = "none"
    <3>1. b \notin waitingDecrypt' /\ b \notin waitingMoving' /\ activeByASIN'[b] = "none"
      BY <1>1, <2>3 DEF Running, Final
    <3> QED BY <1>5, <2>1, <2>3, <3>1, FinalCards
  <2>4. CASE kind \in Waiting /\ w \in Workers /\ job[w].at = "tell" /\ at = "done" /\ st = "none"
    <3>1. Cards(b) /\ activeByASIN'[b] = "none"
      BY <1>1, <2>1, <2>4 DEF Inv, Running, Waiting
    <3>2. \/ /\ kind = "waiting_decrypt" /\ b \in waitingDecrypt'
             /\ b \in waitingMoving' <=> b \in waitingMoving
          \/ /\ kind = "waiting_moving" /\ b \in waitingMoving'
             /\ b \in waitingDecrypt' <=> b \in waitingDecrypt
      BY <1>1, <2>4 DEF Waiting
    <3> QED BY <1>5, <2>1, <2>4, <3>1, <3>2, ToldCards DEF Inv
  <2>5. CASE kind = "waiting_moving" /\ w \in DownloadWorkers
             /\ job[w].at = "begin" /\ at = "hand" /\ st = "waiting_moving"
    <3>1. Cards(b) /\ activeByASIN'[b] = "none"
      BY <1>1, <2>1, <2>5 DEF Inv, Running, Waiting
    <3>2. b \in waitingMoving' /\ (b \in waitingDecrypt' <=> b \in waitingDecrypt)
      BY <1>1, <2>5
    <3>3. job[w].book = b
      BY <2>5 DEF Free
    <3> QED BY <1>5, <2>1, <2>5, <3>1, <3>2, <3>3, HandsCards DEF Inv
  <2> QED BY <2>2, <2>3, <2>4, <2>5
<1> QED BY <1>2, <1>4, <1>6, <1>7 DEF Inv

-----------------------------------------------------------------------------
(* The steps that emit *)

(* A job in the state that a step leaves it in fits its worker.            *)
LEMMA FitsAfter ==
    ASSUME NEW w \in Emitters, NEW b \in Books, NEW at \in Ats,
           NEW st \in Running \cup {"none", "waiting_moving"}, Becomes(w, b, at, st),
           at \in {"wait", "work", "end"} => st \in Running,
           at = "hand" => st \in {"downloading", "decrypting", "waiting_moving"},
           w \in DownloadWorkers => /\ at \notin {"wait", "end"}
                                    /\ at = "work" => st = "downloading",
           w \in DecryptWorkers /\ at \in {"wait", "work", "hand"} => st = "decrypting"
    PROVE  Fits(w)'
<1>1. job'[w] = [book |-> b, at |-> at, stage |-> st] /\ job'[w] \in Job
  BY DEF Becomes, Job
<1> QED BY <1>1 DEF Fits

(* A claimed book is downloaded, or says that it waits to be moved.        *)
LEMMA StepHandleDownloadStage ==
    ASSUME Inv, NEW w \in DownloadWorkers, handleDownloadStage(w) PROVE Inv'
<1>0. w \in Emitters /\ w \in Workers /\ w \notin DecryptWorkers
  BY Pools
<1>1. job[w].at = "begin" /\ UNCHANGED <<rows, decryptQueue, processQueue>>
  BY DEF handleDownloadStage
<1>2. job[w] \in Job /\ job[w].book \in Books /\ JobsOK /\ Holds(w)
  BY <1>0, <1>1, HasBook DEF Inv, Types, Holds
<1>3. CASE emit(w, job[w].book, "downloading") /\ Goes(w, "work", "downloading")
  <2>1. Becomes(w, job[w].book, "work", "downloading")
    BY <1>0, <1>2, <1>3, GoesOn
  <2>2. Fits(w)'
    BY <1>0, <1>2, <2>1, FitsAfter DEF Ats, Running
  <2> QED BY <1>0, <1>1, <1>2, <1>3, <2>1, <2>2, EmitStep DEF Running
<1>4. CASE emit(w, job[w].book, "waiting_moving") /\ Goes(w, "hand", "waiting_moving")
  <2>1. Becomes(w, job[w].book, "hand", "waiting_moving")
    BY <1>0, <1>2, <1>4, GoesOn
  <2>2. Fits(w)'
    BY <1>0, <1>2, <2>1, FitsAfter DEF Ats
  <2> QED BY <1>0, <1>1, <1>2, <1>4, <2>1, <2>2, EmitStep
<1> QED BY <1>3, <1>4 DEF handleDownloadStage

(* A decryption begins and says so.                                        *)
LEMMA StepHandleDecryptStage ==
    ASSUME Inv, NEW w \in DecryptWorkers, handleDecryptStage(w) PROVE Inv'
<1>0. w \in Emitters /\ w \in Workers /\ w \notin DownloadWorkers
  BY Pools
<1>1. job[w].at = "begin" /\ UNCHANGED <<rows, decryptQueue, processQueue>>
      /\ emit(w, job[w].book, "decrypting") /\ Goes(w, "wait", "decrypting")
  BY DEF handleDecryptStage
<1>2. job[w] \in Job /\ job[w].book \in Books /\ JobsOK /\ Holds(w)
  BY <1>0, <1>1, HasBook DEF Inv, Types, Holds
<1>3. Becomes(w, job[w].book, "wait", "decrypting")
  BY <1>0, <1>1, <1>2, GoesOn
<1>4. Fits(w)'
  BY <1>0, <1>2, <1>3, FitsAfter DEF Ats, Running
<1> QED BY <1>0, <1>1, <1>2, <1>3, <1>4, EmitStep DEF Running

(* A move begins and says so.                                              *)
LEMMA StepHandleProcessStage ==
    ASSUME Inv, NEW w \in ProcessWorkers, handleProcessStage(w) PROVE Inv'
<1>0. w \in Emitters /\ w \in Workers /\ w \notin DownloadWorkers /\ w \notin DecryptWorkers
  BY Pools
<1>1. job[w].at = "begin" /\ UNCHANGED <<rows, decryptQueue, processQueue>>
      /\ emit(w, job[w].book, "moving") /\ Goes(w, "work", "moving")
  BY DEF handleProcessStage
<1>2. job[w] \in Job /\ job[w].book \in Books /\ JobsOK /\ Holds(w)
  BY <1>0, <1>1, HasBook DEF Inv, Types, Holds
<1>3. Becomes(w, job[w].book, "work", "moving")
  BY <1>0, <1>1, <1>2, GoesOn
<1>4. Fits(w)'
  BY <1>0, <1>2, <1>3, FitsAfter DEF Ats, Running
<1> QED BY <1>0, <1>1, <1>2, <1>3, <1>4, EmitStep DEF Running

(* A stage that works emits the next of its own stages.                    *)
LEMMA StepProgress ==
    ASSUME Inv, NEW w \in Emitters, Progress(w) PROVE Inv'
<1>1. job[w].at = "work" /\ UNCHANGED <<rows, decryptQueue, processQueue>>
  BY DEF Progress
<1>2. PICK s \in NextStages[job[w].stage] : emit(w, job[w].book, s) /\ Goes(w, "work", s)
  BY DEF Progress
<1>3. job[w] \in Job /\ job[w].book \in Books /\ JobsOK /\ Holds(w) /\ Fits(w)
  BY <1>1, HasBook DEF Inv, Types, Holds
<1>4. job[w].stage \in Running
  BY <1>1, <1>3 DEF Fits
<1>5. s \in Running /\ (job[w].stage = "downloading" => s = "downloading")
      /\ (job[w].stage = "decrypting" => s = "decrypting")
  BY <1>2, <1>4 DEF NextStages, Running
<1>6. Becomes(w, job[w].book, "work", s)
  BY <1>2, <1>3, GoesOn
<1>7. Fits(w)'
  <2>1. w \in DownloadWorkers => s = "downloading"
    BY <1>1, <1>3, <1>5 DEF Fits
  <2>2. w \in DecryptWorkers => s = "decrypting"
    BY <1>1, <1>3, <1>5 DEF Fits
  <2> QED BY <1>3, <1>5, <1>6, <2>1, <2>2, FitsAfter DEF Ats
<1> QED BY <1>1, <1>2, <1>3, <1>5, <1>6, <1>7, EmitStep

(* A download or a decryption is through, and says so once more.           *)
LEMMA StepThrough ==
    ASSUME Inv, NEW w \in Workers, Through(w) PROVE Inv'
<1>0. w \in Emitters /\ w \notin ProcessWorkers /\ w \in DownloadWorkers \cup DecryptWorkers
  BY Pools DEF Through
<1>1. job[w].at = "work" /\ UNCHANGED <<rows, decryptQueue, processQueue>>
      /\ emit(w, job[w].book, job[w].stage) /\ Goes(w, "hand", job[w].stage)
  BY DEF Through
<1>2. job[w] \in Job /\ job[w].book \in Books /\ JobsOK /\ Holds(w) /\ Fits(w)
  BY <1>0, <1>1, HasBook DEF Inv, Types, Holds
<1>3. /\ job[w].stage \in {"downloading", "decrypting"}
      /\ w \in DecryptWorkers => job[w].stage = "decrypting"
  BY <1>0, <1>1, <1>2 DEF Fits
<1>4. Becomes(w, job[w].book, "hand", job[w].stage)
  BY <1>0, <1>1, <1>2, GoesOn
<1>5. Fits(w)'
  BY <1>0, <1>2, <1>3, <1>4, FitsAfter DEF Ats, Running
<1> QED BY <1>0, <1>1, <1>2, <1>3, <1>4, <1>5, EmitStep DEF Running

(* A sender says that its item waits: it may be late.                      *)
LEMMA StepTellWaiting ==
    ASSUME Inv, NEW w \in Workers, TellWaiting(w) PROVE Inv'
<1> DEFINE kind == IF w \in DownloadWorkers THEN "waiting_decrypt" ELSE "waiting_moving"
<1>0. w \in Emitters /\ kind \in Waiting
  BY Pools DEF Waiting
<1>1. job[w].at = "tell" /\ UNCHANGED <<rows, decryptQueue, processQueue>>
      /\ emit(w, job[w].book, kind) /\ Goes(w, "done", "none")
  BY DEF TellWaiting
<1>2. job[w] \in Job /\ job[w].book \in Books /\ JobsOK
  BY <1>0, <1>1, HasBook DEF Inv, Types
<1>3. Becomes(w, job[w].book, "done", "none")
  BY <1>0, <1>1, <1>2, GoesOn
<1>4. Fits(w)'
  BY <1>0, <1>2, <1>3, FitsAfter DEF Ats
<1> HIDE DEF kind
<1> QED BY <1>0, <1>1, <1>2, <1>3, <1>4, EmitStep

(* A book is complete, and its card goes.                                  *)
LEMMA StepEmitComplete ==
    ASSUME Inv, NEW w \in ProcessWorkers, EmitComplete(w) PROVE Inv'
<1>0. w \in Emitters /\ w \in Workers
  BY Pools
<1>1. job[w].at = "end" /\ UNCHANGED <<rows, decryptQueue, processQueue>>
      /\ emit(w, job[w].book, "complete") /\ Goes(w, "done", "none")
  BY DEF EmitComplete
<1>2. job[w] \in Job /\ job[w].book \in Books /\ JobsOK
  BY <1>0, <1>1, HasBook DEF Inv, Types
<1>3. Becomes(w, job[w].book, "done", "none")
  BY <1>0, <1>1, <1>2, GoesOn
<1>4. Fits(w)'
  BY <1>0, <1>2, <1>3, FitsAfter DEF Ats
<1> QED BY <1>0, <1>1, <1>2, <1>3, <1>4, EmitStep DEF Final

(* An item fails, with or without a row that can be written.               *)
LEMMA StepFailItem ==
    ASSUME Inv, NEW w \in Workers, failItem(w) PROVE Inv'
<1>0. w \in Emitters
  BY Pools
<1>1. job[w].at \in {"work", "begin"} /\ UNCHANGED <<decryptQueue, processQueue>>
      /\ emit(w, job[w].book, "failed") /\ Goes(w, "done", "none")
      /\ (rows' = rows \/ rows' = [rows EXCEPT ![job[w].book] = "none"])
  BY DEF failItem
<1>2. job[w] \in Job /\ job[w].book \in Books /\ JobsOK /\ Holds(w)
  BY <1>0, <1>1, HasBook DEF Inv, Types, Holds
<1>3. Becomes(w, job[w].book, "done", "none")
  BY <1>0, <1>1, <1>2, GoesOn
<1>4. Fits(w)'
  BY <1>0, <1>2, <1>3, FitsAfter DEF Ats
<1> QED BY <1>0, <1>1, <1>2, <1>3, <1>4, EmitStep DEF Final

(* A conversion begins beside whatever the stages do.                      *)
LEMMA StepConvertBook ==
    ASSUME Inv, NEW w \in Converters, NEW b \in Books, ConvertBook(w, b) PROVE Inv'
<1>0. w \in Emitters /\ w \notin Workers /\ w \notin DownloadWorkers /\ w \notin DecryptWorkers
  BY Pools
<1>1. job[w] = Free /\ UNCHANGED <<rows, decryptQueue, processQueue>>
      /\ emit(w, b, "converting")
      /\ job' = [job EXCEPT ![w] = [book |-> b, at |-> "work", stage |-> "converting"]]
  BY DEF ConvertBook
<1>2. Becomes(w, b, "work", "converting")
  BY <1>0, <1>1, TakesOn DEF Inv, Types
<1>3. Fits(w)'
  BY <1>0, <1>2, FitsAfter DEF Ats, Running
<1> QED BY <1>0, <1>1, <1>2, <1>3, EmitStep DEF Running

(* A conversion ends.                                                      *)
LEMMA StepEndConvert ==
    ASSUME Inv, NEW w \in Converters, EndConvert(w) PROVE Inv'
<1>0. w \in Emitters /\ w \notin Workers /\ w \notin DownloadWorkers /\ w \notin DecryptWorkers
  BY Pools
<1>1. job[w].at = "work" /\ UNCHANGED <<rows, decryptQueue, processQueue>>
      /\ Goes(w, "done", "none")
  BY DEF EndConvert
<1>2. PICK k \in Final : emit(w, job[w].book, k)
  BY DEF EndConvert
<1>3. job[w] \in Job /\ job[w].book \in Books /\ JobsOK
  BY <1>0, <1>1, HasBook DEF Inv, Types
<1>4. Becomes(w, job[w].book, "done", "none")
  BY <1>0, <1>1, <1>3, GoesOn
<1>5. Fits(w)'
  BY <1>0, <1>3, <1>4, FitsAfter DEF Ats
<1> QED BY <1>0, <1>1, <1>2, <1>3, <1>4, <1>5, EmitStep

-----------------------------------------------------------------------------
(* The steps that emit nothing *)

(* The maps and the subscriber are left alone.                             *)
LEMMA SilentTypes ==
    ASSUME Types, UNCHANGED <<maps, out, subscriber>>, skewed' \subseteq Books
    PROVE  MapsOK' /\ OutOK' /\ PageOK' /\ \A b \in Books : MapsKept(b)
<1>1. /\ UNCHANGED activeByASIN /\ UNCHANGED waitingDecrypt /\ UNCHANGED waitingMoving
      /\ UNCHANGED out /\ UNCHANGED feed /\ UNCHANGED page /\ UNCHANGED listed
  BY DEF maps, subscriber
<1> QED BY <1>1 DEF Types, MapsOK, OutOK, PageOK, MapsKept

(* A worker that has an item goes on with it, or lets it go.               *)
LEMMA QuietStep ==
    ASSUME Inv, NEW w \in Emitters, NEW b, NEW at, NEW st, Becomes(w, b, at, st), Fits(w)',
           UNCHANGED <<decryptQueue, processQueue>>, UNCHANGED <<maps, out, subscriber>>,
           b = job[w].book \/ at = "free", job[w] \in Job, NEW a, a = job[w].book,
           w \in Workers /\ at \in {"begin", "wait", "work", "hand"} => Holds(w),
           \/ rows' = rows
           \/ /\ rows' = [rows EXCEPT ![job[w].book] = "none"]
              /\ Holds(w) /\ w \in Workers /\ at = "end",
           skewed' = skewed \/ skewed' = skewed \cup {job[w].book},
           a \notin skewed' => Cards(a)'
    PROVE  Inv'
<1>0. job[w].book \in Books
  BY DEF Job
<1>1. Types'
  <2>1. RowsOK' /\ QueuesOK'
    BY DEF Inv, Types, RowsOK, Rows, QueuesOK
  <2>2. JobsOK'
    BY JobsStep DEF Inv, Types
  <2>3. skewed' \subseteq Books
    BY <1>0 DEF Inv, Types, OutOK
  <2> QED BY <2>1, <2>2, <2>3, SilentTypes DEF Inv, Types
<1>2. \A v \in Workers : Holds(v)' => Holds(v) /\ job'[v].book = job[v].book
  <2> SUFFICES ASSUME NEW v \in Workers, Holds(v)'
               PROVE  Holds(v) /\ job'[v].book = job[v].book
    OBVIOUS
  <2>1. v \in Emitters
    BY Pools
  <2> QED BY <2>1 DEF Becomes, Holds
<1>3. Items'
  <2>1. \A v \in Workers : job[v].at # "free" => job[v].book \in Books
    BY Pools, HasBook DEF Inv, Types
  <2>2. ASSUME NEW c \in Books, rows[c] \in Busy
        PROVE  \/ rows'[c] \in Busy
               \/ /\ c \notin ToSet(decryptQueue) /\ c \notin ToSet(processQueue)
                  /\ \A v \in Workers : Holds(v)' => job[v].book # c
    <3>1. CASE rows' = rows \/ c # job[w].book
      BY <2>2, <3>1 DEF Inv, Types, RowsOK
    <3>2. CASE c = job[w].book /\ Holds(w) /\ w \in Workers /\ at = "end"
      <4>1. ~Holds(w)'
        BY <3>2 DEF Becomes, Holds
      <4>2. \A v \in Workers : Holds(v)' => job[v].book # c
        BY <1>2, <3>2, <4>1 DEF Inv, Items
      <4>3. c \notin ToSet(decryptQueue) /\ c \notin ToSet(processQueue)
        BY <3>2 DEF Inv, Items
      <4> QED BY <4>2, <4>3
    <3> QED BY <3>1, <3>2
  <2> QED BY <1>2, <2>1, <2>2, ItemsKept DEF Inv, Types
<1>4. ASSUME NEW c \in Books \ skewed'
      PROVE  Cards(c)'
  <2>1. CASE c = a
    BY <1>4, <2>1
  <2>2. CASE c # job[w].book
    <3>1. MapsKept(c) /\ QueuesKept(c) /\ Cards(c)
      BY SilentTypes, <1>0, <1>4 DEF Inv, Types, OutOK, QueuesKept
    <3>2. PICK d : d = b /\ Becomes(w, d, at, st)
      OBVIOUS
    <3>3. CASE b # c
      BY <2>2, <3>1, <3>3, OtherCards
    <3>4. CASE b = c
      <4>1. \A v \in Emitters : /\ Has(v, c)' <=> Has(v, c)
                                /\ Has(v, c) => job'[v].stage = job[v].stage
                                /\ Begins(v, c)' <=> Begins(v, c)
        BY <2>2, <3>4 DEF Becomes, Has, Begins
      <4>2. (QD(c)' <=> QD(c)) /\ (QP(c)' <=> QP(c))
        BY <3>1, <4>1, Pools DEF QD, QP, QueuesKept
      <4>3. Telling(c) => Telling(c)'
        BY <2>2, Pools DEF Telling, Becomes
      <4> QED BY <3>1, <4>1, <4>2, <4>3, CardsSame
    <3> QED BY <3>3, <3>4
  <2> QED BY <2>1, <2>2
<1> QED BY <1>1, <1>3, <1>4 DEF Inv

(* A book whose worker goes on with the same in hand keeps its card.       *)
LEMMA SameHand ==
    ASSUME Inv, NEW w \in Emitters, NEW at, Becomes(w, job[w].book, at, job[w].stage),
           NEW b, b = job[w].book, b \notin skewed,
           UNCHANGED <<decryptQueue, processQueue>>, UNCHANGED <<maps, out, subscriber>>,
           UNCHANGED skewed, job[w] \in Job,
           job[w].at \in {"wait", "work"}, at \in {"work", "end"}
    PROVE  Cards(b)'
<1>1. b = job[w].book
  OBVIOUS
<1>2. b \in Books /\ Cards(b)
  BY <1>1 DEF Inv, Job
<1>3. \A v \in Emitters : /\ Has(v, b)' <=> Has(v, b)
                          /\ Has(v, b) => job'[v].stage = job[v].stage
                          /\ Begins(v, b)' <=> Begins(v, b)
  BY <1>1 DEF Becomes, Has, Begins
<1>4. MapsKept(b) /\ QueuesKept(b)
  BY <1>2, SilentTypes DEF Inv, Types, OutOK, QueuesKept
<1>5. (QD(b)' <=> QD(b)) /\ (QP(b)' <=> QP(b))
  BY <1>3, <1>4, Pools DEF QD, QP, QueuesKept
<1>6. Telling(b) => Telling(b)'
  BY Pools DEF Telling, Becomes
<1> QED BY <1>1, <1>2, <1>3, <1>4, <1>5, <1>6, CardsSame

(* The metadata is there, or was waited for long enough.                   *)
LEMMA StepEnrichDone ==
    ASSUME Inv, NEW w \in DecryptWorkers, EnrichDone(w) PROVE Inv'
<1>0. w \in Emitters /\ w \in Workers /\ w \notin DownloadWorkers
  BY Pools
<1>1. job[w].at = "wait" /\ UNCHANGED <<rows, decryptQueue, processQueue, skewed>>
      /\ job' = [job EXCEPT ![w].at = "work"] /\ UNCHANGED <<maps, out, subscriber>>
  BY DEF EnrichDone, Silent
<1>2. job[w] \in Job /\ job[w].book \in Books /\ JobsOK /\ Holds(w) /\ Fits(w)
  BY <1>0, <1>1, HasBook DEF Inv, Types, Holds
<1>3. Becomes(w, job[w].book, "work", job[w].stage)
  BY <1>0, <1>1, <1>2, GoesOn
<1>4. job[w].stage = "decrypting"
  BY <1>1, <1>2 DEF Fits
<1>5. Fits(w)'
  BY <1>0, <1>2, <1>3, <1>4, FitsAfter DEF Ats, Running
<1>6. ASSUME NEW a, a = job[w].book, a \notin skewed' PROVE Cards(a)'
  BY <1>6, <1>0, <1>1, <1>2, <1>3, SameHand
<1> QED BY <1>0, <1>1, <1>2, <1>3, <1>5, <1>6, QuietStep

(* The row is complete; the card goes with the next event.                 *)
LEMMA StepMarkComplete ==
    ASSUME Inv, NEW w \in ProcessWorkers, MarkComplete(w) PROVE Inv'
<1>0. w \in Emitters /\ w \in Workers /\ w \notin DownloadWorkers /\ w \notin DecryptWorkers
  BY Pools
<1>1. job[w].at = "work" /\ UNCHANGED <<decryptQueue, processQueue, skewed>>
      /\ rows' = [rows EXCEPT ![job[w].book] = "none"]
      /\ job' = [job EXCEPT ![w].at = "end"] /\ UNCHANGED <<maps, out, subscriber>>
  BY DEF MarkComplete, Silent
<1>2. job[w] \in Job /\ job[w].book \in Books /\ JobsOK /\ Holds(w) /\ Fits(w)
  BY <1>0, <1>1, HasBook DEF Inv, Types, Holds
<1>3. Becomes(w, job[w].book, "end", job[w].stage)
  BY <1>0, <1>1, <1>2, GoesOn
<1>4. job[w].stage \in Running
  BY <1>1, <1>2 DEF Fits
<1>5. Fits(w)'
  BY <1>0, <1>2, <1>3, <1>4, FitsAfter DEF Ats
<1>6. ASSUME NEW a, a = job[w].book, a \notin skewed' PROVE Cards(a)'
  BY <1>6, <1>0, <1>1, <1>2, <1>3, SameHand
<1> QED BY <1>0, <1>1, <1>2, <1>3, <1>5, <1>6, QuietStep

(* A worker that is free fits.                                             *)
LEMMA FitsFree ==
    ASSUME NEW w \in Emitters, Becomes(w, NoBook, "free", "none") PROVE Fits(w)'
<1>1. job'[w] = Free
  BY DEF Becomes, Free
<1> QED BY <1>1 DEF Fits, Free

(* A stage gives its item up without a word: the card is skewed.           *)
LEMMA StepAbandon ==
    ASSUME Inv, NEW w \in Workers, Abandon(w) PROVE Inv'
<1>0. w \in Emitters
  BY Pools
<1>1. job[w].at \in {"wait", "hand"} /\ UNCHANGED <<rows, decryptQueue, processQueue>>
      /\ skewed' = skewed \cup {job[w].book}
      /\ job' = [job EXCEPT ![w] = Free] /\ UNCHANGED <<maps, out, subscriber>>
  BY DEF Abandon, Silent
<1>2. job[w] \in Job /\ JobsOK
  BY <1>0, <1>1, HasBook DEF Inv, Types
<1>3. Becomes(w, NoBook, "free", "none")
  BY <1>0, <1>1, <1>2, TakesOn DEF Free
<1>4. Fits(w)'
  BY <1>0, <1>3, FitsFree
<1> QED BY <1>0, <1>1, <1>2, <1>3, <1>4, QuietStep

(* A download worker claims a row, which had no item.                      *)
LEMMA StepGetNextPendingDownload ==
    ASSUME Inv, NEW w \in DownloadWorkers, GetNextPendingDownload(w) PROVE Inv'
<1>0. w \in Emitters /\ w \in Workers /\ w \notin DecryptWorkers /\ w \notin ProcessWorkers
  BY Pools
<1>1. PICK b \in Books :
         /\ rows[b] \in {"pending", "reorganize"}
         /\ rows' = [rows EXCEPT ![b] = IF rows[b] = "pending" THEN "active" ELSE "reorganizing"]
         /\ job' = [job EXCEPT ![w] = [book |-> b, at |-> "begin", stage |-> "none"]]
  BY DEF GetNextPendingDownload
<1>2. job[w] = Free /\ UNCHANGED <<decryptQueue, processQueue, skewed>>
      /\ UNCHANGED <<maps, out, subscriber>>
  BY DEF GetNextPendingDownload, Silent
<1>3. Becomes(w, b, "begin", "none")
  BY <1>0, <1>1, TakesOn DEF Inv, Types
<1>4. Fits(w)'
  BY <1>0, <1>3, FitsAfter DEF Ats
<1>5. RowsOK' /\ rows'[b] \in Busy /\ \A c \in Books \ {b} : rows'[c] = rows[c]
  BY <1>1 DEF Inv, Types, RowsOK, Rows, Busy
<1>6. Types'
  BY <1>2, <1>0, <1>3, <1>4, <1>5, JobsStep, SilentTypes DEF Inv, Types, QueuesOK, OutOK
<1>7. /\ b \notin ToSet(decryptQueue) /\ b \notin ToSet(processQueue)
      /\ \A v \in Workers : Holds(v) => job[v].book # b
  BY <1>1 DEF Inv, Items, Busy
<1>8. \A v \in Workers \ {w} : job'[v] = job[v]
  BY <1>3, Pools DEF Becomes
<1>9. job'[w].book = b /\ Holds(w)' /\ ~Holds(w)
  BY <1>2, <1>3 DEF Becomes, Holds, Free
<1>10. \A v \in Workers : Holds(v)' => v = w \/ (Holds(v) /\ job'[v].book = job[v].book)
  BY <1>8 DEF Holds
<1>11. \A v \in Workers : Holds(v) => job[v].book \in Books
  BY Pools, HasBook DEF Inv, Types, Holds
<1>12. Items'
  <2>1. \A v \in Workers : Holds(v)' => rows'[job'[v].book] \in Busy
    BY <1>5, <1>9, <1>10, <1>11 DEF Inv, Items
  <2>2. \A u, v \in Workers : Holds(u)' /\ Holds(v)' /\ job'[u].book = job'[v].book => u = v
    BY <1>7, <1>9, <1>10 DEF Inv, Items
  <2>3. \A c \in Books :
           c \in ToSet(decryptQueue') \/ c \in ToSet(processQueue') =>
              /\ rows'[c] \in Busy
              /\ \A v \in Workers : Holds(v)' => job'[v].book # c
    BY <1>2, <1>5, <1>7, <1>9, <1>10 DEF Inv, Items
  <2> QED BY <1>2, <2>1, <2>2, <2>3 DEF Inv, Items
<1>13. ASSUME NEW c \in Books \ skewed'
       PROVE  Cards(c)'
  <2>1. MapsKept(c) /\ QueuesKept(c) /\ Cards(c)
    BY <1>2, SilentTypes DEF Inv, Types, OutOK, QueuesKept
  <2>2. \A v \in Emitters : /\ Has(v, c)' <=> Has(v, c)
                            /\ Has(v, c) => job'[v].stage = job[v].stage
    BY <1>2, <1>3 DEF Becomes, Has, Free
  <2>3. \A v \in Emitters \ {w} : Begins(v, c)' <=> Begins(v, c)
    BY <1>3 DEF Becomes, Begins
  <2>4. (QD(c)' <=> QD(c)) /\ (QP(c)' <=> QP(c))
    BY <1>0, <2>1, <2>3, Pools DEF QD, QP, QueuesKept
  <2>5. Telling(c) => Telling(c)'
    BY <1>2, <1>8 DEF Telling, Free
  <2> QED BY <2>1, <2>2, <2>4, <2>5, CardsSame
<1> QED BY <1>6, <1>12, <1>13 DEF Inv

(* A worker takes the first item of its queue.                             *)
LEMMA TakeStep ==
    ASSUME Inv, NEW w \in DecryptWorkers \cup ProcessWorkers, job[w] = Free,
           NEW b \in Books, Becomes(w, b, "begin", "none"),
           QueuesOK', Distinct(decryptQueue)', Distinct(processQueue)',
           \A c : c \in ToSet(decryptQueue) <=>
                     c \in ToSet(decryptQueue') \/ (w \in DecryptWorkers /\ c = b),
           \A c : c \in ToSet(processQueue) <=>
                     c \in ToSet(processQueue') \/ (w \in ProcessWorkers /\ c = b),
           b \notin ToSet(decryptQueue'), b \notin ToSet(processQueue'),
           UNCHANGED rows, UNCHANGED skewed, UNCHANGED <<maps, out, subscriber>>
    PROVE  Inv'
<1>0. w \in Emitters /\ w \in Workers /\ w \notin DownloadWorkers
      /\ (w \in DecryptWorkers <=> w \notin ProcessWorkers)
  BY Pools
<1>1. Types'
  <2>1. Fits(w)'
    BY <1>0, FitsAfter DEF Ats
  <2>2. RowsOK' /\ JobsOK' /\ skewed' \subseteq Books
    BY <1>0, <2>1, JobsStep DEF Inv, Types, RowsOK, OutOK
  <2> QED BY <2>2, SilentTypes DEF Inv, Types
<1>2. \A v \in Workers \ {w} : job'[v] = job[v] /\ (Holds(v)' <=> Holds(v))
  BY Pools DEF Becomes, Holds
<1>3. job'[w].book = b /\ Holds(w)'
  BY DEF Becomes, Holds
<1>4. rows[b] \in Busy /\ \A v \in Workers : Holds(v) => job[v].book # b
  BY <1>0 DEF Inv, Items
<1>5. Items'
  <2>1. \A v \in Workers : Holds(v)' => rows'[job'[v].book] \in Busy
    BY <1>2, <1>3, <1>4 DEF Inv, Items
  <2>2. \A u, v \in Workers : Holds(u)' /\ Holds(v)' /\ job'[u].book = job'[v].book => u = v
    BY <1>2, <1>3, <1>4 DEF Inv, Items
  <2>3. \A c \in Books :
           c \in ToSet(decryptQueue') \/ c \in ToSet(processQueue') =>
              /\ rows'[c] \in Busy
              /\ \A v \in Workers : Holds(v)' => job'[v].book # c
    <3> SUFFICES ASSUME NEW c \in Books, c \in ToSet(decryptQueue') \/ c \in ToSet(processQueue'),
                        NEW v \in Workers
                 PROVE  rows'[c] \in Busy /\ (Holds(v)' => job'[v].book # c)
      BY <1>0
    <3>1. c # b /\ (c \in ToSet(decryptQueue) \/ c \in ToSet(processQueue))
      OBVIOUS
    <3> QED BY <1>2, <1>3, <3>1 DEF Inv, Items
  <2>4. \A c \in Books : ~(c \in ToSet(decryptQueue') /\ c \in ToSet(processQueue'))
    BY DEF Inv, Items
  <2> QED BY <2>1, <2>2, <2>3, <2>4 DEF Items
<1>6. ASSUME NEW c \in Books \ skewed'
      PROVE  Cards(c)'
  <2>1. MapsKept(c) /\ Cards(c)
    BY SilentTypes DEF Inv, Types, OutOK
  <2>2. \A v \in Emitters : /\ Has(v, c)' <=> Has(v, c)
                            /\ Has(v, c) => job'[v].stage = job[v].stage
    BY DEF Becomes, Has, Free
  <2>3. \A v \in Emitters : Begins(v, c)' <=> Begins(v, c) \/ (v = w /\ c = b)
    BY DEF Becomes, Begins, Free
  <2>4. QD(c)' <=> QD(c)
    BY <1>0, <2>3, Pools DEF QD
  <2>5. QP(c)' <=> QP(c)
    BY <1>0, <2>3, Pools DEF QP
  <2>6. Telling(c) => Telling(c)'
    BY <1>2 DEF Telling, Free
  <2> QED BY <2>1, <2>2, <2>4, <2>5, <2>6, CardsSame
<1> QED BY <1>1, <1>5, <1>6 DEF Inv

(* A decrypt worker receives an item.                                      *)
LEMMA StepDecryptWorker ==
    ASSUME Inv, NEW w \in DecryptWorkers, decryptWorker(w) PROVE Inv'
<1>0. w \in Emitters /\ w \in Workers /\ w \notin ProcessWorkers
  BY Pools
<1>1. /\ job[w] = Free /\ decryptQueue # <<>>
      /\ job' = [job EXCEPT ![w] = [book |-> Head(decryptQueue), at |-> "begin", stage |-> "none"]]
      /\ decryptQueue' = Tail(decryptQueue)
      /\ UNCHANGED rows /\ UNCHANGED processQueue /\ UNCHANGED skewed
      /\ UNCHANGED <<maps, out, subscriber>>
  BY DEF decryptWorker, Silent
<1>2. PICK b : b = Head(decryptQueue)
  OBVIOUS
<1>3. Becomes(w, b, "begin", "none")
  BY <1>0, <1>1, <1>2, TakesOn DEF Inv, Types
<1>4. /\ decryptQueue \in Seq(Books) /\ Distinct(decryptQueue)
      /\ Len(decryptQueue) <= QueueCap /\ Distinct(processQueue)
  BY DEF Inv, Types, QueuesOK, Items
<1>5. /\ b \in Books /\ decryptQueue' \in Seq(Books) /\ Len(decryptQueue') <= Len(decryptQueue)
      /\ b \in ToSet(decryptQueue) /\ b \notin ToSet(decryptQueue') /\ Distinct(decryptQueue')
      /\ \A c : c \in ToSet(decryptQueue) <=> c \in ToSet(decryptQueue') \/ c = b
  BY <1>1, <1>2, <1>4, TailQueue
<1>6. QueuesOK'
  BY <1>1, <1>4, <1>5, FeedAssumption, LenProperties DEF Inv, Types, QueuesOK
<1>7. Distinct(decryptQueue)' /\ Distinct(processQueue)'
  BY <1>1, <1>4, <1>5 DEF Distinct
<1>8. b \notin ToSet(processQueue')
  BY <1>1, <1>5 DEF Inv, Items
<1> QED BY <1>0, <1>1, <1>3, <1>5, <1>6, <1>7, <1>8, TakeStep

(* A process worker receives an item.                                      *)
LEMMA StepProcessWorker ==
    ASSUME Inv, NEW w \in ProcessWorkers, processWorker(w) PROVE Inv'
<1>0. w \in Emitters /\ w \in Workers /\ w \notin DecryptWorkers
  BY Pools
<1>1. /\ job[w] = Free /\ processQueue # <<>>
      /\ job' = [job EXCEPT ![w] = [book |-> Head(processQueue), at |-> "begin", stage |-> "none"]]
      /\ processQueue' = Tail(processQueue)
      /\ UNCHANGED rows /\ UNCHANGED decryptQueue /\ UNCHANGED skewed
      /\ UNCHANGED <<maps, out, subscriber>>
  BY DEF processWorker, Silent
<1>2. PICK b : b = Head(processQueue)
  OBVIOUS
<1>3. Becomes(w, b, "begin", "none")
  BY <1>0, <1>1, <1>2, TakesOn DEF Inv, Types
<1>4. /\ processQueue \in Seq(Books) /\ Distinct(processQueue)
      /\ Len(processQueue) <= QueueCap /\ Distinct(decryptQueue)
  BY DEF Inv, Types, QueuesOK, Items
<1>5. /\ b \in Books /\ processQueue' \in Seq(Books) /\ Len(processQueue') <= Len(processQueue)
      /\ b \in ToSet(processQueue) /\ b \notin ToSet(processQueue') /\ Distinct(processQueue')
      /\ \A c : c \in ToSet(processQueue) <=> c \in ToSet(processQueue') \/ c = b
  BY <1>1, <1>2, <1>4, TailQueue
<1>6. QueuesOK'
  BY <1>1, <1>4, <1>5, FeedAssumption, LenProperties DEF Inv, Types, QueuesOK
<1>7. Distinct(decryptQueue)' /\ Distinct(processQueue)'
  BY <1>1, <1>4, <1>5 DEF Distinct
<1>8. b \notin ToSet(decryptQueue')
  BY <1>1, <1>5 DEF Inv, Items
<1> QED BY <1>0, <1>1, <1>3, <1>5, <1>6, <1>7, <1>8, TakeStep

(* A worker sends its item on: it has still to say so, or it has before.   *)
LEMMA SendStep ==
    ASSUME Inv, NEW w \in Workers, job[w] \in Job, job[w].at = "hand",
           NEW b \in Books, b = job[w].book, NEW a, NEW at, NEW st,
           Becomes(w, a, at, st), Fits(w)',
           \/ a = b /\ at = "tell" /\ job[w].stage # "waiting_moving"
           \/ at = "free" /\ job[w].stage = "waiting_moving" /\ b \in ToSet(processQueue'),
           QueuesOK', Distinct(decryptQueue)', Distinct(processQueue)',
           \A c : c # b => QueuesKept(c),
           ~(b \in ToSet(decryptQueue') /\ b \in ToSet(processQueue')),
           b \in ToSet(processQueue') \/ (b \in ToSet(decryptQueue') /\ a = b),
           UNCHANGED rows, UNCHANGED skewed, UNCHANGED <<maps, out, subscriber>>
    PROVE  Inv'
<1>0. w \in Emitters
  BY Pools
<1>1. Types'
  <2>2. RowsOK' /\ JobsOK' /\ skewed' \subseteq Books
    BY <1>0, JobsStep DEF Inv, Types, RowsOK, OutOK
  <2> QED BY <2>2, SilentTypes DEF Inv, Types
<1>2. /\ Holds(w) /\ ~Holds(w)'
      /\ \A v \in Workers \ {w} : job'[v] = job[v] /\ (Holds(v)' <=> Holds(v))
  BY Pools DEF Becomes, Holds
<1>3. /\ rows[b] \in Busy /\ b \notin ToSet(decryptQueue) /\ b \notin ToSet(processQueue)
      /\ \A v \in Workers \ {w} : Holds(v) => job[v].book # b
  BY <1>2 DEF Inv, Items
<1>4. Items'
  <2>1. \A v \in Workers : Holds(v)' => rows'[job'[v].book] \in Busy
    BY <1>2 DEF Inv, Items
  <2>2. \A u, v \in Workers : Holds(u)' /\ Holds(v)' /\ job'[u].book = job'[v].book => u = v
    BY <1>2 DEF Inv, Items
  <2>3. ASSUME NEW c \in Books, c \in ToSet(decryptQueue') \/ c \in ToSet(processQueue')
        PROVE  /\ rows'[c] \in Busy
               /\ \A v \in Workers : Holds(v)' => job'[v].book # c
    <3>1. CASE c = b
      BY <1>2, <1>3, <3>1
    <3>2. CASE c # b
      BY <1>2, <2>3, <3>2 DEF Inv, Items, QueuesKept
    <3> QED BY <3>1, <3>2
  <2>4. \A c \in Books : ~(c \in ToSet(decryptQueue') /\ c \in ToSet(processQueue'))
    BY DEF Inv, Items, QueuesKept
  <2> QED BY <2>1, <2>2, <2>3, <2>4 DEF Items
<1>5. ASSUME NEW c \in Books \ skewed'
      PROVE  MapsKept(c) /\ Cards(c)
  BY SilentTypes DEF Inv, Types, OutOK
<1>6. ASSUME NEW c \in Books \ skewed', c # b
      PROVE  Cards(c)'
  <2>1. CASE a # c
    BY <1>0, <1>5, <1>6, <2>1, OtherCards
  <2>2. CASE a = c
    <3>1. \A v \in Emitters : /\ Has(v, c)' <=> Has(v, c)
                              /\ Has(v, c) => job'[v].stage = job[v].stage
                              /\ Begins(v, c)' <=> Begins(v, c)
      BY <1>6, <2>2 DEF Becomes, Has, Begins
    <3>2. (QD(c)' <=> QD(c)) /\ (QP(c)' <=> QP(c))
      BY <1>6, <3>1, Pools DEF QD, QP, QueuesKept
    <3>3. Telling(c) => Telling(c)'
      BY <1>6, Pools DEF Telling, Becomes
    <3> QED BY <1>5, <3>1, <3>2, <3>3, CardsSame
  <2> QED BY <2>1, <2>2
<1>7. ASSUME b \notin skewed'
      PROVE  Cards(b)'
  <2>1. MapsKept(b) /\ Cards(b)
    BY <1>5, <1>7
  <2>2. Has(w, b) /\ \A v \in Emitters : Has(v, b) => v = w
    BY <1>0, <2>1 DEF Has, Cards, Alone
  <2>3. \A v \in Emitters : ~Has(v, b)'
    BY <2>2 DEF Becomes, Has
  <2>4. Alone(b)' /\ AtWork(b)' /\ ~Held(b)' /\ Held(b)
    BY <1>0, <2>2, <2>3 DEF Alone, AtWork, Held
  <2>5. \A v \in Emitters \ {w} : Begins(v, b)' <=> Begins(v, b)
    BY DEF Becomes, Begins
  <2>6. CASE a = b /\ at = "tell" /\ job[w].stage # "waiting_moving"
    <3>1. Shows(b, job[w].stage, FALSE, FALSE)
      BY <1>0, <2>1, <2>2, <2>6 DEF Cards, AtWork
    <3>2. Telling(b)'
      BY <2>6 DEF Telling, Becomes
    <3> QED BY <2>1, <2>4, <3>1, <3>2 DEF Cards, Lags, Told, Shows, MapsKept
  <2>7. CASE at = "free" /\ job[w].stage = "waiting_moving" /\ b \in ToSet(processQueue')
    <3>1. AtRest(b)
      BY <2>2, <2>7 DEF AtRest
    <3>2. QP(b)'
      BY <2>7 DEF QP
    <3>3. ~QD(b) /\ ~QD(b)'
      <4>1. \A v \in Workers \ {w} : ~Begins(v, b)
        BY <1>3 DEF Begins, Holds
      <4>2. ~Begins(w, b) /\ ~Begins(w, b)'
        BY <2>7 DEF Begins, Becomes
      <4>3. DecryptWorkers \subseteq Workers /\ Workers \subseteq Emitters
        BY Pools
      <4> QED BY <1>3, <2>5, <2>7, <4>1, <4>2, <4>3 DEF QD
    <3>4. Telling(b) => Telling(b)'
      BY Pools DEF Telling, Becomes
    <3> QED BY <2>1, <2>4, <3>1, <3>2, <3>3, <3>4 DEF Cards, Lags, Told, Shows, MapsKept
  <2> QED BY <2>6, <2>7
<1> QED BY <1>1, <1>4, <1>6, <1>7 DEF Inv

(* A download sends its item to be decrypted.                              *)
LEMMA StepSendToDecrypt ==
    ASSUME Inv, NEW w \in Workers, SendToDecrypt(w) PROVE Inv'
<1>0. w \in Emitters
  BY Pools
<1>1. /\ job[w].at = "hand" /\ job[w].stage = "downloading" /\ Len(decryptQueue) < QueueCap
      /\ decryptQueue' = Append(decryptQueue, job[w].book)
      /\ job' = [job EXCEPT ![w].at = "tell"]
      /\ UNCHANGED rows /\ UNCHANGED processQueue /\ UNCHANGED skewed
      /\ UNCHANGED <<maps, out, subscriber>>
  BY DEF SendToDecrypt, Silent
<1>2. job[w] \in Job /\ job[w].book \in Books /\ JobsOK /\ Holds(w)
  BY <1>0, <1>1, HasBook DEF Inv, Types, Holds
<1>3. PICK b \in Books : b = job[w].book
  BY <1>2
<1>4. Becomes(w, b, "tell", "downloading")
  BY <1>0, <1>1, <1>2, <1>3, GoesOn
<1>5. Fits(w)'
  BY <1>0, <1>4, FitsAfter DEF Ats, Running
<1>6. /\ b \notin ToSet(decryptQueue) /\ b \notin ToSet(processQueue)
      /\ Distinct(decryptQueue) /\ Distinct(processQueue) /\ decryptQueue \in Seq(Books)
  BY <1>2, <1>3 DEF Inv, Items, Types, QueuesOK
<1>7. /\ decryptQueue' \in Seq(Books) /\ Len(decryptQueue') = Len(decryptQueue) + 1
      /\ \A c : c \in ToSet(decryptQueue') <=> c \in ToSet(decryptQueue) \/ c = b
      /\ Distinct(decryptQueue')
  <2>1. PICK p : p = Append(decryptQueue, b)
    OBVIOUS
  <2>2. /\ p \in Seq(Books) /\ Len(p) = Len(decryptQueue) + 1 /\ Distinct(p)
        /\ \A c : c \in ToSet(p) <=> c \in ToSet(decryptQueue) \/ c = b
    BY <1>6, <2>1, AppendQueue
  <2> QED BY <1>1, <1>3, <2>1, <2>2
<1>8. QueuesOK'
  BY <1>1, <1>6, <1>7, FeedAssumption, LenProperties DEF Inv, Types, QueuesOK
<1>9. Distinct(decryptQueue)' /\ Distinct(processQueue)'
  BY <1>1, <1>6, <1>7 DEF Distinct
<1>10. \A c : c # b => QueuesKept(c)
  BY <1>1, <1>7 DEF QueuesKept
<1> QED BY <1>1, <1>2, <1>3, <1>4, <1>5, <1>6, <1>7, <1>8, <1>9, <1>10, SendStep

(* A decryption, or a reorganization, sends its item to be moved.          *)
LEMMA StepSendToProcess ==
    ASSUME Inv, NEW w \in Workers, SendToProcess(w) PROVE Inv'
<1>0. w \in Emitters
  BY Pools
<1>1. /\ job[w].at = "hand" /\ job[w].stage # "downloading" /\ Len(processQueue) < QueueCap
      /\ processQueue' = Append(processQueue, job[w].book)
      /\ job' = IF job[w].stage = "decrypting" THEN [job EXCEPT ![w].at = "tell"]
                ELSE [job EXCEPT ![w] = Free]
      /\ UNCHANGED rows /\ UNCHANGED decryptQueue /\ UNCHANGED skewed
      /\ UNCHANGED <<maps, out, subscriber>>
  BY DEF SendToProcess, Silent
<1>2. job[w] \in Job /\ job[w].book \in Books /\ JobsOK /\ Holds(w) /\ Fits(w)
  BY <1>0, <1>1, HasBook DEF Inv, Types, Holds
<1>3. PICK b \in Books : b = job[w].book
  BY <1>2
<1>6. /\ b \notin ToSet(decryptQueue) /\ b \notin ToSet(processQueue)
      /\ Distinct(decryptQueue) /\ Distinct(processQueue) /\ processQueue \in Seq(Books)
  BY <1>2, <1>3 DEF Inv, Items, Types, QueuesOK
<1>7. /\ processQueue' \in Seq(Books) /\ Len(processQueue') = Len(processQueue) + 1
      /\ \A c : c \in ToSet(processQueue') <=> c \in ToSet(processQueue) \/ c = b
      /\ Distinct(processQueue')
  <2>1. PICK p : p = Append(processQueue, b)
    OBVIOUS
  <2>2. /\ p \in Seq(Books) /\ Len(p) = Len(processQueue) + 1 /\ Distinct(p)
        /\ \A c : c \in ToSet(p) <=> c \in ToSet(processQueue) \/ c = b
    BY <1>6, <2>1, AppendQueue
  <2> QED BY <1>1, <1>3, <2>1, <2>2
<1>8. QueuesOK'
  BY <1>1, <1>6, <1>7, FeedAssumption, LenProperties DEF Inv, Types, QueuesOK
<1>9. Distinct(decryptQueue)' /\ Distinct(processQueue)'
  BY <1>1, <1>6, <1>7 DEF Distinct
<1>10. \A c : c # b => QueuesKept(c)
  BY <1>1, <1>7 DEF QueuesKept
<1>11. CASE job[w].stage = "decrypting"
  <2>1. Becomes(w, b, "tell", "decrypting")
    BY <1>0, <1>1, <1>2, <1>3, <1>11, GoesOn
  <2>2. Fits(w)'
    BY <1>0, <2>1, FitsAfter DEF Ats, Running
  <2> QED BY <1>1, <1>2, <1>3, <1>6, <1>7, <1>8, <1>9, <1>10, <1>11, <2>1, <2>2, SendStep
<1>12. CASE job[w].stage # "decrypting"
  <2>1. Becomes(w, NoBook, "free", "none")
    BY <1>0, <1>1, <1>2, <1>12, TakesOn DEF Free
  <2>2. Fits(w)'
    BY <1>0, <2>1, FitsFree
  <2>3. job[w].stage = "waiting_moving"
    BY <1>1, <1>2, <1>12 DEF Fits
  <2> QED BY <1>1, <1>2, <1>3, <1>6, <1>7, <1>8, <1>9, <1>10, <2>1, <2>2, <2>3, SendStep
<1> QED BY <1>11, <1>12

-----------------------------------------------------------------------------
(* Rows queued, events sent, a stop, a start and the subscriber *)

(* A step that moves no item and no card.                                  *)
LEMMA StillStep ==
    ASSUME Inv, UNCHANGED decryptQueue, UNCHANGED processQueue, UNCHANGED skewed,
           UNCHANGED activeByASIN, UNCHANGED waitingDecrypt, UNCHANGED waitingMoving,
           RowsOK', OutOK', PageOK',
           \A b \in Books : rows[b] \in Busy => rows'[b] \in Busy,
           \/ UNCHANGED job
           \/ \E w \in Emitters : Becomes(w, NoBook, "free", "none") /\ job[w].at = "done"
    PROVE  Inv'
<1>1. \A v \in Emitters : job'[v] = job[v] \/ (job[v].at = "done" /\ job'[v] = Free)
  BY DEF Becomes, Free
<1>2. JobsOK' /\ QueuesOK' /\ MapsOK'
  <2>1. DOMAIN job' = Emitters
    BY DEF Inv, Types, JobsOK, Becomes
  <2>2. ASSUME NEW v \in Emitters PROVE Fits(v)'
    <3>1. CASE job'[v] = job[v]
      BY <3>1 DEF Inv, Types, JobsOK, Fits
    <3>2. CASE job'[v] = Free
      BY <3>2 DEF Fits, Free
    <3> QED BY <1>1, <3>1, <3>2
  <2> QED BY <2>1, <2>2 DEF Inv, Types, JobsOK, QueuesOK, MapsOK
<1>3. \A v \in Workers : Holds(v)' => Holds(v) /\ job'[v].book = job[v].book
  BY <1>1, Pools DEF Holds, Free
<1>4. Items'
  <2>1. \A v \in Workers : job[v].at # "free" => job[v].book \in Books
    BY Pools, HasBook DEF Inv, Types
  <2> QED BY <1>3, <2>1, ItemsKept DEF Inv, Types
<1>5. ASSUME NEW c \in Books \ skewed'
      PROVE  Cards(c)'
  <2>1. MapsKept(c) /\ QueuesKept(c) /\ Cards(c)
    BY DEF Inv, MapsKept, QueuesKept
  <2>2. \A v \in Emitters : /\ Has(v, c)' <=> Has(v, c)
                            /\ Has(v, c) => job'[v].stage = job[v].stage
                            /\ Begins(v, c)' <=> Begins(v, c)
    BY <1>1 DEF Has, Begins, Free
  <2>3. (QD(c)' <=> QD(c)) /\ (QP(c)' <=> QP(c))
    BY <2>1, <2>2, Pools DEF QD, QP, QueuesKept
  <2>4. Telling(c) => Telling(c)'
    BY <1>1, Pools DEF Telling
  <2> QED BY <2>1, <2>2, <2>3, <2>4, CardsSame
<1> QED BY <1>2, <1>4, <1>5 DEF Inv, Types

(* A book with no live row is queued.                                      *)
LEMMA StepQueueBook ==
    ASSUME Inv, NEW b \in Books, NEW st \in {"pending", "reorganize"}, QueueBook(b, st) PROVE Inv'
<1>1. /\ rows[b] = "none" /\ rows' = [rows EXCEPT ![b] = st]
      /\ UNCHANGED <<decryptQueue, processQueue, job, stopping, maps, out, subscriber, skewed>>
  BY DEF QueueBook
<1>2. RowsOK' /\ \A c \in Books : rows[c] \in Busy => rows'[c] \in Busy
  BY <1>1 DEF Inv, Types, RowsOK, Rows, Busy
<1>3. OutOK' /\ PageOK'
  BY <1>1 DEF Inv, Types, OutOK, PageOK, subscriber
<1> QED BY <1>1, <1>2, <1>3, StillStep DEF maps

(* An event goes to the channel if there is room.                          *)
LEMMA StepSend ==
    ASSUME Inv, NEW w \in Emitters, Send(w) PROVE Inv'
<1>1. /\ out[w] # NoEvent /\ out' = [out EXCEPT ![w] = NoEvent]
      /\ feed' = IF conn /\ Len(feed) < FeedCap THEN Append(feed, out[w]) ELSE feed
      /\ job' = IF job[w].at = "done" THEN [job EXCEPT ![w] = Free] ELSE job
      /\ UNCHANGED <<rows, decryptQueue, processQueue, maps, listed, page, skewed>>
  BY DEF Send
<1>2. OutOK' /\ RowsOK'
  BY <1>1 DEF Inv, Types, OutOK, RowsOK
<1>3. PageOK'
  <2>1. out[w] \in FeedEvent /\ feed \in Seq(FeedEvent) /\ Len(feed) <= FeedCap
    BY <1>1 DEF Inv, Types, OutOK, PageOK
  <2>2. PICK e \in FeedEvent : e = out[w]
    BY <2>1
  <2>3. Append(feed, e) \in Seq(FeedEvent) /\ Len(Append(feed, e)) = Len(feed) + 1
    BY <2>1, AppendProperties
  <2>4. Len(feed) \in Nat
    BY <2>1, LenProperties
  <2>5. feed' \in Seq(FeedEvent) /\ Len(feed') <= FeedCap
    BY <1>1, <2>1, <2>2, <2>3, <2>4, FeedAssumption
  <2> QED BY <1>1, <2>5 DEF Inv, Types, PageOK
<1>4. \/ UNCHANGED job
      \/ Becomes(w, NoBook, "free", "none") /\ job[w].at = "done"
  BY <1>1, TakesOn DEF Inv, Types, Free
<1> QED BY <1>1, <1>2, <1>3, <1>4, StillStep DEF maps, Inv, Types, RowsOK

(* The workers' context is cancelled: nothing else changes yet.            *)
LEMMA StepStop ==
    ASSUME Inv, Stop PROVE Inv'
<1>1. UNCHANGED <<rows, decryptQueue, processQueue, job, maps, out, subscriber, skewed>>
  BY DEF Stop
<1>2. RowsOK' /\ OutOK' /\ PageOK'
  BY <1>1 DEF Inv, Types, RowsOK, OutOK, PageOK, subscriber
<1> QED BY <1>1, <1>2, StillStep DEF maps

(* The channels are new, the maps are not: the cards of the books that     *)
(* were in a channel are history.                                          *)
LEMMA StepStart ==
    ASSUME Inv, Start PROVE Inv'
<1>1. /\ \A w \in Workers : job[w] = Free
      /\ decryptQueue' = <<>> /\ processQueue' = <<>>
      /\ skewed' = skewed \cup ToSet(decryptQueue) \cup ToSet(processQueue)
      /\ UNCHANGED job /\ UNCHANGED <<maps, out, subscriber>>
  BY DEF Start
<1>2. RowsOK'
  BY DEF Start, Inv, Types, RowsOK, Rows
<1>3. \A q \in Seq(Books) : ToSet(q) \subseteq Books
  BY DEF ToSet
<1>4. skewed' \subseteq Books
  BY <1>1, <1>3 DEF Inv, Types, QueuesOK, OutOK
<1>5. QueuesOK' /\ ToSet(decryptQueue') = {} /\ ToSet(processQueue') = {}
      /\ Distinct(decryptQueue)' /\ Distinct(processQueue)'
  BY <1>1, NoQueue, FeedAssumption DEF QueuesOK, Distinct
<1>6. Types'
  <2>1. JobsOK'
    BY <1>1 DEF Inv, Types, JobsOK, Fits
  <2> QED BY <1>1, <1>2, <1>4, <1>5, <2>1, SilentTypes DEF Inv, Types
<1>7. Items'
  BY <1>1, <1>5 DEF Items, Holds, Free
<1>8. ASSUME NEW c \in Books \ skewed'
      PROVE  Cards(c)'
  <2>1. MapsKept(c) /\ QueuesKept(c) /\ Cards(c)
    BY <1>1, <1>5, SilentTypes, <1>4 DEF Inv, Types, QueuesKept
  <2>2. (QD(c)' <=> QD(c)) /\ (QP(c)' <=> QP(c))
    BY <1>1, <2>1 DEF QD, QP, Begins, QueuesKept
  <2>3. \A v \in Emitters : /\ Has(v, c)' <=> Has(v, c)
                            /\ Has(v, c) => job'[v].stage = job[v].stage
    BY <1>1 DEF Has
  <2>4. Telling(c) => Telling(c)'
    BY <1>1 DEF Telling
  <2> QED BY <2>1, <2>2, <2>3, <2>4, CardsSame
<1> QED BY <1>6, <1>7, <1>8 DEF Inv

(* The cards of a book in a snapshot are cards.                            *)
LEMMA ListedCards ==
    ASSUME MapsOK, NEW b \in Books, NEW pending
    PROVE  Listed(b, pending) \in Seq(Running \cup Waiting \cup {"queued"})
<1> DEFINE S == Running \cup Waiting \cup {"queued"}
<1>0. {"queued", "waiting_decrypt", "waiting_moving"} \subseteq S
      /\ (activeByASIN[b] # "none" => activeByASIN[b] \in S)
  BY DEF MapsOK, Waiting
<1> HIDE DEF S
<1>1. <<>> \in Seq(S) /\ \A x \in S : <<x>> \in Seq(S)
  OBVIOUS
<1>5. \A r, s \in Seq(S) : r \o s \in Seq(S)
  OBVIOUS
<1>6. Listed(b, pending) \in Seq(S)
  <2>1. PICK r, s, t, u :
          /\ r = IF activeByASIN[b] # "none" THEN <<activeByASIN[b]>> ELSE <<>>
          /\ s = IF b \in pending THEN <<"queued">> ELSE <<>>
          /\ t = IF b \in waitingDecrypt THEN <<"waiting_decrypt">> ELSE <<>>
          /\ u = IF b \in waitingMoving THEN <<"waiting_moving">> ELSE <<>>
    OBVIOUS
  <2>2. r \in Seq(S) /\ s \in Seq(S) /\ t \in Seq(S) /\ u \in Seq(S)
    BY <1>0, <1>1, <2>1
  <2>3. r \o s \o t \o u \in Seq(S)
    BY <1>5, <2>2
  <2> QED BY <2>1, <2>3, Zenon DEF Listed
<1> QED BY <1>6 DEF S

(* A page that shows a snapshot shows cards.                               *)
LEMMA RenderedPage ==
    ASSUME MapsOK, NEW pending, renderSnapshotItems(pending)
    PROVE  page' \in [Books -> Running \cup Waiting \cup {"none"}]
<1>1. ASSUME NEW b \in Books, NEW cards, cards = Listed(b, pending)
      PROVE  (IF cards = <<>> \/ Last(cards) = "queued" THEN "none" ELSE Last(cards))
                \in Running \cup Waiting \cup {"none"}
  <2>1. cards \in Seq(Running \cup Waiting \cup {"queued"})
    BY <1>1, ListedCards
  <2>2. cards # <<>> => Last(cards) \in Running \cup Waiting \cup {"queued"}
    BY <2>1, LenProperties, EmptySeq, ElementOfSeq DEF Last
  <2> QED BY <2>2
<1> QED BY <1>1 DEF renderSnapshotItems

(* The subscriber changes its own variables.                               *)
LEMMA StepSubscriber ==
    ASSUME Inv, Subscriber PROVE Inv'
<1>1. UNCHANGED <<pipeline, maps, out, skewed>>
  BY DEF Subscriber, Subscribe, Unsubscribe, ReadPending, PipelineSnapshot, onPipelineEvent
<1>2. Pending \subseteq Books
  BY DEF Pending
<1>3. PageOK'
  <2>1. CASE Subscribe
    <3>1. feed' = <<>> /\ UNCHANGED listed /\ renderSnapshotItems(Pending)
      BY <2>1 DEF Subscribe
    <3> QED BY <3>1, RenderedPage, FeedAssumption DEF Inv, Types, PageOK
  <2>2. CASE Unsubscribe
    BY <2>2, FeedAssumption DEF Unsubscribe, Inv, Types, PageOK
  <2>3. CASE ReadPending
    BY <2>3, <1>2 DEF ReadPending, Inv, Types, PageOK
  <2>4. CASE PipelineSnapshot
    <3>1. UNCHANGED feed /\ listed' = NoPoll /\ renderSnapshotItems(listed)
      BY <2>4 DEF PipelineSnapshot
    <3> QED BY <3>1, RenderedPage DEF Inv, Types, PageOK
  <2>5. CASE onPipelineEvent
    <3>1. PICK e : e = Head(feed)
      OBVIOUS
    <3>2. /\ feed # <<>> /\ feed' = Tail(feed) /\ UNCHANGED listed
          /\ page' = [page EXCEPT ![e.book] = IF e.kind \in Final THEN "none" ELSE e.kind]
      BY <2>5, <3>1 DEF onPipelineEvent
    <3>3. /\ feed \in Seq(FeedEvent) /\ Len(feed) <= FeedCap
          /\ page \in [Books -> Running \cup Waiting \cup {"none"}]
      BY DEF Inv, Types, PageOK
    <3>4. e \in FeedEvent /\ feed' \in Seq(FeedEvent) /\ Len(feed') = Len(feed) - 1
      BY <3>1, <3>2, <3>3, HeadTailProperties
    <3>5. Len(feed') <= FeedCap
      BY <3>2, <3>3, <3>4, FeedAssumption, LenProperties
    <3>6. page' \in [Books -> Running \cup Waiting \cup {"none"}]
      <4>1. (IF e.kind \in Final THEN "none" ELSE e.kind) \in Running \cup Waiting \cup {"none"}
        BY <3>4 DEF FeedEvent
      <4> QED BY <3>2, <3>3, <4>1
    <3> QED BY <3>2, <3>4, <3>5, <3>6 DEF Inv, Types, PageOK
  <2> QED BY <2>1, <2>2, <2>3, <2>4, <2>5 DEF Subscriber
<1>4. RowsOK' /\ OutOK'
  BY <1>1 DEF Inv, Types, RowsOK, OutOK, pipeline
<1> QED BY <1>1, <1>3, <1>4, StillStep DEF pipeline, maps

-----------------------------------------------------------------------------
(* The theorem *)

(* Nothing is queued, and no card is there, when the process starts.       *)
LEMMA Initially == Init => Inv
<1> SUFFICES ASSUME Init PROVE Inv
  OBVIOUS
<1>1. \A w \in Emitters : job[w] = Free
  BY Pools DEF Init
<1>2. Types
  <2>1. JobsOK
    BY <1>1, Pools DEF Init, JobsOK, Fits, Free
  <2>2. QueuesOK /\ PageOK
    BY NoQueue, FeedAssumption DEF Init, QueuesOK, PageOK
  <2> QED BY <2>1, <2>2 DEF Init, Types, RowsOK, Rows, MapsOK, OutOK
<1>3. ToSet(decryptQueue) = {} /\ ToSet(processQueue) = {}
      /\ Distinct(decryptQueue) /\ Distinct(processQueue)
  BY NoQueue DEF Init
<1>4. Items
  BY <1>1, <1>3, Pools DEF Items, Holds, Free
<1>5. ASSUME NEW b \in Books PROVE Cards(b)
  <2>1. \A v \in Emitters : ~Has(v, b) /\ ~Begins(v, b)
    BY <1>1 DEF Has, Begins, Free
  <2>2. Alone(b) /\ AtWork(b) /\ ~Held(b)
    BY <2>1 DEF Alone, AtWork, Held
  <2>3. ~QD(b) /\ ~QP(b)
    BY <1>3, <2>1, Pools DEF QD, QP
  <2>4. Shows(b, "none", FALSE, FALSE)
    BY DEF Init, Shows
  <2> QED BY <2>2, <2>3, <2>4 DEF Cards, Lags, Told, Shows
<1> QED BY <1>2, <1>4, <1>5 DEF Inv

(* Every step keeps the invariant.                                         *)
LEMMA EveryStep == Inv /\ [Next]_vars => Inv'
<1> SUFFICES ASSUME Inv, [Next]_vars PROVE Inv'
  OBVIOUS
<1>1. CASE UNCHANGED vars
  <2>1. UNCHANGED <<rows, decryptQueue, processQueue, job, maps, out, subscriber, skewed>>
    BY <1>1 DEF vars, pipeline
  <2>2. RowsOK' /\ OutOK' /\ PageOK'
    BY <2>1 DEF Inv, Types, RowsOK, OutOK, PageOK, subscriber
  <2> QED BY <2>1, <2>2, StillStep DEF maps
<1>2. CASE Stages
  <2>1. ASSUME NEW w \in DownloadWorkers, GetNextPendingDownload(w) \/ handleDownloadStage(w)
        PROVE  Inv'
    BY <2>1, StepGetNextPendingDownload, StepHandleDownloadStage
  <2>2. ASSUME NEW w \in DecryptWorkers,
               decryptWorker(w) \/ handleDecryptStage(w) \/ EnrichDone(w)
        PROVE  Inv'
    BY <2>2, StepDecryptWorker, StepHandleDecryptStage, StepEnrichDone
  <2>3. ASSUME NEW w \in ProcessWorkers,
               \/ processWorker(w) \/ handleProcessStage(w)
               \/ MarkComplete(w) \/ EmitComplete(w)
        PROVE  Inv'
    BY <2>3, StepProcessWorker, StepHandleProcessStage, StepMarkComplete, StepEmitComplete
  <2>4. ASSUME NEW w \in Workers,
               \/ Progress(w) \/ Through(w) \/ SendToDecrypt(w) \/ SendToProcess(w)
               \/ TellWaiting(w) \/ failItem(w) \/ Abandon(w)
        PROVE  Inv'
    BY <2>4, Pools, StepProgress, StepThrough, StepSendToDecrypt, StepSendToProcess,
       StepTellWaiting, StepFailItem, StepAbandon
  <2>5. ASSUME NEW w \in Converters,
               (\E b \in Books : ConvertBook(w, b)) \/ Progress(w) \/ EndConvert(w)
        PROVE  Inv'
    BY <2>5, Pools, StepConvertBook, StepProgress, StepEndConvert
  <2>6. ASSUME NEW w \in Emitters, Send(w)
        PROVE  Inv'
    BY <2>6, StepSend
  <2> QED BY <1>2, <2>1, <2>2, <2>3, <2>4, <2>5, <2>6 DEF Stages
<1>3. CASE Subscriber
  BY <1>3, StepSubscriber
<1>4. CASE Stop
  BY <1>4, StepStop
<1>5. CASE Start
  BY <1>5, StepStart
<1>6. CASE \E b \in Books, st \in {"pending", "reorganize"} : QueueBook(b, st)
  BY <1>6, StepQueueBook
<1> QED BY <1>1, <1>2, <1>3, <1>4, <1>5, <1>6 DEF Next

(* The view has a place for every card and an emitter never waits for a    *)
(* subscriber (download.go, emit): a channel never holds more than it can  *)
(* take, however many books, workers and conversions emit.                 *)
THEOREM FeedTyped == Spec => []FeedTypeOK
<1>1. Inv => FeedTypeOK
  BY TypesImply DEF Inv
<1> QED BY <1>1, Initially, EveryStep, PTL DEF Spec

(* The cards of a book tell where it is in the pipeline (download.go,      *)
(* updatePipelineState; pipeline_stages.go), however the stages of many    *)
(* books, conversions, failures, stops and new starts interleave, except   *)
(* where CardsTell says.                                                   *)
THEOREM FeedTells == Spec => []CardsTell
BY CardsImply, Initially, EveryStep, PTL DEF Spec
=============================================================================
