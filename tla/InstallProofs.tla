---------------------------- MODULE InstallProofs ----------------------------
(***************************************************************************)
(* Proofs about an installation: InstallTypeOK, DatabaseKept, SettledWell  *)
(* and SomeoneCanSignIn hold for any number of requests, any forms,        *)
(* backups and earlier databases, and any budget.                          *)
(*                                                                         *)
(* Inv has five parts.  Types, with AllFit, are the types and what each    *)
(* request knows from the steps it still has to do; Kept is about the      *)
(* files of the one restore there is while no two met; Secure is about who *)
(* can sign in while no reset met another request or was cut; Back and     *)
(* Follow are about what is still owed to pipeline, scheduler and wizard,  *)
(* and by which request.  Each group of steps has lemmas that say what it  *)
(* must show to keep a part it is not about, and each step a lemma of its  *)
(* own.                                                                    *)
(***************************************************************************)
EXTENDS Install, FiniteSetTheorems, SequenceTheorems, TLAPS

Ops   == {"save", "finish", "skip", "again", "admin", "noadmin", "method", "password",
          "oidc", "callback", "reset", "restore", "restart"}
Steps == DBSteps \cup {"autolive", "read", "cron", "formatlive", "mirror", "stop", "wait",
                       "start", "upload", "validate", "close", "aside", "install",
                       "rollback", "signal"}

(* After step x, a request of kind k may go on with step y, or be over.    *)
(* What a request still has to do is a list of steps each of which may     *)
(* follow the one before; only its beginning needs the whole list.         *)
Follows(k, x, y) ==
    \/ /\ k = "save"
       /\ \/ x = "sched" /\ y = "on"
          \/ x = "on" /\ y = "auto"
          \/ x = "auto" /\ y = "autolive"
          \/ x = "autolive" /\ y = "read"
          \/ x = "read" /\ y = "cron"
          \/ x = "cron" /\ y = "format"
          \/ x = "format" /\ y = "formatlive"
    \/ k \in {"finish", "skip", "again"} /\ x = "onboarded" /\ y = "mirror"
    \/ k = "finish" /\ x = "mirror" /\ y = "choice"
    \/ k = "finish" /\ x = "choice" /\ y = "autolive"
    \/ k \in {"admin", "password", "callback"} /\ x = "find" /\ y = "upsert"
    \/ k \in {"admin", "password"} /\ x = "upsert" /\ y = "method"
    \/ k = "admin" /\ x = "method" /\ y = "require"
    \/ k = "method" /\ x = "count" /\ y = "ready"
    \/ k = "method" /\ x = "ready" /\ y = "method"
    \/ k = "method" /\ x = "method" /\ y = "required"
    \/ k = "oidc" /\ x = "sso" /\ y = "client"
    \/ k = "callback" /\ x = "ready" /\ y = "find"
    \/ k \in {"reset", "restore"} /\ x = "stop" /\ y = "wait"
    \/ /\ k = "reset"
       /\ \/ x = "wait" /\ y = "users"
          \/ x = "users" /\ y = "settings"
          \/ x = "settings" /\ y = "others"
          \/ x = "others" /\ y = "start"
          \/ x = "start" /\ y = "mirror"
    \/ /\ k = "restore"
       /\ \/ x = "upload" /\ y = "validate"
          \/ x = "validate" /\ y = "stop"
          \/ x = "wait" /\ y = "close"
          \/ x = "close" /\ y = "aside"
          \/ x = "aside" /\ y = "install"
          \/ x \in {"install", "rollback"} /\ y = "signal"
Ends(k, x) ==
    \/ k = "save" /\ x = "formatlive"
    \/ k = "finish" /\ x = "autolive"
    \/ k \in {"skip", "again"} /\ x = "mirror"
    \/ k = "admin" /\ x = "require"
    \/ k = "noadmin" /\ x = "method"
    \/ k = "method" /\ x = "required"
    \/ k = "password" /\ x \in {"upsert", "method"}
    \/ k = "oidc" /\ x = "client"
    \/ k = "callback" /\ x = "upsert"
    \/ k = "reset" /\ x \in {"start", "mirror"}
    \/ k \in {"restore", "restart"} /\ x = "signal"
Planned(k, t) ==
    t # <<>> => /\ Ends(k, t[Len(t)])
                /\ \A i \in 1..(Len(t) - 1) : Follows(k, t[i], t[i + 1])

Now(l) == Head(l.todo)
Is(l, x) == l.todo # <<>> /\ Head(l.todo) = x

-----------------------------------------------------------------------------
(* Types *)

Files == Database \cup {NoDB, BadDB}
Local == [op : Ops \cup {"none"}, todo : Seq(Steps), form : Database,
          changed : SUBSET {"sched", "on", "auto"}, seen : BOOLEAN,
          upload : Backups \cup {NoDB, BadDB}, copy : Int]
Live  == [cron : BOOLEAN, auto : {"yes", "no"}, format : {"m4b", "mp3"}, onboarded : BOOLEAN]

(* A database that the program has run with has a number of its own.       *)
Numbers == {0} \cup lived
Data ==
    /\ db \in Files /\ staged \in Files /\ now \in Nat
    /\ DOMAIN safe \subseteq 1..now /\ \A t \in DOMAIN safe : safe[t] \in Database \cup {BadDB}
    /\ up \in BOOLEAN /\ open \in BOOLEAN /\ running \in BOOLEAN /\ exiting \in BOOLEAN
    /\ live \in Live /\ IsFiniteSet(lived) /\ lived = 1..Cardinality(lived)
    /\ (open => up) /\ (running => up) /\ (exiting => up)
    /\ (up => now > 0 /\ lived # {}) /\ (open => db \in Database)
    /\ db \in Database => db.id \in Numbers
    /\ staged \in Database => staged.id = 0
    /\ \A t \in DOMAIN safe : safe[t] \in Database => safe[t].id \in Numbers
Types == Data /\ req \in [Requests -> Local]

(* What is known of a request from what it still has to do.  A restore has *)
(* closed the database before it moves a file, and a reset that only       *)
(* starts the pipeline again has failed.                                   *)
Fits(l) ==
    /\ l.todo = <<>> => l = Closed
    /\ Planned(l.op, l.todo)
    /\ l.todo # <<>> =>
          /\ up /\ l.op # "none"
          /\ l.op \in {"save", "finish"} => l.form.auto # ""
          /\ l.op = "save" => l.form.format # "" /\ l.form.on # ""
          /\ l.op = "reset" => ~l.form.onboarded
          /\ l.op = "reset" /\ Now(l) # "start" => l.todo[Len(l.todo)] = "mirror"
          /\ Now(l) \in {"aside", "install", "rollback"} => ~open
AllFit == \A r \in Requests : Fits(req[r])

-----------------------------------------------------------------------------
(* The files *)

(* As long as no two restores met: one restore at most is in progress, on  *)
(* an open database until it closes it; a validated upload stays; a        *)
(* database that is not in its place was put aside by the restore that has *)
(* still to install or roll back; and no safety copy has the name that the *)
(* next one can get.                                                       *)
Restores(l) ==
    l.op = "restore" /\ l.todo # <<>> =>
       /\ Now(l) \in {"upload", "validate", "stop", "wait", "close"} => open
       /\ Now(l) \in {"stop", "wait", "close", "aside", "install"} => staged \in Database
       /\ Now(l) \in {"install", "rollback"} =>
             db = NoDB /\ (l.copy \in DOMAIN safe \/ "torn" \in excused)
Replaces(l) == Is(l, "install") \/ Is(l, "rollback")
Kept ==
    "twice" \notin excused =>
       /\ \A i \in lived : db.id = i \/ \E t \in DOMAIN safe : safe[t].id = i
       /\ db # BadDB /\ \A t \in DOMAIN safe : safe[t] # BadDB
       /\ \A r, q \in Requests : req[r].op = "restore" /\ req[q].op = "restore" => r = q
       /\ \A r \in Requests : Restores(req[r])
       /\ open \/ (\E r \in Requests : Is(req[r], "aside")) => now \notin DOMAIN safe
       /\ db = NoDB => \/ "torn" \in excused \/ lived = {}
                       \/ \E r \in Requests : Replaces(req[r])
       /\ "anew" \in excused => "torn" \in excused

-----------------------------------------------------------------------------
(* Who can sign in *)

(* In a database that asks for a password somebody can sign in, but for    *)
(* one that a reset is about to take the settings from; and a request that *)
(* is about to update a user, or to ask for a password, goes by what it    *)
(* has read, which stays true as long as the database is open.             *)
Safe(d) == d \in Database /\ d.method = "forms" => Way(d)
Asks(l) ==
    \/ Is(l, "upsert") /\ l.seen
    \/ Is(l, "method") /\ l.form.method = "forms"
Trusts(l, d) ==
    /\ Is(l, "upsert") /\ l.seen => d.user
    /\ Is(l, "method") /\ l.form.method = "forms" => Way(d)
Secure ==
    excused \cap {"crossed", "cut", "off"} = {} =>
       /\ \A r, q \in Requests : req[r].op = "reset" /\ req[q] # Closed => r = q
       /\ Safe(staged) /\ \A t \in DOMAIN safe : Safe(safe[t])
       /\ Safe(db) \/ \E r \in Requests : Is(req[r], "settings")
       /\ \A r \in Requests : open => Trusts(req[r], db)

-----------------------------------------------------------------------------
(* What is owed *)

(* Whoever stops the pipeline will start it or end the process, and        *)
(* whoever closes the database will end the process.                       *)
WillEnd(l) ==
    /\ l.op = "restore" /\ l.todo # <<>>
    /\ Now(l) \in {"aside", "install", "rollback", "signal"}
WillStart(l) ==
    \/ WillEnd(l)
    \/ /\ l.op = "restore" /\ l.todo # <<>> /\ Now(l) \in {"wait", "close"}
    \/ /\ l.op = "reset" /\ l.todo # <<>>
       /\ Now(l) \in {"wait", "users", "settings", "others", "start"}
Back ==
    up /\ ~exiting =>
       /\ running \/ \E r \in Requests : WillStart(req[r])
       /\ open \/ \E r \in Requests : WillEnd(req[r])

(* What a request has still to bring to the program.                       *)
OwesAuto(l)   == Is(l, "autolive") /\ "auto" \in l.changed
OwesFormat(l) == Is(l, "formatlive")
OwesCron(l)   ==
    \/ /\ Is(l, "on") \/ Is(l, "auto") \/ (Is(l, "autolive") /\ l.op = "save") \/ Is(l, "read")
       /\ l.changed \cap {"sched", "on"} # {}
    \/ Is(l, "cron")
OwesPage(l)   ==
    \/ Is(l, "mirror")
    \/ l.op = "reset" /\ (Is(l, "others") \/ (Is(l, "start") /\ Tail(l.todo) # <<>>))
Owing(l) ==
    /\ OwesAuto(l) => db.auto = l.form.auto
    /\ OwesFormat(l) => db.format = l.form.format
    /\ Is(l, "cron") => l.seen = Scheduled(db)
    /\ OwesPage(l) => db.onboarded = l.form.onboarded
    /\ Is(l, "sched") \/ Is(l, "on") \/ Is(l, "auto") => "auto" \notin l.changed

(* As long as no two requests wrote settings at once and no step failed    *)
(* without a word, on an open database: the program goes by what the       *)
(* database says, or the one request that writes settings will bring it.   *)
Follow ==
    open /\ excused \cap {"race", "slip"} = {} =>
       /\ \A r, q \in Requests : req[r].op \in Writers /\ req[q].op \in Writers => r = q
       /\ \A r \in Requests : Owing(req[r])
       /\ db.auto # "" => live.auto = db.auto \/ \E r \in Requests : OwesAuto(req[r])
       /\ db.format # "" => live.format = db.format \/ \E r \in Requests : OwesFormat(req[r])
       /\ db.on # "" => live.cron = Scheduled(db) \/ \E r \in Requests : OwesCron(req[r])
       /\ live.onboarded = db.onboarded \/ \E r \in Requests : OwesPage(req[r])

(* The inductive invariant.                                                *)
Inv == Types /\ AllFit /\ Kept /\ Secure /\ Back /\ Follow

-----------------------------------------------------------------------------
(* Databases and requests *)

(* No file and a file that is no database are not taken for databases.     *)
LEMMA NoFile ==
    /\ NoDB \notin Database /\ BadDB \notin Database /\ NoDB # BadDB
    /\ NoDB.id = -1 /\ BadDB.id = -2
<1>1. \A d \in Database : d.id \in Nat
  BY DEF Database
<1>2. NoDB.id = -1 /\ BadDB.id = -2
  BY DEF NoDB, BadDB
<1> QED BY <1>1, <1>2

(* The fields of a database.                                               *)
LEMMA DBIs ==
    ASSUME NEW d \in Database
    PROVE  /\ d.method \in {"", "none", "forms"} /\ d.sched \in {"", "daily"}
           /\ d.on \in Answers /\ d.auto \in Answers /\ d.format \in Formats /\ d.id \in Nat
           /\ d.user \in BOOLEAN /\ d.required \in {"", "enabled", "localhost"}
           /\ d.onboarded \in BOOLEAN /\ d.sso \in BOOLEAN /\ d.client \in BOOLEAN
BY DEF Database

(* A database without settings is one.                                     *)
LEMMA EmptyIs ==
    /\ Empty \in Database /\ Empty.id = 0 /\ Empty.user = FALSE /\ Empty.onboarded = FALSE
    /\ Empty.method = "" /\ Empty.auto = "" /\ Empty.format = "" /\ Empty.on = ""
BY DEF Empty, Database, Answers, Formats

(* A request that is over.                                                 *)
LEMMA ClosedIs ==
    /\ Closed \in Local /\ Closed.op = "none" /\ Closed.todo = <<>>
<1>1. <<>> \in Seq(Steps) /\ {} \in SUBSET {"sched", "on", "auto"} /\ -1 \in Int
  OBVIOUS
<1> QED BY <1>1, EmptyIs DEF Closed, Local

(* What is known of the locals of a request.                               *)
LEMMA LocalIs ==
    ASSUME NEW l \in Local
    PROVE  /\ l.op \in Ops \cup {"none"} /\ l.todo \in Seq(Steps) /\ l.form \in Database
           /\ l.changed \subseteq {"sched", "on", "auto"} /\ l.seen \in BOOLEAN
           /\ l.upload \in Backups \cup {NoDB, BadDB} /\ l.copy \in Int
BY DEF Local

-----------------------------------------------------------------------------
(* The steps of a request *)

(* What is left of a plan once its first step is done is a plan, which     *)
(* begins with a step that may follow and ends as it did.                  *)
LEMMA TailPlanned ==
    ASSUME NEW k, NEW t \in Seq(Steps), t # <<>>, Planned(k, t)
    PROVE  /\ Tail(t) \in Seq(Steps) /\ Head(t) \in Steps
           /\ Planned(k, Tail(t))
           /\ Tail(t) = <<>> => Ends(k, Head(t)) /\ t[Len(t)] = Head(t)
           /\ Tail(t) # <<>> => /\ Follows(k, Head(t), Head(Tail(t)))
                                /\ Tail(t)[Len(Tail(t))] = t[Len(t)]
<1>1. /\ Tail(t) \in Seq(Steps) /\ Len(Tail(t)) = Len(t) - 1 /\ Head(t) \in Steps
      /\ Len(t) \in Nat \ {0} /\ Head(t) = t[1]
      /\ \A i \in 1..Len(Tail(t)) : Tail(t)[i] = t[i + 1]
  OBVIOUS
<1>2. Ends(k, t[Len(t)]) /\ \A i \in 1..(Len(t) - 1) : Follows(k, t[i], t[i + 1])
  BY DEF Planned
<1>3. CASE Tail(t) = <<>>
  <2>1. Len(t) = 1
    BY <1>1, <1>3
  <2> QED BY <1>1, <1>2, <1>3, <2>1 DEF Planned
<1>4. CASE Tail(t) # <<>>
  <2>1. Len(Tail(t)) >= 1 /\ Head(Tail(t)) = Tail(t)[1]
    BY <1>1, <1>4
  <2>2. Tail(t)[1] = t[2] /\ Follows(k, t[1], t[2])
    <3>1. 1 \in 1..(Len(t) - 1) /\ 1 \in 1..Len(Tail(t))
      BY <1>1, <2>1
    <3> QED BY <1>1, <1>2, <3>1
  <2>3. Tail(t)[Len(Tail(t))] = t[Len(t)]
    BY <1>1, <2>1
  <2>4. ASSUME NEW i \in 1..(Len(Tail(t)) - 1)
        PROVE  Follows(k, Tail(t)[i], Tail(t)[i + 1])
    <3>1. i \in 1..Len(Tail(t)) /\ i + 1 \in 1..Len(Tail(t)) /\ i + 1 \in 1..(Len(t) - 1)
      BY <1>1
    <3>2. Tail(t)[i] = t[i + 1] /\ Tail(t)[i + 1] = t[i + 1 + 1]
      BY <1>1, <3>1
    <3>3. Follows(k, t[i + 1], t[i + 1 + 1])
      BY <1>2, <3>1
    <3> QED BY <3>2, <3>3
  <2>5. Planned(k, Tail(t))
    BY <1>2, <2>3, <2>4 DEF Planned
  <2> QED BY <1>1, <1>4, <2>1, <2>2, <2>3, <2>5
<1> QED BY <1>3, <1>4

(* A step that may be followed by the first one of a plan makes a longer   *)
(* plan.                                                                   *)
LEMMA PairPlanned ==
    ASSUME NEW k, NEW x \in Steps, NEW t \in Seq(Steps), t # <<>>, Planned(k, t),
           Follows(k, x, Head(t)), NEW u, u = <<x>> \o t
    PROVE  u \in Seq(Steps) /\ u # <<>> /\ Head(u) = x /\ Planned(k, u)
<1>1. u \in Seq(Steps) /\ Len(u) = Len(t) + 1 /\ u[1] = x /\ Head(u) = x /\ Len(t) \in Nat \ {0}
      /\ \A i \in 2..Len(u) : u[i] = t[i - 1]
  OBVIOUS
<1>2. u[Len(u)] = t[Len(t)] /\ u # <<>> /\ Head(t) = t[1]
  BY <1>1
<1>3. ASSUME NEW i \in 1..(Len(u) - 1)
      PROVE  Follows(k, u[i], u[i + 1])
  <2>1. CASE i = 1
    <3>1. u[i + 1] = t[1]
      BY <1>1, <2>1
    <3> QED BY <1>1, <1>2, <2>1, <3>1
  <2>2. CASE i # 1
    <3>1. u[i] = t[i - 1] /\ u[i + 1] = t[i] /\ i - 1 \in 1..(Len(t) - 1)
      BY <1>1, <2>2
    <3>2. Follows(k, t[i - 1], t[i - 1 + 1])
      BY <3>1 DEF Planned
    <3>3. i - 1 + 1 = i
      OBVIOUS
    <3> QED BY <3>1, <3>2, <3>3
  <2> QED BY <2>1, <2>2
<1>4. Ends(k, t[Len(t)])
  BY DEF Planned
<1>5. Planned(k, u)
  BY <1>2, <1>3, <1>4 DEF Planned
<1> QED BY <1>1, <1>2, <1>5

(* Whose step a step is, and how the request goes on: with some step, or   *)
(* not at all.                                                             *)
Goes(k, x, t) == (t = <<>> /\ Ends(k, x)) \/ (t # <<>> /\ Follows(k, x, Head(t)))
LEMMA Owners ==
    ASSUME NEW l \in Local, Planned(l.op, l.todo), l.todo # <<>>
    PROVE  /\ Goes(l.op, Now(l), Tail(l.todo))
           /\ Now(l) \in {"sched", "on", "auto", "read", "cron", "format", "formatlive"} =>
                 l.op = "save"
           /\ Now(l) = "autolive" => l.op \in {"save", "finish"}
           /\ Now(l) = "choice" => l.op = "finish"
           /\ Now(l) = "onboarded" => l.op \in {"finish", "skip", "again"}
           /\ Now(l) = "mirror" => l.op \in {"finish", "skip", "again", "reset"}
           /\ Now(l) \in {"find", "upsert"} => l.op \in {"admin", "password", "callback"}
           /\ Now(l) = "ready" => l.op \in {"method", "callback"}
           /\ Now(l) \in {"sso", "client"} => l.op = "oidc"
           /\ Now(l) \in {"count", "required"} => l.op = "method"
           /\ Now(l) = "method" => l.op \in {"admin", "noadmin", "method", "password"}
           /\ Now(l) = "require" => l.op = "admin"
           /\ Now(l) \in {"stop", "wait"} => l.op \in {"reset", "restore"}
           /\ Now(l) \in {"users", "settings", "others", "start"} => l.op = "reset"
           /\ Now(l) \in {"upload", "validate", "close", "aside", "install", "rollback"} =>
                 l.op = "restore"
           /\ Now(l) = "signal" => l.op \in {"restore", "restart"}
<1>1. Planned(l.op, l.todo) /\ l.todo \in Seq(Steps)
  BY LocalIs
<1>2. Goes(l.op, Now(l), Tail(l.todo))
  BY <1>1, TailPlanned DEF Goes, Now
<1>3. Ends(l.op, Now(l)) \/ Follows(l.op, Now(l), Head(Tail(l.todo)))
  BY <1>2 DEF Goes
<1>4. PICK k, x, y : k = l.op /\ x = Now(l) /\ y = Head(Tail(l.todo))
  OBVIOUS
<1>5. Ends(k, x) \/ Follows(k, x, y)
  BY <1>3, <1>4
<1> HIDE <1>3
<1> QED BY <1>2, <1>4, <1>5 DEF Ends, Follows

(* The locals that a request goes on with.                                 *)
LEMMA NextLocal ==
    ASSUME NEW r \in Requests, NEW n \in Local, NEW t \in Seq(Steps), Then(r, t, n)
    PROVE  \E m \in Local :
              /\ req' = [req EXCEPT ![r] = m]
              /\ t = <<>> => m = Closed
              /\ t # <<>> => /\ m.todo = t /\ m.op = n.op /\ m.form = n.form
                             /\ m.changed = n.changed /\ m.seen = n.seen
                             /\ m.upload = n.upload /\ m.copy = n.copy
<1>1. CASE t = <<>>
  <2>1. req' = [req EXCEPT ![r] = Closed]
    BY <1>1 DEF Then
  <2> QED BY <1>1, <2>1, ClosedIs
<1>2. CASE t # <<>>
  <2>1. PICK m : m = [n EXCEPT !.todo = t]
    OBVIOUS
  <2>2. m \in Local /\ m.todo = t /\ m.op = n.op /\ m.form = n.form /\ m.changed = n.changed
        /\ m.seen = n.seen /\ m.upload = n.upload /\ m.copy = n.copy
    BY <2>1 DEF Local
  <2>3. req' = [req EXCEPT ![r] = m]
    BY <1>2, <2>1 DEF Then
  <2> QED BY <1>2, <2>2, <2>3
<1> QED BY <1>1, <1>2

(* Request r goes on from l to m, while the program runs and nothing that  *)
(* was excused before is forgotten.                                        *)
Moves(r, l, m) ==
    /\ l = req[r] /\ l \in Local /\ l.todo # <<>> /\ m \in Local
    /\ req' = [req EXCEPT ![r] = m]
    /\ m = Closed \/ (m.op = l.op /\ m.todo # <<>>)
    /\ up' = up /\ (open' => open)
    /\ excused \subseteq excused' /\ ("anew" \in excused' => "anew" \in excused)

(* It is over, or goes on with the next step, knowing what n does.         *)
GoesOn(l, n, m) ==
    \/ m = Closed /\ Ends(l.op, Now(l))
    \/ /\ m.todo # <<>> /\ m.op = l.op /\ Follows(l.op, Now(l), Now(m))
       /\ m.form = l.form /\ m.upload = l.upload
       /\ m.changed = n.changed /\ m.seen = n.seen /\ m.copy = n.copy

(* A step that takes a request from l to m leaves the others.              *)
LEMMA OthersStay ==
    ASSUME Types, NEW r \in Requests, NEW l, NEW m, Moves(r, l, m)
    PROVE  /\ req'[r] = m /\ m \in Local /\ req' \in [Requests -> Local]
           /\ \A q \in Requests \ {r} : req'[q] = req[q]
           /\ \A q \in Requests : req'[q] \in Local
<1>1. req \in [Requests -> Local] /\ req' = [req EXCEPT ![r] = m] /\ m \in Local
  BY DEF Types, Moves
<1> QED BY <1>1

(* A request goes on with a plan, knowing what n does.                     *)
LEMMA PlanTaken ==
    ASSUME Inv, NEW r \in Requests, NEW l, l = req[r], l.todo # <<>>, NEW n \in Local,
           n.op = l.op, n.form = l.form, n.upload = l.upload,
           NEW t \in Seq(Steps), Planned(l.op, t), Then(r, t, n),
           t # <<>> /\ l.op = "reset" /\ Head(t) # "start" => t[Len(t)] = "mirror",
           t # <<>> /\ Head(t) \in {"aside", "install", "rollback"} => ~open',
           up' = up, open' => open,
           excused \subseteq excused', "anew" \in excused' => "anew" \in excused
    PROVE  \E m \in Local :
              /\ Moves(r, l, m) /\ Fits(m)'
              /\ t = <<>> => m = Closed
              /\ t # <<>> => /\ m.todo = t /\ Now(m) = Head(t) /\ m.op = l.op
                             /\ m.form = l.form /\ m.upload = l.upload
                             /\ m.changed = n.changed /\ m.seen = n.seen /\ m.copy = n.copy
<1>1. l \in Local /\ Fits(l)
  BY DEF Inv, Types, AllFit
<1>2. PICK m \in Local :
         /\ req' = [req EXCEPT ![r] = m]
         /\ t = <<>> => m = Closed
         /\ t # <<>> => /\ m.todo = t /\ m.op = n.op /\ m.form = n.form
                        /\ m.changed = n.changed /\ m.seen = n.seen
                        /\ m.upload = n.upload /\ m.copy = n.copy
  BY NextLocal
<1>3. Moves(r, l, m)
  BY <1>1, <1>2 DEF Moves
<1>4. Fits(m)'
  <2>1. CASE t = <<>>
    BY <1>2, <2>1, ClosedIs DEF Fits, Planned
  <2>2. CASE t # <<>>
    <3>1. m.todo = t /\ m.op = l.op /\ m.form = l.form /\ Now(m) = Head(t)
      BY <1>2, <2>2 DEF Now
    <3>2. up /\ l.op # "none" /\ (l.op \in {"save", "finish"} => l.form.auto # "")
          /\ (l.op = "save" => l.form.format # "" /\ l.form.on # "")
          /\ (l.op = "reset" => ~l.form.onboarded)
      BY <1>1 DEF Fits
    <3> QED BY <2>2, <3>1, <3>2 DEF Fits
  <2> QED BY <2>1, <2>2
<1> QED BY <1>2, <1>3, <1>4 DEF Now

(* What is left of the plan of a request.                                  *)
LEMMA Leaves ==
    ASSUME Inv, NEW r \in Requests, NEW l, l = req[r], l.todo # <<>>, NEW t, t = Tail(l.todo)
    PROVE  /\ t \in Seq(Steps) /\ Planned(l.op, t) /\ Goes(l.op, Now(l), t)
           /\ t # <<>> => t[Len(t)] = l.todo[Len(l.todo)]
           /\ t # <<>> /\ l.op = "reset" => t[Len(t)] = "mirror"
<1>1. l \in Local /\ Fits(l)
  BY DEF Inv, Types, AllFit
<1>2. Planned(l.op, l.todo) /\ l.todo \in Seq(Steps)
  BY <1>1, LocalIs DEF Fits
<1>3. /\ t \in Seq(Steps) /\ Planned(l.op, t) /\ Goes(l.op, Now(l), t)
      /\ t # <<>> => t[Len(t)] = l.todo[Len(l.todo)]
  BY <1>1, <1>2, TailPlanned, Owners
<1>4. ASSUME t # <<>>, l.op = "reset" PROVE t[Len(t)] = "mirror"
  <2>1. CASE Now(l) # "start"
    BY <1>1, <1>3, <1>4, <2>1 DEF Fits
  <2>2. CASE Now(l) = "start"
    <3>1. Head(t) = "mirror"
      BY <1>3, <1>4, <2>2 DEF Goes, Follows
    <3>2. PICK k : k = Len(t)
      OBVIOUS
    <3>3. k \in Nat \ {0} /\ Head(t) = t[1]
      BY <1>3, <1>4, <3>2
    <3>4. k # 1 => 1 \in 1..(k - 1)
      BY <3>3
    <3>5. \A i \in 1..(k - 1) : Follows(l.op, t[i], t[i + 1])
      BY <1>3, <1>4, <3>2 DEF Planned
    <3>6. ~Follows(l.op, "mirror", t[1 + 1])
      BY <1>4 DEF Follows
    <3> QED BY <3>1, <3>2, <3>3, <3>4, <3>5, <3>6
  <2> QED BY <2>1, <2>2
<1> QED BY <1>3, <1>4

(* A request goes on with what is left of its plan.                        *)
LEMMA Taken ==
    ASSUME Inv, NEW r \in Requests, NEW l, l = req[r], l.todo # <<>>, NEW n \in Local,
           n.op = l.op, n.form = l.form, n.upload = l.upload, Learn(r, n),
           up' = up, open' => open, Now(l) = "close" => ~open',
           excused \subseteq excused', "anew" \in excused' => "anew" \in excused
    PROVE  \E m \in Local :
              /\ Moves(r, l, m) /\ GoesOn(l, n, m) /\ Fits(m)'
              /\ m = Closed <=> Tail(l.todo) = <<>>
              /\ m # Closed => m.todo = Tail(l.todo)
<1>1. PICK t : t = Tail(l.todo)
  OBVIOUS
<1>2. /\ t \in Seq(Steps) /\ Planned(l.op, t) /\ Goes(l.op, Now(l), t)
      /\ t # <<>> /\ l.op = "reset" => t[Len(t)] = "mirror"
  BY <1>1, Leaves
<1>3. Then(r, t, n)
  BY <1>1 DEF Learn, Tail1
<1>4. t # <<>> /\ Head(t) \in {"aside", "install", "rollback"} => ~open'
  <2>1. t # <<>> /\ Head(t) \in {"aside", "install", "rollback"} =>
           Now(l) \in {"close", "aside"}
    BY <1>2 DEF Goes, Follows
  <2>2. Now(l) = "aside" => ~open
    BY DEF Inv, AllFit, Fits
  <2> QED BY <2>1, <2>2
<1>5. PICK m \in Local :
         /\ Moves(r, l, m) /\ Fits(m)'
         /\ t = <<>> => m = Closed
         /\ t # <<>> => /\ m.todo = t /\ Now(m) = Head(t) /\ m.op = l.op
                        /\ m.form = l.form /\ m.upload = l.upload
                        /\ m.changed = n.changed /\ m.seen = n.seen /\ m.copy = n.copy
  BY <1>2, <1>3, <1>4, PlanTaken
<1>6. GoesOn(l, n, m)
  BY <1>2, <1>5 DEF Goes, GoesOn
<1> QED BY <1>1, <1>5, <1>6, ClosedIs

(* A request goes on with what is left of its plan but for the step y.     *)
LEMMA Skipped ==
    ASSUME Inv, NEW r \in Requests, NEW l, l = req[r], l.todo # <<>>, NEW n \in Local,
           n.op = l.op, n.form = l.form, n.upload = l.upload, Then(r, Tail(Tail1(r)), n),
           NEW y, Tail(l.todo) # <<>>, Head(Tail(l.todo)) = y,
           l.op \notin {"reset", "restore"},
           up' = up, open' => open,
           excused \subseteq excused', "anew" \in excused' => "anew" \in excused
    PROVE  \E m \in Local :
              /\ Moves(r, l, m) /\ Fits(m)'
              /\ \/ m = Closed /\ Ends(l.op, y)
                 \/ /\ m.todo # <<>> /\ m.op = l.op /\ Follows(l.op, y, Now(m))
                    /\ m.form = l.form /\ m.changed = n.changed /\ m.seen = n.seen
<1>1. PICK t : t = Tail(l.todo)
  OBVIOUS
<1>2. t \in Seq(Steps) /\ Planned(l.op, t) /\ Goes(l.op, Now(l), t)
  BY <1>1, Leaves
<1>3. t # <<>> /\ Head(t) = y
  BY <1>1
<1>4. PICK u : u = Tail(t)
  OBVIOUS
<1>5. /\ u \in Seq(Steps) /\ Planned(l.op, u)
      /\ u = <<>> => Ends(l.op, y)
      /\ u # <<>> => Follows(l.op, y, Head(u))
  BY <1>2, <1>3, <1>4, TailPlanned
<1>6. Then(r, u, n)
  BY <1>1, <1>4 DEF Tail1
<1>7. u # <<>> => Head(u) \notin {"aside", "install", "rollback"}
  BY <1>5 DEF Follows
<1>8. PICK m \in Local :
         /\ Moves(r, l, m) /\ Fits(m)'
         /\ u = <<>> => m = Closed
         /\ u # <<>> => /\ m.todo = u /\ Now(m) = Head(u) /\ m.op = l.op
                        /\ m.form = l.form /\ m.upload = l.upload
                        /\ m.changed = n.changed /\ m.seen = n.seen /\ m.copy = n.copy
  BY <1>5, <1>6, <1>7, PlanTaken
<1> QED BY <1>5, <1>8

-----------------------------------------------------------------------------
(* What a step must show *)

(* The types and what is known of the requests, from the data and from     *)
(* what is known of the one that moves.                                    *)
LEMMA TypesMove ==
    ASSUME Types, AllFit, NEW r \in Requests, NEW l, NEW m, Moves(r, l, m), Data', Fits(m)'
    PROVE  Types' /\ AllFit'
<1>1. /\ req'[r] = m /\ req' \in [Requests -> Local]
      /\ \A q \in Requests \ {r} : req'[q] = req[q]
  BY OthersStay
<1>2. ASSUME NEW q \in Requests PROVE Fits(req[q])'
  <2>1. CASE q = r
    BY <1>1, <2>1
  <2>2. CASE q # r
    <3>1. PICK n : n = req[q] /\ n = req'[q]
      BY <1>1, <2>2
    <3>2. Fits(n)
      BY <3>1 DEF AllFit
    <3>3. up' = up /\ (open' => open)
      BY DEF Moves
    <3>4. up \in BOOLEAN /\ open \in BOOLEAN /\ open' \in BOOLEAN
      BY DEF Types, Data
    <3>5. Fits(n)'
      BY <3>2, <3>3, <3>4 DEF Fits
    <3> QED BY <3>1, <3>5
  <2> QED BY <2>1, <2>2
<1> QED BY <1>1, <1>2 DEF Types, AllFit

(* The owner of a step, for a request that is known of.                    *)
LEMMA RestoreOwns ==
    ASSUME NEW l \in Local, Planned(l.op, l.todo), l.op # "restore"
    PROVE  ~Is(l, "aside") /\ ~Replaces(l)
BY Owners DEF Is, Replaces, Now

(* The files, after a step of a request that is no restore and leaves      *)
(* every file in its place.                                                *)
LEMMA KeptOther ==
    ASSUME Types, AllFit, Kept, NEW r \in Requests, NEW l, NEW m, Moves(r, l, m), Fits(m)',
           l.op # "restore", UNCHANGED <<staged, safe, open, now, lived>>,
           db'.id = db.id, db' = NoDB <=> db = NoDB, db' = BadDB <=> db = BadDB
    PROVE  Kept'
<1> SUFFICES ASSUME "twice" \notin excused' PROVE Kept'
  BY DEF Kept
<1>1. /\ req'[r] = m /\ m \in Local
      /\ \A q \in Requests \ {r} : req'[q] = req[q]
  BY OthersStay
<1>2. /\ excused \subseteq excused' /\ ("anew" \in excused' => "anew" \in excused)
      /\ l = req[r] /\ l \in Local /\ (m = Closed \/ m.op = l.op)
  BY DEF Moves
<1>3. "twice" \notin excused
  BY <1>2
<1>4. m.op # "restore" /\ Planned(l.op, l.todo) /\ Planned(m.op, m.todo)
  BY <1>2, ClosedIs DEF AllFit, Fits
<1>5. ~Is(l, "aside") /\ ~Replaces(l) /\ ~Is(m, "aside") /\ ~Replaces(m)
  BY <1>1, <1>2, <1>4, RestoreOwns
<1>6. \A q \in Requests : (Is(req'[q], "aside") <=> Is(req[q], "aside"))
                          /\ (Replaces(req'[q]) <=> Replaces(req[q]))
                          /\ (req'[q].op = "restore" => req'[q] = req[q])
  BY <1>1, <1>2, <1>4, <1>5
<1>7. ASSUME NEW q \in Requests PROVE Restores(req[q])'
  <2>1. CASE req'[q].op # "restore"
    BY <2>1 DEF Restores
  <2>2. CASE req'[q].op = "restore"
    <3>1. req'[q] = req[q] /\ Restores(req[q])
      BY <1>3, <1>6, <2>2 DEF Kept
    <3>2. PICK n : n = req[q] /\ n = req'[q]
      BY <3>1
    <3>3. Restores(n)
      BY <3>1, <3>2
    <3>4. Restores(n)'
      BY <1>2, <3>3 DEF Restores
    <3> QED BY <3>2, <3>4
  <2> QED BY <2>1, <2>2
<1>8. \A q, u \in Requests : req'[q].op = "restore" /\ req'[u].op = "restore" => q = u
  BY <1>3, <1>6 DEF Kept
<1>9. open' \/ (\E q \in Requests : Is(req'[q], "aside")) => now' \notin DOMAIN safe'
  BY <1>3, <1>6 DEF Kept
<1>10. db' = NoDB => \/ "torn" \in excused' \/ lived' = {}
                     \/ \E q \in Requests : Replaces(req'[q])
  BY <1>2, <1>3, <1>6 DEF Kept
<1>11. /\ \A i \in lived' : db'.id = i \/ \E t \in DOMAIN safe' : safe'[t].id = i
       /\ db' # BadDB /\ \A t \in DOMAIN safe' : safe'[t] # BadDB
       /\ "anew" \in excused' => "torn" \in excused'
  BY <1>2, <1>3 DEF Kept
<1> HIDE DEF Restores, Is, Replaces
<1> QED BY <1>7, <1>8, <1>9, <1>10, <1>11 DEF Kept, Is, Replaces

(* What is known of the files at a step of a restore.                      *)
LEMMA RestoreFacts ==
    ASSUME Types, AllFit, Kept, NEW r \in Requests, NEW l, l = req[r], l.todo # <<>>,
           l.op = "restore", "twice" \notin excused
    PROVE  /\ \A i \in lived : db.id = i \/ \E t \in DOMAIN safe : safe[t].id = i
           /\ db # BadDB /\ \A t \in DOMAIN safe : safe[t] # BadDB
           /\ Restores(l) /\ \A q \in Requests \ {r} : req[q].op # "restore"
           /\ open \/ Is(l, "aside") => now \notin DOMAIN safe
           /\ db = NoDB => "torn" \in excused \/ lived = {} \/ Replaces(l)
<1>1. ASSUME NEW q \in Requests \ {r} PROVE req[q].op # "restore" /\ ~Replaces(req[q])
  <2>1. req[q].op # "restore"
    BY DEF Kept
  <2>2. req[q] \in Local /\ Planned(req[q].op, req[q].todo)
    BY DEF Types, AllFit, Fits
  <2> QED BY <2>1, <2>2, RestoreOwns
<1> QED BY <1>1 DEF Kept

(* The files, after a step of the only restore.                            *)
LEMMA KeptMine ==
    ASSUME Types, AllFit, Kept, NEW r \in Requests, NEW l, NEW m, Moves(r, l, m),
           l.op = "restore",
           "twice" \notin excused =>
              /\ \A i \in lived' : db'.id = i \/ \E t \in DOMAIN safe' : safe'[t].id = i
              /\ db' # BadDB /\ \A t \in DOMAIN safe' : safe'[t] # BadDB
              /\ Restores(m)'
              /\ open' \/ Is(m, "aside") => now' \notin DOMAIN safe'
              /\ db' = NoDB => "torn" \in excused' \/ lived' = {} \/ Replaces(m)
    PROVE  Kept'
<1> SUFFICES ASSUME "twice" \notin excused' PROVE Kept'
  BY DEF Kept
<1>1. /\ req'[r] = m /\ m \in Local
      /\ \A q \in Requests \ {r} : req'[q] = req[q]
  BY OthersStay
<1>2. /\ excused \subseteq excused' /\ ("anew" \in excused' => "anew" \in excused)
      /\ l = req[r] /\ l \in Local /\ (m = Closed \/ m.op = l.op) /\ l.todo # <<>>
  BY DEF Moves
<1>3. "twice" \notin excused
  BY <1>2
<1>4. ASSUME NEW q \in Requests \ {r}
      PROVE  req'[q].op # "restore" /\ ~Is(req'[q], "aside")
  <2>1. req[q].op # "restore" /\ req'[q] = req[q]
    BY <1>1, <1>2, <1>3, RestoreFacts
  <2>2. req[q] \in Local /\ Planned(req[q].op, req[q].todo)
    BY DEF Types, AllFit, Fits
  <2> QED BY <2>1, <2>2, RestoreOwns
<1>5. ASSUME NEW q \in Requests PROVE Restores(req[q])'
  <2>1. CASE q = r
    BY <1>1, <1>3, <2>1
  <2>2. CASE q # r
    BY <1>4, <2>2 DEF Restores
  <2> QED BY <2>1, <2>2
<1>6. \A q, u \in Requests : req'[q].op = "restore" /\ req'[u].op = "restore" => q = u
  BY <1>4
<1>7. open' \/ (\E q \in Requests : Is(req'[q], "aside")) => now' \notin DOMAIN safe'
  BY <1>1, <1>3, <1>4
<1>8. db' = NoDB => \/ "torn" \in excused' \/ lived' = {}
                    \/ \E q \in Requests : Replaces(req'[q])
  BY <1>1, <1>3
<1>9. "anew" \in excused' => "torn" \in excused'
  BY <1>2, <1>3 DEF Kept
<1> QED BY <1>3, <1>5, <1>6, <1>7, <1>8, <1>9 DEF Kept, Is, Replaces

(* Whoever asks for nothing trusts any database, whoever asks trusts one   *)
(* with a user, and trusts another one that has what the first one has.    *)
LEMMA Trusting ==
    ASSUME NEW l, NEW d
    PROVE  /\ ~Asks(l) => Trusts(l, d)
           /\ d.user => Way(d) /\ Trusts(l, d)
           /\ \A e : Trusts(l, d) /\ (d.user => e.user) /\ (Way(d) => Way(e)) => Trusts(l, e)
<1> HIDE DEF Is, Ready
<1> QED BY DEF Asks, Trusts, Way

(* Every file asks for a password only where somebody can sign in.         *)
AllSafe == Safe(db) /\ Safe(staged) /\ \A t \in DOMAIN safe : Safe(safe[t])

(* What is known of who can sign in, at a step of a request.               *)
LEMMA SecureFacts ==
    ASSUME Types, AllFit, Secure, NEW r \in Requests, NEW l, l = req[r], l.todo # <<>>,
           excused \cap {"crossed", "cut", "off"} = {}
    PROVE  /\ Safe(staged) /\ \A t \in DOMAIN safe : Safe(safe[t])
           /\ ~Is(l, "settings") => Safe(db)
           /\ open => Trusts(l, db)
           /\ l.op = "reset" => \A q \in Requests \ {r} : req[q] = Closed
           /\ \A q \in Requests : req[q].op = "reset" => q = r
<1>1. req[r] # Closed
  BY ClosedIs
<1>2. \A q \in Requests : req[q].op = "reset" => q = r
  BY <1>1 DEF Secure
<1>3. l.op = "reset" => \A q \in Requests \ {r} : req[q] = Closed
  BY DEF Secure
<1>4. ASSUME NEW q \in Requests, Is(req[q], "settings") PROVE q = r
  <2>1. req[q] \in Local /\ Planned(req[q].op, req[q].todo)
    BY DEF Types, AllFit, Fits
  <2>2. req[q].op = "reset"
    BY <1>4, <2>1, Owners DEF Is, Now
  <2> QED BY <1>2, <2>2
<1>5. ~Is(l, "settings") => Safe(db)
  BY <1>4 DEF Secure
<1> QED BY <1>2, <1>3, <1>5 DEF Secure

(* Who can sign in, after a step of a request that is no reset.            *)
LEMMA SecureOther ==
    ASSUME Types, AllFit, Secure, NEW r \in Requests, NEW l, NEW m, Moves(r, l, m), Fits(m)',
           l.op # "reset",
           excused' \cap {"crossed", "cut", "off"} = {} =>
              /\ AllSafe => AllSafe'
              /\ open' => /\ db.user => db'.user
                          /\ Way(db) => Way(db')
                          /\ Trusts(m, db')
    PROVE  Secure'
<1> SUFFICES ASSUME excused' \cap {"crossed", "cut", "off"} = {} PROVE Secure'
  BY DEF Secure
<1>1. /\ req'[r] = m /\ m \in Local
      /\ \A q \in Requests \ {r} : req'[q] = req[q]
  BY OthersStay
<1>2. /\ excused \subseteq excused' /\ (open' => open)
      /\ l = req[r] /\ l \in Local /\ (m = Closed \/ m.op = l.op) /\ l.todo # <<>>
  BY DEF Moves
<1>3. excused \cap {"crossed", "cut", "off"} = {}
  BY <1>2
<1>4. Planned(l.op, l.todo)
  BY <1>2 DEF AllFit, Fits
<1>5. ~Is(l, "settings")
  BY <1>2, <1>4, Owners DEF Is, Now
<1>6. AllSafe
  BY <1>2, <1>3, <1>5, SecureFacts DEF AllSafe
<1>7. \A q \in Requests : req[q].op # "reset"
  BY <1>2, <1>3, SecureFacts
<1>8. \A q \in Requests : req'[q].op # "reset"
  BY <1>1, <1>2, <1>7, ClosedIs
<1>9. ASSUME NEW q \in Requests, open' PROVE Trusts(req'[q], db')
  <2>1. CASE q = r
    BY <1>1, <1>9, <2>1
  <2>2. CASE q # r
    <3>1. req'[q] = req[q] /\ open
      BY <1>1, <1>2, <1>9, <2>2
    <3>2. Trusts(req[q], db)
      BY <1>3, <3>1 DEF Secure
    <3> QED BY <1>9, <3>1, <3>2, Trusting
  <2> QED BY <2>1, <2>2
<1>10. AllSafe'
  BY <1>6
<1> HIDE DEF Trusts, Safe
<1> QED BY <1>8, <1>9, <1>10 DEF Secure, AllSafe, Trusts, Safe

(* Who can sign in, after a step of a reset, which is the only request.    *)
LEMMA SecureMine ==
    ASSUME Types, AllFit, Secure, NEW r \in Requests, NEW l, NEW m, Moves(r, l, m), Fits(m)',
           l.op = "reset", UNCHANGED <<staged, safe>>,
           (excused' \cap {"crossed", "cut", "off"} = {} /\ (~Is(l, "settings") => Safe(db)))
              => Safe(db)' \/ Is(m, "settings")
    PROVE  Secure'
<1> SUFFICES ASSUME excused' \cap {"crossed", "cut", "off"} = {} PROVE Secure'
  BY DEF Secure
<1>1. /\ req'[r] = m /\ m \in Local
      /\ \A q \in Requests \ {r} : req'[q] = req[q]
  BY OthersStay
<1>2. /\ excused \subseteq excused' /\ (open' => open)
      /\ l = req[r] /\ l \in Local /\ (m = Closed \/ m.op = l.op) /\ l.todo # <<>>
  BY DEF Moves
<1>3. excused \cap {"crossed", "cut", "off"} = {}
  BY <1>2
<1>4. \A q \in Requests \ {r} : req'[q] = Closed
  BY <1>1, <1>2, <1>3, SecureFacts
<1>5. ASSUME NEW q \in Requests PROVE ~Asks(req'[q])
  <2>1. CASE q # r \/ m = Closed
    BY <1>1, <1>4, <2>1, ClosedIs DEF Asks, Is
  <2>2. CASE q = r /\ m # Closed
    <3>1. Planned(m.op, m.todo) /\ m.op = "reset"
      BY <1>2, <2>2 DEF Fits
    <3>2. ~Is(m, "upsert") /\ ~Is(m, "method")
      BY <1>1, <3>1, Owners DEF Is, Now
    <3> QED BY <1>1, <2>2, <3>2 DEF Asks
  <2> QED BY <2>1, <2>2
<1>10. \A q \in Requests : Trusts(req'[q], db')
  BY <1>5, Trusting
<1>6. /\ Safe(staged) /\ \A t \in DOMAIN safe : Safe(safe[t])
      /\ ~Is(l, "settings") => Safe(db)
  BY <1>2, <1>3, SecureFacts
<1>7. Safe(db)' \/ \E q \in Requests : Is(req'[q], "settings")
  BY <1>1, <1>6
<1>8. Safe(staged)' /\ (\A t \in DOMAIN safe : Safe(safe[t]))'
  BY <1>6 DEF Safe
<1>9. \A q, u \in Requests : req'[q].op = "reset" /\ req'[u] # Closed => q = u
  BY <1>4, ClosedIs
<1> HIDE DEF Trusts, Safe, Is
<1> QED BY <1>7, <1>8, <1>9, <1>10 DEF Secure, Trusts, Safe, Is

(* Pipeline and database, after a step that leaves them, or hands them on  *)
(* to what the request will do.                                            *)
LEMMA BackMove ==
    ASSUME Types, Back, NEW r \in Requests, NEW l, NEW m, Moves(r, l, m), exiting => exiting',
           \/ exiting'
           \/ /\ running' \/ WillStart(m) \/ (running' = running /\ ~WillStart(l))
              /\ open' \/ WillEnd(m) \/ (open' = open /\ ~WillEnd(l))
    PROVE  Back'
<1> SUFFICES ASSUME up', ~exiting' PROVE Back'
  BY DEF Back
<1>1. /\ req'[r] = m /\ \A q \in Requests \ {r} : req'[q] = req[q]
  BY OthersStay
<1>2. l = req[r] /\ up
  BY DEF Moves
<1>3. /\ running \/ \E q \in Requests : WillStart(req[q])
      /\ open \/ \E q \in Requests : WillEnd(req[q])
  BY <1>2 DEF Back
<1> HIDE DEF WillStart, WillEnd
<1>4. running' \/ \E q \in Requests : WillStart(req'[q])
  BY <1>1, <1>2, <1>3
<1>5. open' \/ \E q \in Requests : WillEnd(req'[q])
  BY <1>1, <1>2, <1>3
<1> QED BY <1>4, <1>5 DEF Back, WillStart, WillEnd

(* Only a request that writes settings owes anything.                      *)
LEMMA WritersOwe ==
    ASSUME NEW l \in Local, Planned(l.op, l.todo), l.op \notin Writers
    PROVE  /\ ~OwesAuto(l) /\ ~OwesFormat(l) /\ ~OwesCron(l) /\ ~OwesPage(l)
           /\ Owing(l) /\ Owing(l)'
<1>1. ASSUME NEW s \in {"sched", "on", "auto", "autolive", "read", "cron", "formatlive",
                        "mirror", "others", "start"}
      PROVE  ~Is(l, s)
  BY Owners DEF Is, Now, Writers
<1>2. ~OwesAuto(l) /\ ~OwesFormat(l) /\ ~OwesCron(l) /\ ~OwesPage(l)
  BY <1>1 DEF OwesAuto, OwesFormat, OwesCron, OwesPage
<1> QED BY <1>1, <1>2 DEF Owing

(* What is owed at a step of a request that writes settings: it is the     *)
(* only one to owe anything.                                               *)
LEMMA FollowFacts ==
    ASSUME Types, AllFit, Follow, NEW r \in Requests, NEW l, l = req[r], l.op \in Writers,
           open, excused \cap {"race", "slip"} = {}
    PROVE  /\ \A q \in Requests \ {r} : req[q].op \notin Writers
           /\ Owing(l)
           /\ db.auto # "" => live.auto = db.auto \/ OwesAuto(l)
           /\ db.format # "" => live.format = db.format \/ OwesFormat(l)
           /\ db.on # "" => live.cron = Scheduled(db) \/ OwesCron(l)
           /\ live.onboarded = db.onboarded \/ OwesPage(l)
<1>1. \A q \in Requests \ {r} : req[q].op \notin Writers
  BY DEF Follow
<1>2. ASSUME NEW q \in Requests \ {r}
      PROVE  ~OwesAuto(req[q]) /\ ~OwesFormat(req[q]) /\ ~OwesCron(req[q]) /\ ~OwesPage(req[q])
  <2>1. req[q] \in Local /\ Planned(req[q].op, req[q].todo)
    BY DEF Types, AllFit, Fits
  <2> QED BY <1>1, <2>1, WritersOwe
<1>3. Owing(l)
  BY DEF Follow
<1> HIDE DEF OwesAuto, OwesFormat, OwesCron, OwesPage
<1> QED BY <1>1, <1>2, <1>3 DEF Follow

(* What is owed, after a step of a request that writes no setting.         *)
LEMMA FollowOther ==
    ASSUME Types, AllFit, Follow, NEW r \in Requests, NEW l, NEW m, Moves(r, l, m), Fits(m)',
           l.op \notin Writers, live' = live,
           open' => /\ db'.auto = db.auto /\ db'.format = db.format /\ db'.on = db.on
                    /\ db'.sched = db.sched /\ db'.onboarded = db.onboarded
    PROVE  Follow'
<1> SUFFICES ASSUME open', excused' \cap {"race", "slip"} = {} PROVE Follow'
  BY DEF Follow
<1>1. /\ req'[r] = m /\ m \in Local
      /\ \A q \in Requests \ {r} : req'[q] = req[q]
  BY OthersStay
<1>2. /\ excused \cap {"race", "slip"} = {} /\ open
      /\ l = req[r] /\ l \in Local /\ (m = Closed \/ m.op = l.op)
  BY DEF Moves
<1>3. m.op \notin Writers /\ Planned(m.op, m.todo) /\ Planned(l.op, l.todo)
  BY <1>2, ClosedIs DEF AllFit, Fits, Writers
<1>4. /\ ~OwesAuto(l) /\ ~OwesFormat(l) /\ ~OwesCron(l) /\ ~OwesPage(l)
      /\ ~OwesAuto(m) /\ ~OwesFormat(m) /\ ~OwesCron(m) /\ ~OwesPage(m) /\ Owing(m)'
  BY <1>1, <1>2, <1>3, WritersOwe
<1>5. ASSUME NEW q \in Requests
      PROVE  /\ OwesAuto(req'[q]) <=> OwesAuto(req[q])
             /\ OwesFormat(req'[q]) <=> OwesFormat(req[q])
             /\ OwesCron(req'[q]) <=> OwesCron(req[q])
             /\ OwesPage(req'[q]) <=> OwesPage(req[q])
             /\ req'[q].op \in Writers => req[q].op \in Writers
  <2> HIDE DEF OwesAuto, OwesFormat, OwesCron, OwesPage
  <2> QED BY <1>1, <1>2, <1>3, <1>4
<1>6. ASSUME NEW q \in Requests PROVE Owing(req[q])'
  <2>1. CASE q = r
    BY <1>1, <1>4, <2>1
  <2>2. CASE q # r
    <3>1. PICK n : n = req[q] /\ n = req'[q]
      BY <1>1, <2>2
    <3>2. Owing(n)
      BY <1>2, <3>1 DEF Follow
    <3>3. Owing(n)'
      BY <3>2 DEF Owing, Scheduled
    <3> QED BY <3>1, <3>3
  <2> QED BY <2>1, <2>2
<1>7. \A q, u \in Requests : req'[q].op \in Writers /\ req'[u].op \in Writers => q = u
  BY <1>2, <1>5 DEF Follow
<1>8. Scheduled(db') = Scheduled(db)
  BY DEF Scheduled
<1> HIDE DEF OwesAuto, OwesFormat, OwesCron, OwesPage, Owing, Scheduled, Writers
<1>9. /\ db'.auto # "" => live'.auto = db'.auto \/ \E q \in Requests : OwesAuto(req'[q])
      /\ db'.format # "" => live'.format = db'.format \/ \E q \in Requests : OwesFormat(req'[q])
      /\ db'.on # "" => live'.cron = Scheduled(db') \/ \E q \in Requests : OwesCron(req'[q])
      /\ live'.onboarded = db'.onboarded \/ \E q \in Requests : OwesPage(req'[q])
  BY <1>2, <1>5, <1>8 DEF Follow
<1> QED BY <1>6, <1>7, <1>9 DEF Follow, OwesAuto, OwesFormat, OwesCron, OwesPage, Owing,
                                Scheduled, Writers

(* What is owed, after a step of the only request that writes settings.    *)
LEMMA FollowMine ==
    ASSUME Types, AllFit, Follow, NEW r \in Requests, NEW l, NEW m, Moves(r, l, m),
           l.op \in Writers,
           (open' /\ open /\ excused' \cap {"race", "slip"} = {}) =>
              /\ Owing(m)'
              /\ db'.auto # "" => live'.auto = db'.auto \/ OwesAuto(m)
              /\ db'.format # "" => live'.format = db'.format \/ OwesFormat(m)
              /\ db'.on # "" => live'.cron = Scheduled(db') \/ OwesCron(m)
              /\ live'.onboarded = db'.onboarded \/ OwesPage(m)
    PROVE  Follow'
<1> SUFFICES ASSUME open', excused' \cap {"race", "slip"} = {} PROVE Follow'
  BY DEF Follow
<1>1. /\ req'[r] = m /\ m \in Local
      /\ \A q \in Requests \ {r} : req'[q] = req[q]
  BY OthersStay
<1>2. /\ excused \cap {"race", "slip"} = {} /\ open
      /\ l = req[r] /\ l \in Local /\ (m = Closed \/ m.op = l.op)
  BY DEF Moves
<1>3. \A q \in Requests \ {r} : req'[q].op \notin Writers
  BY <1>1, <1>2, FollowFacts
<1>4. ASSUME NEW q \in Requests PROVE Owing(req[q])'
  <2>1. CASE q = r
    BY <1>1, <1>2, <2>1
  <2>2. CASE q # r
    <3>1. PICK n : n = req[q] /\ n = req'[q]
      BY <1>1, <2>2
    <3>2. Owing(n)'
      <4>1. n \in Local /\ Planned(n.op, n.todo) /\ n.op \notin Writers
        BY <1>3, <2>2, <3>1 DEF Types, AllFit, Fits
      <4> QED BY <4>1, WritersOwe
    <3> QED BY <3>1, <3>2
  <2> QED BY <2>1, <2>2
<1>5. \A q, u \in Requests : req'[q].op \in Writers /\ req'[u].op \in Writers => q = u
  BY <1>3
<1> HIDE DEF OwesAuto, OwesFormat, OwesCron, OwesPage, Owing, Scheduled, Writers
<1>6. /\ db'.auto # "" => live'.auto = db'.auto \/ \E q \in Requests : OwesAuto(req'[q])
      /\ db'.format # "" => live'.format = db'.format \/ \E q \in Requests : OwesFormat(req'[q])
      /\ db'.on # "" => live'.cron = Scheduled(db') \/ \E q \in Requests : OwesCron(req'[q])
      /\ live'.onboarded = db'.onboarded \/ \E q \in Requests : OwesPage(req'[q])
  BY <1>1, <1>2
<1> QED BY <1>4, <1>5, <1>6 DEF Follow, OwesAuto, OwesFormat, OwesCron, OwesPage, Owing,
                                Scheduled, Writers

-----------------------------------------------------------------------------
(* The settings and what follows them *)

(* A request at its step s.                                                *)
LEMMA StepIs ==
    ASSUME Inv, NEW r \in Requests, NEW s, At(r, s), NEW l, l = req[r]
    PROVE  /\ l \in Local /\ l.todo # <<>> /\ Now(l) = s /\ Is(l, s)
           /\ Fits(l) /\ Planned(l.op, l.todo) /\ l.op \in Ops /\ up
           /\ Types /\ AllFit /\ Kept /\ Secure /\ Back /\ Follow /\ Data
<1>1. l \in Local /\ l.todo # <<>> /\ Now(l) = s /\ Fits(l)
  BY DEF Inv, Types, AllFit, At, Now
<1>2. l.op \in Ops /\ up /\ Planned(l.op, l.todo)
  BY <1>1, LocalIs DEF Fits
<1> QED BY <1>1, <1>2 DEF Inv, Types, Is, Now

(* The step s and no other.                                                *)
LEMMA OnlyIs ==
    ASSUME NEW l, Is(l, Now(l))
    PROVE  /\ OwesAuto(l) <=> Now(l) = "autolive" /\ "auto" \in l.changed
           /\ OwesFormat(l) <=> Now(l) = "formatlive"
           /\ OwesCron(l) <=>
                 \/ /\ Now(l) \in {"on", "auto", "read"} \/ (Now(l) = "autolive" /\ l.op = "save")
                    /\ l.changed \cap {"sched", "on"} # {}
                 \/ Now(l) = "cron"
           /\ OwesPage(l) <=>
                 \/ Now(l) = "mirror"
                 \/ /\ l.op = "reset"
                    /\ Now(l) = "others" \/ (Now(l) = "start" /\ Tail(l.todo) # <<>>)
           /\ WillEnd(l) <=>
                 l.op = "restore" /\ Now(l) \in {"aside", "install", "rollback", "signal"}
           /\ WillStart(l) <=>
                 \/ WillEnd(l)
                 \/ l.op = "restore" /\ Now(l) \in {"wait", "close"}
                 \/ l.op = "reset" /\ Now(l) \in {"wait", "users", "settings", "others", "start"}
           /\ Asks(l) <=> \/ Now(l) = "upsert" /\ l.seen
                          \/ Now(l) = "method" /\ l.form.method = "forms"
BY DEF OwesAuto, OwesFormat, OwesCron, OwesPage, WillEnd, WillStart, Asks, Is, Now

(* A request that is over owes nothing.                                    *)
LEMMA ClosedOwes ==
    /\ ~OwesAuto(Closed) /\ ~OwesFormat(Closed) /\ ~OwesCron(Closed) /\ ~OwesPage(Closed)
    /\ ~WillEnd(Closed) /\ ~WillStart(Closed) /\ ~Asks(Closed) /\ ~Replaces(Closed)
    /\ Owing(Closed) /\ Restores(Closed) /\ \A s : ~Is(Closed, s)
BY ClosedIs DEF OwesAuto, OwesFormat, OwesCron, OwesPage, WillEnd, WillStart, Asks, Replaces,
                Owing, Restores, Is

(* The invariant, after a step of the settings page or of the wizard.      *)
LEMMA WriterKeeps ==
    ASSUME Inv, NEW r \in Requests, NEW l, NEW m, Moves(r, l, m), Fits(m)',
           l.op \in {"save", "finish", "skip", "again"},
           UNCHANGED <<staged, safe, open, running, exiting, now, lived>>,
           \/ db' = db
           \/ /\ db \in Database /\ db' \in Database
              /\ db'.id = db.id /\ db'.user = db.user /\ db'.method = db.method
              /\ db'.sso = db.sso /\ db'.client = db.client,
           live' \in Live,
           (/\ open /\ excused \cap {"race", "slip"} = {}
            /\ excused' \cap {"race", "slip"} = {}) =>
              /\ Owing(m)'
              /\ db'.auto # "" => live'.auto = db'.auto \/ OwesAuto(m)
              /\ db'.format # "" => live'.format = db'.format \/ OwesFormat(m)
              /\ db'.on # "" => live'.cron = Scheduled(db') \/ OwesCron(m)
              /\ live'.onboarded = db'.onboarded \/ OwesPage(m)
    PROVE  Inv'
<1>1. Types /\ AllFit /\ Kept /\ Secure /\ Back /\ Follow /\ Data
  BY DEF Inv, Types
<1>2. l \in Local /\ l = req[r] /\ l.todo # <<>> /\ m \in Local /\ (m = Closed \/ m.op = l.op)
      /\ up' = up
  BY DEF Moves
<1>3. Planned(l.op, l.todo) /\ Planned(m.op, m.todo)
  BY <1>1, <1>2 DEF AllFit, Fits
<1>4. db'.id = db.id /\ (db' = NoDB <=> db = NoDB) /\ (db' = BadDB <=> db = BadDB)
      /\ db'.user = db.user /\ (db' \in Database <=> db \in Database)
      /\ (Safe(db) => Safe(db')) /\ (Way(db) => Way(db'))
  BY NoFile DEF Safe, Way, Ready
<1>5. Data'
  BY <1>1, <1>2, <1>4 DEF Data, Files, Numbers
<1>6. Kept'
  BY <1>1, <1>2, <1>4, KeptOther
<1>7. ~Asks(m)
  <2>1. CASE m = Closed
    BY <2>1, ClosedOwes
  <2>2. CASE m.op = l.op
    BY <1>2, <1>3, <2>2, Owners DEF Asks, Is, Now
  <2> QED BY <1>2, <2>1, <2>2
<1>8. Secure'
  <2>1. l.op # "reset" /\ (db.user => db'.user) /\ Trusts(m, db')
    BY <1>4, <1>7, Trusting
  <2>2. AllSafe => AllSafe'
    BY <1>4 DEF AllSafe, Safe
  <2> QED BY <1>1, <1>4, <2>1, <2>2, SecureOther
<1>9. Back'
  <2>1. ~WillStart(l) /\ ~WillEnd(l)
    BY DEF WillStart, WillEnd
  <2> QED BY <1>1, <2>1, BackMove
<1>10. Follow'
  <2>1. l.op \in Writers /\ excused \subseteq excused'
    BY DEF Writers, Moves
  <2> QED BY <1>1, <2>1, FollowMine
<1> QED BY <1>1, <1>5, <1>6, <1>8, <1>9, <1>10, TypesMove DEF Inv

(* The invariant, after a step of a reset.                                 *)
LEMMA ResetKeeps ==
    ASSUME Inv, NEW r \in Requests, NEW l, NEW m, Moves(r, l, m), Fits(m)', l.op = "reset",
           UNCHANGED <<staged, safe, open, exiting, now, lived>>,
           db' = db \/ (db \in Database /\ db' \in Database /\ db'.id = db.id),
           live' \in Live, running' \in BOOLEAN,
           running' \/ WillStart(m) \/ (running' = running /\ ~WillStart(l)),
           (excused' \cap {"crossed", "cut", "off"} = {} /\ (~Is(l, "settings") => Safe(db)))
              => Safe(db)' \/ Is(m, "settings"),
           (/\ open /\ excused \cap {"race", "slip"} = {}
            /\ excused' \cap {"race", "slip"} = {}) =>
              /\ Owing(m)'
              /\ db'.auto # "" => live'.auto = db'.auto \/ OwesAuto(m)
              /\ db'.format # "" => live'.format = db'.format \/ OwesFormat(m)
              /\ db'.on # "" => live'.cron = Scheduled(db') \/ OwesCron(m)
              /\ live'.onboarded = db'.onboarded \/ OwesPage(m)
    PROVE  Inv'
<1>1. Types /\ AllFit /\ Kept /\ Secure /\ Back /\ Follow /\ Data
  BY DEF Inv, Types
<1>2. l \in Local /\ l = req[r] /\ l.todo # <<>> /\ m \in Local /\ (m = Closed \/ m.op = l.op)
      /\ up' = up
  BY DEF Moves
<1>3. up
  BY <1>1, <1>2 DEF AllFit, Fits
<1>4. db'.id = db.id /\ (db' = NoDB <=> db = NoDB) /\ (db' = BadDB <=> db = BadDB)
      /\ (db' \in Database <=> db \in Database)
  BY NoFile
<1>5. Data'
  BY <1>1, <1>2, <1>3, <1>4 DEF Data, Files, Numbers
<1>6. Kept'
  BY <1>1, <1>2, <1>4, KeptOther
<1>7. Secure'
  BY <1>1, SecureMine
<1>8. Back'
  <2>1. ~WillEnd(l)
    BY DEF WillEnd
  <2> QED BY <1>1, <2>1, BackMove
<1>9. Follow'
  <2>1. l.op \in Writers /\ excused \subseteq excused'
    BY DEF Writers, Moves
  <2> QED BY <1>1, <2>1, FollowMine
<1> QED BY <1>1, <1>5, <1>6, <1>7, <1>8, <1>9, TypesMove DEF Inv

(* The invariant, after a step of a request about who can sign in.         *)
LEMMA SignInKeeps ==
    ASSUME Inv, NEW r \in Requests, NEW l, NEW m, Moves(r, l, m), Fits(m)',
           l.op \in {"admin", "noadmin", "method", "password", "oidc", "callback"},
           UNCHANGED <<staged, safe, open, running, exiting, now, lived, live>>,
           \/ db' = db
           \/ /\ db \in Database /\ db' \in Database /\ db'.id = db.id
              /\ db'.auto = db.auto /\ db'.format = db.format /\ db'.on = db.on
              /\ db'.sched = db.sched /\ db'.onboarded = db.onboarded
              /\ db.user => db'.user,
           excused' \cap {"crossed", "cut", "off"} = {} =>
              (Safe(db) => Safe(db)') /\ (Way(db) => Way(db')) /\ Trusts(m, db')
    PROVE  Inv'
<1>1. Types /\ AllFit /\ Kept /\ Secure /\ Back /\ Follow /\ Data
  BY DEF Inv, Types
<1>2. l \in Local /\ l = req[r] /\ l.todo # <<>> /\ m \in Local /\ (m = Closed \/ m.op = l.op)
      /\ up' = up
  BY DEF Moves
<1>4. db'.id = db.id /\ (db' = NoDB <=> db = NoDB) /\ (db' = BadDB <=> db = BadDB)
      /\ (db' \in Database <=> db \in Database)
  BY NoFile
<1>5. Data'
  BY <1>1, <1>2, <1>4 DEF Data, Files, Numbers
<1>6. Kept'
  BY <1>1, <1>2, <1>4, KeptOther
<1>7. Secure'
  <2>1. l.op # "reset" /\ (db.user => db'.user)
    OBVIOUS
  <2>2. (excused' \cap {"crossed", "cut", "off"} = {} /\ AllSafe) => AllSafe'
    <3> HIDE DEF Safe
    <3> QED BY DEF AllSafe, Safe
  <2> QED BY <1>1, <2>1, <2>2, SecureOther
<1>8. Back'
  <2>1. ~WillStart(l) /\ ~WillEnd(l)
    BY DEF WillStart, WillEnd
  <2> QED BY <1>1, <2>1, BackMove
<1>9. Follow'
  <2>1. l.op \notin Writers
    BY DEF Writers
  <2>2. /\ db'.auto = db.auto /\ db'.format = db.format /\ db'.on = db.on
        /\ db'.sched = db.sched /\ db'.onboarded = db.onboarded
    OBVIOUS
  <2> QED BY <1>1, <2>1, <2>2, FollowOther
<1> QED BY <1>1, <1>5, <1>6, <1>7, <1>8, <1>9, TypesMove DEF Inv

(* The invariant, after a step of a restore, or of the wish to restart.    *)
LEMMA RestoreKeeps ==
    ASSUME Inv, NEW r \in Requests, NEW l, NEW m, Moves(r, l, m), Fits(m)',
           l.op \in {"restore", "restart"}, Data', Kept', live' = live, exiting => exiting',
           AllSafe => AllSafe',
           open' => db' = db,
           \/ exiting'
           \/ /\ running' \/ WillStart(m) \/ (running' = running /\ ~WillStart(l))
              /\ open' \/ WillEnd(m) \/ (open' = open /\ ~WillEnd(l))
    PROVE  Inv'
<1>1. Types /\ AllFit /\ Kept /\ Secure /\ Back /\ Follow
  BY DEF Inv
<1>2. l \in Local /\ m \in Local /\ (m = Closed \/ m.op = l.op)
  BY DEF Moves
<1>3. ~Asks(m)
  <2>1. CASE m = Closed
    BY <2>1, ClosedOwes
  <2>2. CASE m.op = l.op
    <3>1. Planned(m.op, m.todo)
      BY DEF Fits
    <3> QED BY <1>2, <2>2, <3>1, Owners DEF Asks, Is, Now
  <2> QED BY <1>2, <2>1, <2>2
<1>4. Secure'
  <2>1. /\ l.op # "reset" /\ Trusts(m, db')
        /\ open' => (db.user => db'.user) /\ (Way(db) => Way(db'))
    BY <1>3, Trusting
  <2> QED BY <1>1, <2>1, SecureOther
<1>5. Back'
  BY <1>1, BackMove
<1>6. Follow'
  <2>1. l.op \notin Writers
    BY DEF Writers
  <2> QED BY <1>1, <2>1, FollowOther
<1> QED BY <1>1, <1>4, <1>5, <1>6, TypesMove DEF Inv

(* setSetting.                                                             *)
LEMMA SetSettingKeeps ==
    ASSUME Inv, NEW r \in Requests, setSetting(r)
    PROVE  Inv'
<1>1. PICK s \in {"sched", "on", "auto"} :
         /\ At(r, s) /\ open
         /\ db' = [db EXCEPT ![s] = req[r].form[s]]
         /\ IF db[s] = req[r].form[s] THEN Step(r)
            ELSE Learn(r, [req[r] EXCEPT !.changed = @ \cup {s}])
         /\ UNCHANGED <<staged, safe, up, open, running, exiting, live, world, excused, budget>>
  BY DEF setSetting
<1>2. PICK l : l = req[r]
  OBVIOUS
<1>3. /\ l \in Local /\ l.todo # <<>> /\ Now(l) = s /\ Is(l, s) /\ Fits(l)
      /\ Planned(l.op, l.todo) /\ Types /\ AllFit /\ Follow /\ Data
  BY <1>1, <1>2, StepIs
<1>4. l.op = "save" /\ l.form \in Database /\ l.form.auto # "" /\ l.form.on # ""
  BY <1>3, Owners, LocalIs DEF Fits
<1>5. db \in Database /\ live \in Live
  BY <1>1, <1>3 DEF Data
<1>6. PICK n \in Local :
         /\ n.op = l.op /\ n.form = l.form /\ n.upload = l.upload /\ Learn(r, n)
         /\ n.changed = IF db[s] = l.form[s] THEN l.changed ELSE l.changed \cup {s}
  <2>1. CASE db[s] = l.form[s]
    BY <1>1, <1>2, <1>3, <2>1 DEF Step
  <2>2. CASE db[s] # l.form[s]
    <3>1. PICK n : n = [l EXCEPT !.changed = @ \cup {s}]
      OBVIOUS
    <3>2. n \in Local /\ n.op = l.op /\ n.form = l.form /\ n.upload = l.upload
          /\ n.changed = l.changed \cup {s}
      BY <1>3, <3>1 DEF Local
    <3> QED BY <1>1, <1>2, <2>2, <3>1, <3>2
  <2> QED BY <2>1, <2>2
<1>7. PICK m \in Local : Moves(r, l, m) /\ GoesOn(l, n, m) /\ Fits(m)'
  BY <1>1, <1>2, <1>3, <1>6, Taken
<1>8. /\ m.todo # <<>> /\ m.op = "save" /\ m.form = l.form /\ m.changed = n.changed
      /\ s = "sched" => Now(m) = "on"
      /\ s = "on" => Now(m) = "auto"
      /\ s = "auto" => Now(m) = "autolive"
  BY <1>3, <1>4, <1>7 DEF GoesOn, Ends, Follows
<1>9. Is(m, Now(m))
  BY <1>8 DEF Is, Now
<1>10. /\ db' \in Database /\ db'.id = db.id /\ db'.user = db.user /\ db'.method = db.method
       /\ db'.sso = db.sso /\ db'.client = db.client
       /\ db'.format = db.format /\ db'.onboarded = db.onboarded
       /\ db'.sched = IF s = "sched" THEN l.form.sched ELSE db.sched
       /\ db'.on = IF s = "on" THEN l.form.on ELSE db.on
       /\ db'.auto = IF s = "auto" THEN l.form.auto ELSE db.auto
  <2>1. l.form.sched \in {"", "daily"} /\ l.form.on \in Answers /\ l.form.auto \in Answers
    BY <1>4, DBIs
  <2>2. CASE s = "sched"
    <3>1. db' = [db EXCEPT !.sched = l.form.sched]
      BY <1>1, <1>2, <2>2
    <3> QED BY <1>5, <2>1, <2>2, <3>1 DEF Database
  <2>3. CASE s = "on"
    <3>1. db' = [db EXCEPT !.on = l.form.on]
      BY <1>1, <1>2, <2>3
    <3> QED BY <1>5, <2>1, <2>3, <3>1 DEF Database
  <2>4. CASE s = "auto"
    <3>1. db' = [db EXCEPT !.auto = l.form.auto]
      BY <1>1, <1>2, <2>4
    <3> QED BY <1>5, <2>1, <2>4, <3>1 DEF Database
  <2> QED BY <2>2, <2>3, <2>4
<1>11. ASSUME open, excused \cap {"race", "slip"} = {}
       PROVE  /\ Owing(m)'
              /\ db'.auto # "" => live'.auto = db'.auto \/ OwesAuto(m)
              /\ db'.format # "" => live'.format = db'.format \/ OwesFormat(m)
              /\ db'.on # "" => live'.cron = Scheduled(db') \/ OwesCron(m)
              /\ live'.onboarded = db'.onboarded \/ OwesPage(m)
  <2>1. l.op \in Writers
    BY <1>4 DEF Writers
  <2>2. /\ Owing(l)
        /\ db.auto # "" => live.auto = db.auto \/ OwesAuto(l)
        /\ db.format # "" => live.format = db.format \/ OwesFormat(l)
        /\ db.on # "" => live.cron = Scheduled(db) \/ OwesCron(l)
        /\ live.onboarded = db.onboarded \/ OwesPage(l)
    BY <1>2, <1>3, <1>11, <2>1, FollowFacts
  <2>3. "auto" \notin l.changed
    BY <1>3, <2>2 DEF Owing
  <2>4. ~OwesFormat(l) /\ ~OwesPage(l) /\ ~OwesAuto(l) /\ (s = "sched" => ~OwesCron(l))
        /\ (OwesCron(l) <=> s \in {"on", "auto"} /\ l.changed \cap {"sched", "on"} # {})
    BY <1>3, <1>4, OnlyIs
  <2>5. /\ ~OwesFormat(m) /\ ~OwesPage(m)
        /\ OwesAuto(m) <=> s = "auto" /\ "auto" \in m.changed
        /\ OwesCron(m) <=> m.changed \cap {"sched", "on"} # {}
    BY <1>8, <1>9, OnlyIs
  <2>6. live' = live
    BY <1>1
  <2>7. Owing(m)'
    <3>1. s # "auto" => "auto" \notin m.changed
      BY <1>6, <1>8, <2>3
    <3>2. s = "auto" => ~Is(m, "sched") /\ ~Is(m, "on") /\ ~Is(m, "auto")
      BY <1>8 DEF Is, Now
    <3>3. ~Is(m, "cron")
      BY <1>8 DEF Is, Now
    <3>4. OwesAuto(m) => db'.auto = m.form.auto
      BY <1>8, <1>10, <2>5
    <3> QED BY <2>5, <3>1, <3>2, <3>3, <3>4 DEF Owing
  <2>8. db'.auto # "" => live'.auto = db'.auto \/ OwesAuto(m)
    <3>1. s # "auto" => db'.auto = db.auto
      BY <1>10
    <3>2. s = "auto" /\ db.auto # l.form.auto => OwesAuto(m)
      BY <1>6, <1>8, <2>5
    <3> QED BY <1>10, <2>2, <2>4, <2>6, <3>1, <3>2
  <2>9. db'.on # "" => live'.cron = Scheduled(db') \/ OwesCron(m)
    <3>1. CASE db[s] = l.form[s] \/ s = "auto"
      <4>1. db'.on = db.on /\ db'.sched = db.sched
        BY <1>10, <3>1
      <4>2. OwesCron(l) => OwesCron(m)
        BY <1>6, <1>8, <2>4, <2>5
      <4>3. Scheduled(db') = Scheduled(db)
        BY <4>1 DEF Scheduled
      <4> QED BY <2>2, <2>6, <4>1, <4>2, <4>3
    <3>2. CASE db[s] # l.form[s] /\ s # "auto"
      BY <1>6, <1>8, <2>5, <3>2
    <3> QED BY <3>1, <3>2
  <2> QED BY <1>10, <2>2, <2>4, <2>6, <2>7, <2>8, <2>9
<1>12. UNCHANGED <<staged, safe, open, running, exiting, now, lived>> /\ live' \in Live
  BY <1>1, <1>5 DEF world
<1> QED BY <1>4, <1>5, <1>7, <1>10, <1>11, <1>12, WriterKeeps

(* SetAutoQueueNew.                                                        *)
LEMMA SetAutoQueueNewKeeps ==
    ASSUME Inv, NEW r \in Requests, SetAutoQueueNew(r)
    PROVE  Inv'
<1>1. /\ At(r, "autolive") /\ Step(r)
      /\ live' = IF "auto" \in req[r].changed THEN [live EXCEPT !.auto = req[r].form.auto]
                 ELSE live
      /\ UNCHANGED <<db, staged, safe, up, open, running, exiting, world, excused, budget>>
  BY DEF SetAutoQueueNew
<1>2. PICK l : l = req[r]
  OBVIOUS
<1>3. /\ l \in Local /\ l.todo # <<>> /\ Now(l) = "autolive" /\ Is(l, "autolive") /\ Fits(l)
      /\ Planned(l.op, l.todo) /\ Types /\ AllFit /\ Follow /\ Data
  BY <1>1, <1>2, StepIs
<1>4. l.op \in {"save", "finish"} /\ l.form.auto \in {"yes", "no"}
  <2>1. l.form \in Database
    BY <1>3, LocalIs
  <2> QED BY <1>3, <2>1, Owners, DBIs DEF Fits, Answers
<1>5. PICK m \in Local : Moves(r, l, m) /\ GoesOn(l, l, m) /\ Fits(m)'
  BY <1>1, <1>2, <1>3, Taken DEF Step
<1>6. /\ l.op = "save" => m.todo # <<>> /\ m.op = "save" /\ Now(m) = "read"
      /\ m # Closed => m.changed = l.changed
      /\ l.op = "finish" => m = Closed
  BY <1>3, <1>4, <1>5 DEF GoesOn, Ends, Follows
<1>7. live' \in Live /\ live'.format = live.format /\ live'.cron = live.cron
      /\ live'.onboarded = live.onboarded
      /\ live'.auto = IF "auto" \in l.changed THEN l.form.auto ELSE live.auto
  <2>1. live \in Live
    BY <1>3 DEF Data
  <2> QED BY <1>1, <1>2, <1>4, <2>1 DEF Live
<1>8. /\ ~OwesFormat(m) /\ ~OwesPage(m) /\ ~OwesAuto(m) /\ Owing(m)'
      /\ l.op = "save" => (OwesCron(m) <=> m.changed \cap {"sched", "on"} # {})
  <2>1. CASE m = Closed
    <3>1. l.op # "save"
      BY <1>6, <2>1, ClosedIs
    <3> QED BY <2>1, <3>1, ClosedOwes DEF Owing
  <2>2. CASE m # Closed
    <3>1. m.todo # <<>> /\ m.op = "save" /\ Now(m) = "read" /\ Is(m, Now(m)) /\ l.op = "save"
      BY <1>4, <1>6, <2>2 DEF Is, Now
    <3>2. /\ ~OwesFormat(m) /\ ~OwesPage(m) /\ ~OwesAuto(m)
          /\ OwesCron(m) <=> m.changed \cap {"sched", "on"} # {}
      BY <3>1, OnlyIs
    <3> QED BY <3>1, <3>2 DEF Owing, Is, Now
  <2> QED BY <2>1, <2>2
<1>9. ASSUME open, excused \cap {"race", "slip"} = {}
      PROVE  /\ Owing(m)'
             /\ db'.auto # "" => live'.auto = db'.auto \/ OwesAuto(m)
             /\ db'.format # "" => live'.format = db'.format \/ OwesFormat(m)
             /\ db'.on # "" => live'.cron = Scheduled(db') \/ OwesCron(m)
             /\ live'.onboarded = db'.onboarded \/ OwesPage(m)
  <2>1. l.op \in Writers
    BY <1>4 DEF Writers
  <2>2. /\ Owing(l)
        /\ db.auto # "" => live.auto = db.auto \/ OwesAuto(l)
        /\ db.format # "" => live.format = db.format \/ OwesFormat(l)
        /\ db.on # "" => live.cron = Scheduled(db) \/ OwesCron(l)
        /\ live.onboarded = db.onboarded \/ OwesPage(l)
    BY <1>2, <1>3, <1>9, <2>1, FollowFacts
  <2>3. /\ ~OwesFormat(l) /\ ~OwesPage(l) /\ (OwesAuto(l) <=> "auto" \in l.changed)
        /\ OwesCron(l) <=> l.op = "save" /\ l.changed \cap {"sched", "on"} # {}
    BY <1>3, OnlyIs
  <2>4. OwesAuto(l) => db.auto = l.form.auto
    BY <2>2 DEF Owing
  <2>5. OwesCron(l) => OwesCron(m)
    BY <1>6, <1>8, <2>3, ClosedIs
  <2>6. db' = db
    BY <1>1
  <2> QED BY <1>7, <1>8, <2>2, <2>3, <2>4, <2>5, <2>6
<1>10. UNCHANGED <<db, staged, safe, open, running, exiting, now, lived>>
  BY <1>1 DEF world
<1> QED BY <1>4, <1>5, <1>7, <1>9, <1>10, WriterKeeps

(* ReadSchedule.                                                          *)
LEMMA ReadScheduleKeeps ==
    ASSUME Inv, NEW r \in Requests, ReadSchedule(r)
    PROVE  Inv'
<1>1. /\ At(r, "read")
      /\ IF req[r].changed \cap {"sched", "on"} = {}
         THEN Then(r, Tail(Tail1(r)), req[r])
         ELSE Learn(r, [req[r] EXCEPT !.seen = open /\ Scheduled(db)])
      /\ UNCHANGED <<db, staged, safe, up, open, running, exiting, live, world, excused, budget>>
  BY DEF ReadSchedule
<1>2. PICK l : l = req[r]
  OBVIOUS
<1>3. /\ l \in Local /\ l.todo # <<>> /\ Now(l) = "read" /\ Is(l, "read") /\ Fits(l)
      /\ Planned(l.op, l.todo) /\ Types /\ AllFit /\ Follow /\ Data
  BY <1>1, <1>2, StepIs
<1>4. l.op = "save"
  BY <1>3, Owners
<1>5. live' \in Live /\ UNCHANGED <<db, live, staged, safe, open, running, exiting, now, lived>>
  BY <1>1, <1>3 DEF Data, world
<1>6. CASE l.changed \cap {"sched", "on"} = {}
  <2>1. Then(r, Tail(Tail1(r)), l)
    BY <1>1, <1>2, <1>6
  <2>2. Tail(l.todo) # <<>> /\ Head(Tail(l.todo)) = "cron"
    <3>1. Goes(l.op, Now(l), Tail(l.todo))
      BY <1>3, Owners
    <3> QED BY <1>3, <1>4, <3>1 DEF Goes, Follows, Ends
  <2>3. l.op \notin {"reset", "restore"} /\ up' = up /\ (open' => open)
        /\ excused \subseteq excused' /\ ("anew" \in excused' => "anew" \in excused)
    BY <1>1, <1>4
  <2>4. PICK m \in Local :
           /\ Moves(r, l, m) /\ Fits(m)'
           /\ \/ m = Closed /\ Ends(l.op, "cron")
              \/ /\ m.todo # <<>> /\ m.op = l.op /\ Follows(l.op, "cron", Now(m))
                 /\ m.form = l.form /\ m.changed = l.changed /\ m.seen = l.seen
    BY <1>2, <1>3, <2>1, <2>2, <2>3, Skipped
  <2>5. m.todo # <<>> /\ m.op = "save" /\ Now(m) = "format" /\ Is(m, Now(m))
    BY <1>4, <2>4 DEF Follows, Ends, Is, Now
  <2>6. ASSUME open, excused \cap {"race", "slip"} = {}
        PROVE  /\ Owing(m)'
               /\ db'.auto # "" => live'.auto = db'.auto \/ OwesAuto(m)
               /\ db'.format # "" => live'.format = db'.format \/ OwesFormat(m)
               /\ db'.on # "" => live'.cron = Scheduled(db') \/ OwesCron(m)
               /\ live'.onboarded = db'.onboarded \/ OwesPage(m)
    <3>1. l.op \in Writers
      BY <1>4 DEF Writers
    <3>2. /\ Owing(l)
          /\ db.auto # "" => live.auto = db.auto \/ OwesAuto(l)
          /\ db.format # "" => live.format = db.format \/ OwesFormat(l)
          /\ db.on # "" => live.cron = Scheduled(db) \/ OwesCron(l)
          /\ live.onboarded = db.onboarded \/ OwesPage(l)
      BY <1>2, <1>3, <2>6, <3>1, FollowFacts
    <3>3. ~OwesAuto(l) /\ ~OwesFormat(l) /\ ~OwesPage(l) /\ ~OwesCron(l)
      BY <1>3, <1>4, <1>6, OnlyIs
    <3>4. ~OwesAuto(m) /\ ~OwesFormat(m) /\ ~OwesPage(m)
      BY <2>5, OnlyIs
    <3>5. Owing(m)'
      BY <2>5, <3>4 DEF Owing, Is, Now
    <3>6. db' = db /\ live' = live /\ Scheduled(db') = Scheduled(db)
      BY <1>5 DEF Scheduled
    <3> QED BY <3>2, <3>3, <3>5, <3>6
  <2> QED BY <1>4, <1>5, <2>4, <2>6, WriterKeeps
<1>7. CASE l.changed \cap {"sched", "on"} # {}
  <2>1. PICK n : n = [l EXCEPT !.seen = open /\ Scheduled(db)]
    OBVIOUS
  <2>2. (open /\ Scheduled(db)) \in BOOLEAN
    OBVIOUS
  <2>3. n \in Local /\ n.op = l.op /\ n.form = l.form /\ n.upload = l.upload
        /\ n.seen = (open /\ Scheduled(db)) /\ n.changed = l.changed
    BY <1>3, <2>1, <2>2 DEF Local
  <2>4. Learn(r, n)
    BY <1>1, <1>2, <1>7, <2>1
  <2>5. PICK m \in Local : Moves(r, l, m) /\ GoesOn(l, n, m) /\ Fits(m)'
    BY <1>1, <1>2, <1>3, <2>3, <2>4, Taken
  <2>6. m.todo # <<>> /\ m.op = "save" /\ Now(m) = "cron" /\ m.seen = n.seen /\ Is(m, Now(m))
    BY <1>3, <1>4, <2>5 DEF GoesOn, Follows, Ends, Is, Now
  <2>7. ASSUME open, excused \cap {"race", "slip"} = {}
        PROVE  /\ Owing(m)'
               /\ db'.auto # "" => live'.auto = db'.auto \/ OwesAuto(m)
               /\ db'.format # "" => live'.format = db'.format \/ OwesFormat(m)
               /\ db'.on # "" => live'.cron = Scheduled(db') \/ OwesCron(m)
               /\ live'.onboarded = db'.onboarded \/ OwesPage(m)
    <3>1. l.op \in Writers
      BY <1>4 DEF Writers
    <3>2. /\ db.auto # "" => live.auto = db.auto \/ OwesAuto(l)
          /\ db.format # "" => live.format = db.format \/ OwesFormat(l)
          /\ live.onboarded = db.onboarded \/ OwesPage(l)
      BY <1>2, <1>3, <2>7, <3>1, FollowFacts
    <3>3. ~OwesAuto(l) /\ ~OwesFormat(l) /\ ~OwesPage(l)
      BY <1>3, <1>4, OnlyIs
    <3>4. ~OwesAuto(m) /\ ~OwesFormat(m) /\ ~OwesPage(m) /\ OwesCron(m)
      BY <2>6, OnlyIs
    <3>5. db' = db /\ live' = live /\ Scheduled(db') = Scheduled(db)
      BY <1>5 DEF Scheduled
    <3>6. Owing(m)'
      <4>1. m.seen = Scheduled(db)
        BY <2>3, <2>6, <2>7 DEF Scheduled
      <4> QED BY <2>6, <3>4, <3>5, <4>1 DEF Owing, Is, Now
    <3> QED BY <3>2, <3>3, <3>4, <3>5, <3>6
  <2> QED BY <1>4, <1>5, <2>5, <2>7, WriterKeeps
<1> QED BY <1>6, <1>7

(* SetSyncSchedule.                                                       *)
LEMMA SetSyncScheduleKeeps ==
    ASSUME Inv, NEW r \in Requests, SetSyncSchedule(r)
    PROVE  Inv'
<1>1. /\ At(r, "cron")
      /\ Step(r) /\ live' = [live EXCEPT !.cron = req[r].seen]
      /\ UNCHANGED <<db, staged, safe, up, open, running, exiting, world, excused, budget>>
  BY DEF SetSyncSchedule
<1>2. PICK l : l = req[r]
  OBVIOUS
<1>3. /\ l \in Local /\ l.todo # <<>> /\ Now(l) = "cron" /\ Is(l, "cron") /\ Fits(l)
      /\ Planned(l.op, l.todo) /\ Types /\ AllFit /\ Follow /\ Data
  BY <1>1, <1>2, StepIs
<1>4. l.op = "save" /\ l.seen \in BOOLEAN
  BY <1>3, Owners, LocalIs
<1>5. live' \in Live /\ live'.format = live.format /\ live'.auto = live.auto
      /\ live'.onboarded = live.onboarded /\ live'.cron = l.seen
  <2>1. live \in Live
    BY <1>3 DEF Data
  <2> QED BY <1>1, <1>2, <1>4, <2>1 DEF Live
<1>6. PICK m \in Local : Moves(r, l, m) /\ GoesOn(l, l, m) /\ Fits(m)'
  BY <1>1, <1>2, <1>3, Taken DEF Step
<1>7. m.todo # <<>> /\ m.op = "save" /\ Now(m) = "format" /\ Is(m, Now(m))
  BY <1>3, <1>4, <1>6 DEF GoesOn, Follows, Ends, Is, Now
<1>8. ASSUME open, excused \cap {"race", "slip"} = {}
      PROVE  /\ Owing(m)'
             /\ db'.auto # "" => live'.auto = db'.auto \/ OwesAuto(m)
             /\ db'.format # "" => live'.format = db'.format \/ OwesFormat(m)
             /\ db'.on # "" => live'.cron = Scheduled(db') \/ OwesCron(m)
             /\ live'.onboarded = db'.onboarded \/ OwesPage(m)
  <2>1. l.op \in Writers
    BY <1>4 DEF Writers
  <2>2. /\ Owing(l)
        /\ db.auto # "" => live.auto = db.auto \/ OwesAuto(l)
        /\ db.format # "" => live.format = db.format \/ OwesFormat(l)
        /\ db.on # "" => live.cron = Scheduled(db) \/ OwesCron(l)
        /\ live.onboarded = db.onboarded \/ OwesPage(l)
    BY <1>2, <1>3, <1>8, <2>1, FollowFacts
  <2>3. ~OwesAuto(l) /\ ~OwesFormat(l) /\ ~OwesPage(l) /\ l.seen = Scheduled(db)
    BY <1>3, <1>4, <2>2, OnlyIs DEF Owing
  <2>4. ~OwesAuto(m) /\ ~OwesFormat(m) /\ ~OwesPage(m)
    BY <1>7, OnlyIs
  <2>5. Owing(m)'
    BY <1>7, <2>4 DEF Owing, Is, Now
  <2>6. db' = db /\ Scheduled(db') = Scheduled(db)
    BY <1>1 DEF Scheduled
  <2> QED BY <1>5, <2>2, <2>3, <2>5, <2>6
<1>9. UNCHANGED <<db, staged, safe, open, running, exiting, now, lived>>
  BY <1>1 DEF world
<1> QED BY <1>4, <1>5, <1>6, <1>8, <1>9, WriterKeeps

(* PutFormat.                                                             *)
LEMMA PutFormatKeeps ==
    ASSUME Inv, NEW r \in Requests, PutFormat(r)
    PROVE  Inv'
<1>1. /\ At(r, "format")
      /\ Write([db EXCEPT !.format = req[r].form.format]) /\ Step(r)
      /\ UNCHANGED <<staged, safe, up, open, running, exiting, live, world, excused, budget>>
  BY DEF PutFormat
<1>2. PICK l : l = req[r]
  OBVIOUS
<1>3. /\ l \in Local /\ l.todo # <<>> /\ Now(l) = "format" /\ Is(l, "format") /\ Fits(l)
      /\ Planned(l.op, l.todo) /\ Types /\ AllFit /\ Follow /\ Data
  BY <1>1, <1>2, StepIs
<1>4. l.op = "save" /\ l.form \in Database
  BY <1>3, Owners, LocalIs
<1>5. db \in Database /\ live' \in Live
  BY <1>1, <1>3 DEF Data, Write
<1>6. /\ db' \in Database /\ db'.id = db.id /\ db'.user = db.user /\ db'.method = db.method
      /\ db'.sso = db.sso /\ db'.client = db.client
      /\ db'.auto = db.auto /\ db'.on = db.on /\ db'.sched = db.sched
      /\ db'.onboarded = db.onboarded /\ db'.format = l.form.format
  <2>1. l.form.format \in Formats
    BY <1>4, DBIs
  <2>2. db' = [db EXCEPT !.format = l.form.format]
    BY <1>1, <1>2 DEF Write
  <2> QED BY <1>5, <2>1, <2>2 DEF Database
<1>7. PICK m \in Local : Moves(r, l, m) /\ GoesOn(l, l, m) /\ Fits(m)'
  BY <1>1, <1>2, <1>3, Taken DEF Step
<1>8. m.todo # <<>> /\ m.op = "save" /\ m.form = l.form /\ Now(m) = "formatlive" /\ Is(m, Now(m))
  BY <1>3, <1>4, <1>7 DEF GoesOn, Follows, Ends, Is, Now
<1>9. ASSUME open, excused \cap {"race", "slip"} = {}
      PROVE  /\ Owing(m)'
             /\ db'.auto # "" => live'.auto = db'.auto \/ OwesAuto(m)
             /\ db'.format # "" => live'.format = db'.format \/ OwesFormat(m)
             /\ db'.on # "" => live'.cron = Scheduled(db') \/ OwesCron(m)
             /\ live'.onboarded = db'.onboarded \/ OwesPage(m)
  <2>1. l.op \in Writers
    BY <1>4 DEF Writers
  <2>2. /\ Owing(l)
        /\ db.auto # "" => live.auto = db.auto \/ OwesAuto(l)
        /\ db.format # "" => live.format = db.format \/ OwesFormat(l)
        /\ db.on # "" => live.cron = Scheduled(db) \/ OwesCron(l)
        /\ live.onboarded = db.onboarded \/ OwesPage(l)
    BY <1>2, <1>3, <1>9, <2>1, FollowFacts
  <2>3. ~OwesAuto(l) /\ ~OwesFormat(l) /\ ~OwesPage(l) /\ ~OwesCron(l)
    BY <1>3, <1>4, OnlyIs
  <2>4. ~OwesAuto(m) /\ OwesFormat(m) /\ ~OwesPage(m)
    BY <1>8, OnlyIs
  <2>5. Owing(m)'
    BY <1>6, <1>8, <2>4 DEF Owing, Is, Now
  <2>6. live' = live /\ Scheduled(db') = Scheduled(db)
    BY <1>1, <1>6 DEF Scheduled
  <2> QED BY <1>6, <2>2, <2>3, <2>4, <2>5, <2>6
<1>10. UNCHANGED <<staged, safe, open, running, exiting, now, lived>>
  BY <1>1 DEF world
<1> QED BY <1>4, <1>5, <1>6, <1>7, <1>9, <1>10, WriterKeeps

(* SetOutputFormat.                                                       *)
LEMMA SetOutputFormatKeeps ==
    ASSUME Inv, NEW r \in Requests, SetOutputFormat(r)
    PROVE  Inv'
<1>1. /\ At(r, "formatlive")
      /\ Step(r) /\ live' = [live EXCEPT !.format = req[r].form.format]
      /\ UNCHANGED <<db, staged, safe, up, open, running, exiting, world, excused, budget>>
  BY DEF SetOutputFormat
<1>2. PICK l : l = req[r]
  OBVIOUS
<1>3. /\ l \in Local /\ l.todo # <<>> /\ Now(l) = "formatlive" /\ Is(l, "formatlive") /\ Fits(l)
      /\ Planned(l.op, l.todo) /\ Types /\ AllFit /\ Follow /\ Data
  BY <1>1, <1>2, StepIs
<1>4. l.op = "save" /\ l.form.format \in {"m4b", "mp3"}
  <2>1. l.form \in Database
    BY <1>3, LocalIs
  <2> QED BY <1>3, <2>1, Owners, DBIs DEF Fits, Formats
<1>5. live' \in Live /\ live'.cron = live.cron /\ live'.auto = live.auto
      /\ live'.onboarded = live.onboarded /\ live'.format = l.form.format
  <2>1. live \in Live
    BY <1>3 DEF Data
  <2> QED BY <1>1, <1>2, <1>4, <2>1 DEF Live
<1>6. PICK m \in Local : Moves(r, l, m) /\ GoesOn(l, l, m) /\ Fits(m)'
  BY <1>1, <1>2, <1>3, Taken DEF Step
<1>7. m = Closed
  BY <1>3, <1>4, <1>6 DEF GoesOn, Follows, Ends
<1>8. ASSUME open, excused \cap {"race", "slip"} = {}
      PROVE  /\ Owing(m)'
             /\ db'.auto # "" => live'.auto = db'.auto \/ OwesAuto(m)
             /\ db'.format # "" => live'.format = db'.format \/ OwesFormat(m)
             /\ db'.on # "" => live'.cron = Scheduled(db') \/ OwesCron(m)
             /\ live'.onboarded = db'.onboarded \/ OwesPage(m)
  <2>1. l.op \in Writers
    BY <1>4 DEF Writers
  <2>2. /\ Owing(l)
        /\ db.auto # "" => live.auto = db.auto \/ OwesAuto(l)
        /\ db.format # "" => live.format = db.format \/ OwesFormat(l)
        /\ db.on # "" => live.cron = Scheduled(db) \/ OwesCron(l)
        /\ live.onboarded = db.onboarded \/ OwesPage(l)
    BY <1>2, <1>3, <1>8, <2>1, FollowFacts
  <2>3. ~OwesAuto(l) /\ ~OwesCron(l) /\ ~OwesPage(l) /\ OwesFormat(l)
    BY <1>3, <1>4, OnlyIs
  <2>4. db.format = l.form.format
    BY <2>2, <2>3 DEF Owing
  <2>5. Owing(m)'
    BY <1>7, ClosedOwes DEF Owing
  <2>6. db' = db /\ Scheduled(db') = Scheduled(db)
    BY <1>1 DEF Scheduled
  <2> QED BY <1>5, <2>2, <2>3, <2>4, <2>5, <2>6
<1>9. UNCHANGED <<db, staged, safe, open, running, exiting, now, lived>>
  BY <1>1 DEF world
<1> QED BY <1>4, <1>5, <1>6, <1>8, <1>9, WriterKeeps

(* PutChoice.                                                             *)
LEMMA PutChoiceKeeps ==
    ASSUME Inv, NEW r \in Requests, PutChoice(r)
    PROVE  Inv'
<1>1. /\ At(r, "choice")
      /\ Write([db EXCEPT !.auto = req[r].form.auto])
      /\ Learn(r, [req[r] EXCEPT !.changed = {"auto"}])
      /\ UNCHANGED <<staged, safe, up, open, running, exiting, live, world, excused, budget>>
  BY DEF PutChoice
<1>2. PICK l : l = req[r]
  OBVIOUS
<1>3. /\ l \in Local /\ l.todo # <<>> /\ Now(l) = "choice" /\ Is(l, "choice") /\ Fits(l)
      /\ Planned(l.op, l.todo) /\ Types /\ AllFit /\ Follow /\ Data
  BY <1>1, <1>2, StepIs
<1>4. l.op = "finish" /\ l.form \in Database
  BY <1>3, Owners, LocalIs
<1>5. db \in Database /\ live' \in Live
  BY <1>1, <1>3 DEF Data, Write
<1>6. /\ db' \in Database /\ db'.id = db.id /\ db'.user = db.user /\ db'.method = db.method
      /\ db'.sso = db.sso /\ db'.client = db.client
      /\ db'.format = db.format /\ db'.on = db.on /\ db'.sched = db.sched
      /\ db'.onboarded = db.onboarded /\ db'.auto = l.form.auto
  <2>1. l.form.auto \in Answers
    BY <1>4, DBIs
  <2>2. db' = [db EXCEPT !.auto = l.form.auto]
    BY <1>1, <1>2 DEF Write
  <2> QED BY <1>5, <2>1, <2>2 DEF Database
<1>7. PICK n \in Local :
         /\ n.op = l.op /\ n.form = l.form /\ n.upload = l.upload /\ n.changed = {"auto"}
         /\ Learn(r, n)
  <2>1. PICK n : n = [l EXCEPT !.changed = {"auto"}]
    OBVIOUS
  <2>2. n \in Local /\ n.op = l.op /\ n.form = l.form /\ n.upload = l.upload
        /\ n.changed = {"auto"}
    BY <1>3, <2>1 DEF Local
  <2> QED BY <1>1, <1>2, <2>1, <2>2
<1>8. PICK m \in Local : Moves(r, l, m) /\ GoesOn(l, n, m) /\ Fits(m)'
  BY <1>1, <1>2, <1>3, <1>7, Taken
<1>9. m.todo # <<>> /\ m.op = "finish" /\ m.form = l.form /\ m.changed = {"auto"}
      /\ Now(m) = "autolive" /\ Is(m, Now(m))
  BY <1>3, <1>4, <1>7, <1>8 DEF GoesOn, Follows, Ends, Is, Now
<1>10. ASSUME open, excused \cap {"race", "slip"} = {}
      PROVE  /\ Owing(m)'
             /\ db'.auto # "" => live'.auto = db'.auto \/ OwesAuto(m)
             /\ db'.format # "" => live'.format = db'.format \/ OwesFormat(m)
             /\ db'.on # "" => live'.cron = Scheduled(db') \/ OwesCron(m)
             /\ live'.onboarded = db'.onboarded \/ OwesPage(m)
  <2>1. l.op \in Writers
    BY <1>4 DEF Writers
  <2>2. /\ Owing(l)
        /\ db.auto # "" => live.auto = db.auto \/ OwesAuto(l)
        /\ db.format # "" => live.format = db.format \/ OwesFormat(l)
        /\ db.on # "" => live.cron = Scheduled(db) \/ OwesCron(l)
        /\ live.onboarded = db.onboarded \/ OwesPage(l)
    BY <1>2, <1>3, <1>10, <2>1, FollowFacts
  <2>3. ~OwesAuto(l) /\ ~OwesFormat(l) /\ ~OwesPage(l) /\ ~OwesCron(l)
    BY <1>3, <1>4, OnlyIs
  <2>4. OwesAuto(m) /\ ~OwesFormat(m) /\ ~OwesPage(m)
    BY <1>9, OnlyIs
  <2>5. Owing(m)'
    BY <1>6, <1>9, <2>4 DEF Owing, Is, Now
  <2>6. live' = live /\ Scheduled(db') = Scheduled(db)
    BY <1>1, <1>6 DEF Scheduled
  <2> QED BY <1>6, <2>2, <2>3, <2>4, <2>5, <2>6
<1>11. UNCHANGED <<staged, safe, open, running, exiting, now, lived>>
  BY <1>1 DEF world
<1> QED BY <1>4, <1>5, <1>6, <1>8, <1>10, <1>11, WriterKeeps

(* PutOnboarded.                                                          *)
LEMMA PutOnboardedKeeps ==
    ASSUME Inv, NEW r \in Requests, PutOnboarded(r)
    PROVE  Inv'
<1>1. /\ At(r, "onboarded")
      /\ Write([db EXCEPT !.onboarded = req[r].form.onboarded]) /\ Step(r)
      /\ UNCHANGED <<staged, safe, up, open, running, exiting, live, world, excused, budget>>
  BY DEF PutOnboarded
<1>2. PICK l : l = req[r]
  OBVIOUS
<1>3. /\ l \in Local /\ l.todo # <<>> /\ Now(l) = "onboarded" /\ Is(l, "onboarded") /\ Fits(l)
      /\ Planned(l.op, l.todo) /\ Types /\ AllFit /\ Follow /\ Data
  BY <1>1, <1>2, StepIs
<1>4. l.op \in {"finish", "skip", "again"} /\ l.form \in Database
  BY <1>3, Owners, LocalIs
<1>5. db \in Database /\ live' \in Live
  BY <1>1, <1>3 DEF Data, Write
<1>6. /\ db' \in Database /\ db'.id = db.id /\ db'.user = db.user /\ db'.method = db.method
      /\ db'.sso = db.sso /\ db'.client = db.client
      /\ db'.format = db.format /\ db'.on = db.on /\ db'.sched = db.sched
      /\ db'.auto = db.auto /\ db'.onboarded = l.form.onboarded
  <2>1. l.form.onboarded \in BOOLEAN
    BY <1>4, DBIs
  <2>2. db' = [db EXCEPT !.onboarded = l.form.onboarded]
    BY <1>1, <1>2 DEF Write
  <2> QED BY <1>5, <2>1, <2>2 DEF Database
<1>7. PICK m \in Local : Moves(r, l, m) /\ GoesOn(l, l, m) /\ Fits(m)'
  BY <1>1, <1>2, <1>3, Taken DEF Step
<1>8. m.todo # <<>> /\ m.op = l.op /\ m.form = l.form /\ Now(m) = "mirror" /\ Is(m, Now(m))
  BY <1>3, <1>4, <1>7 DEF GoesOn, Follows, Ends, Is, Now
<1>9. ASSUME open, excused \cap {"race", "slip"} = {}
      PROVE  /\ Owing(m)'
             /\ db'.auto # "" => live'.auto = db'.auto \/ OwesAuto(m)
             /\ db'.format # "" => live'.format = db'.format \/ OwesFormat(m)
             /\ db'.on # "" => live'.cron = Scheduled(db') \/ OwesCron(m)
             /\ live'.onboarded = db'.onboarded \/ OwesPage(m)
  <2>1. l.op \in Writers
    BY <1>4 DEF Writers
  <2>2. /\ Owing(l)
        /\ db.auto # "" => live.auto = db.auto \/ OwesAuto(l)
        /\ db.format # "" => live.format = db.format \/ OwesFormat(l)
        /\ db.on # "" => live.cron = Scheduled(db) \/ OwesCron(l)
        /\ live.onboarded = db.onboarded \/ OwesPage(l)
    BY <1>2, <1>3, <1>9, <2>1, FollowFacts
  <2>3. ~OwesAuto(l) /\ ~OwesFormat(l) /\ ~OwesPage(l) /\ ~OwesCron(l)
    BY <1>3, <1>4, OnlyIs
  <2>4. ~OwesAuto(m) /\ ~OwesFormat(m) /\ OwesPage(m)
    BY <1>8, OnlyIs
  <2>5. Owing(m)'
    BY <1>6, <1>8, <2>4 DEF Owing, Is, Now
  <2>6. live' = live /\ Scheduled(db') = Scheduled(db)
    BY <1>1, <1>6 DEF Scheduled
  <2> QED BY <1>6, <2>2, <2>3, <2>4, <2>5, <2>6
<1>10. UNCHANGED <<staged, safe, open, running, exiting, now, lived>>
  BY <1>1 DEF world
<1> QED BY <1>4, <1>5, <1>6, <1>7, <1>9, <1>10, WriterKeeps

(* StoreOnboarded.                                                        *)
LEMMA StoreOnboardedKeeps ==
    ASSUME Inv, NEW r \in Requests, StoreOnboarded(r)
    PROVE  Inv'
<1>1. /\ At(r, "mirror")
      /\ Step(r) /\ live' = [live EXCEPT !.onboarded = req[r].form.onboarded]
      /\ UNCHANGED <<db, staged, safe, up, open, running, exiting, world, excused, budget>>
  BY DEF StoreOnboarded
<1>2. PICK l : l = req[r]
  OBVIOUS
<1>3. /\ l \in Local /\ l.todo # <<>> /\ Now(l) = "mirror" /\ Is(l, "mirror") /\ Fits(l)
      /\ Planned(l.op, l.todo) /\ Types /\ AllFit /\ Follow /\ Data
  BY <1>1, <1>2, StepIs
<1>4. l.op \in {"finish", "skip", "again", "reset"} /\ l.form.onboarded \in BOOLEAN
  <2>1. l.form \in Database
    BY <1>3, LocalIs
  <2> QED BY <1>3, <2>1, Owners, DBIs
<1>5. live' \in Live /\ live'.cron = live.cron /\ live'.auto = live.auto
      /\ live'.format = live.format /\ live'.onboarded = l.form.onboarded
  <2>1. live \in Live
    BY <1>3 DEF Data
  <2> QED BY <1>1, <1>2, <1>4, <2>1 DEF Live
<1>6. PICK m \in Local : Moves(r, l, m) /\ GoesOn(l, l, m) /\ Fits(m)'
  BY <1>1, <1>2, <1>3, Taken DEF Step
<1>7. /\ l.op # "finish" => m = Closed
      /\ l.op = "finish" => m.todo # <<>> /\ m.op = "finish" /\ Now(m) = "choice"
  BY <1>3, <1>4, <1>6 DEF GoesOn, Follows, Ends
<1>8. ~OwesAuto(m) /\ ~OwesFormat(m) /\ ~OwesPage(m) /\ Owing(m)'
  <2>1. CASE l.op # "finish"
    BY <1>7, <2>1, ClosedOwes DEF Owing
  <2>2. CASE l.op = "finish"
    <3>1. m.op = "finish" /\ Now(m) = "choice" /\ Is(m, Now(m))
      BY <1>7, <2>2 DEF Is, Now
    <3> QED BY <3>1, OnlyIs DEF Owing, Is, Now
  <2> QED BY <2>1, <2>2
<1>9. ASSUME open, excused \cap {"race", "slip"} = {}
      PROVE  /\ Owing(m)'
             /\ db'.auto # "" => live'.auto = db'.auto \/ OwesAuto(m)
             /\ db'.format # "" => live'.format = db'.format \/ OwesFormat(m)
             /\ db'.on # "" => live'.cron = Scheduled(db') \/ OwesCron(m)
             /\ live'.onboarded = db'.onboarded \/ OwesPage(m)
  <2>1. l.op \in Writers
    BY <1>4 DEF Writers
  <2>2. /\ Owing(l)
        /\ db.auto # "" => live.auto = db.auto \/ OwesAuto(l)
        /\ db.format # "" => live.format = db.format \/ OwesFormat(l)
        /\ db.on # "" => live.cron = Scheduled(db) \/ OwesCron(l)
        /\ live.onboarded = db.onboarded \/ OwesPage(l)
    BY <1>2, <1>3, <1>9, <2>1, FollowFacts
  <2>3. ~OwesAuto(l) /\ ~OwesFormat(l) /\ ~OwesCron(l) /\ OwesPage(l)
    BY <1>3, OnlyIs
  <2>4. db.onboarded = l.form.onboarded
    BY <2>2, <2>3 DEF Owing
  <2>5. db' = db /\ Scheduled(db') = Scheduled(db)
    BY <1>1 DEF Scheduled
  <2> QED BY <1>5, <1>8, <2>2, <2>3, <2>4, <2>5
<1>10. UNCHANGED <<db, staged, safe, open, running, exiting, now, lived>>
  BY <1>1 DEF world
<1>11. CASE l.op # "reset"
  BY <1>4, <1>5, <1>6, <1>9, <1>10, <1>11, WriterKeeps
<1>12. CASE l.op = "reset"
  <2>1. ~WillStart(l) /\ ~Is(l, "settings") /\ running \in BOOLEAN
    BY <1>3, <1>12 DEF WillStart, WillEnd, Is, Now, Data
  <2>2. Safe(db) => Safe(db)'
    BY <1>10 DEF Safe
  <2> QED BY <1>5, <1>6, <1>9, <1>10, <1>12, <2>1, <2>2, ResetKeeps
<1> QED BY <1>11, <1>12

-----------------------------------------------------------------------------
(* Who can sign in *)

(* GetUserByUsername.                                                     *)
LEMMA FindKeeps ==
    ASSUME Inv, NEW r \in Requests, GetUserByUsername(r)
    PROVE  Inv'
<1>1. /\ At(r, "find") /\ open
      /\ \E same \in BOOLEAN : Learn(r, [req[r] EXCEPT !.seen = db.user /\ same])
      /\ UNCHANGED <<db, staged, safe, up, open, running, exiting, live, world, excused, budget>>
  BY DEF GetUserByUsername
<1>2. PICK l : l = req[r]
  OBVIOUS
<1>3. /\ l \in Local /\ l.todo # <<>> /\ Now(l) = "find" /\ Is(l, "find") /\ Fits(l)
      /\ Planned(l.op, l.todo) /\ Types /\ AllFit /\ Follow /\ Data
  BY <1>1, <1>2, StepIs
<1>4. l.op \in {"admin", "password", "callback"}
  BY <1>3, Owners
<1>5. db \in Database /\ db.user \in BOOLEAN
  <2>1. db \in Database
    BY <1>1, <1>3 DEF Data
  <2> QED BY <2>1, DBIs
<1>6. PICK n \in Local :
         /\ n.op = l.op /\ n.form = l.form /\ n.upload = l.upload /\ (n.seen => db.user)
         /\ Learn(r, n)
  <2>1. PICK same \in BOOLEAN : Learn(r, [l EXCEPT !.seen = db.user /\ same])
    BY <1>1, <1>2
  <2>2. PICK d \in BOOLEAN : d = (db.user /\ same)
    OBVIOUS
  <2>3. PICK n : n = [l EXCEPT !.seen = d]
    OBVIOUS
  <2>4. n \in Local /\ n.op = l.op /\ n.form = l.form /\ n.upload = l.upload /\ n.seen = d
    BY <1>3, <2>3 DEF Local
  <2>5. Learn(r, n)
    BY <2>1, <2>2, <2>3
  <2> QED BY <2>2, <2>4, <2>5
<1>7. PICK m \in Local : Moves(r, l, m) /\ GoesOn(l, n, m) /\ Fits(m)'
  BY <1>1, <1>2, <1>3, <1>6, Taken
<1>8. m.todo # <<>> /\ Now(m) = "upsert" /\ m.seen = n.seen /\ Is(m, Now(m))
  BY <1>3, <1>4, <1>7 DEF GoesOn, Follows, Ends, Is, Now
<1>9. Trusts(m, db')
  BY <1>1, <1>6, <1>8 DEF Trusts, Is, Now
<1>10. UNCHANGED <<db, staged, safe, open, running, exiting, now, lived, live>>
  BY <1>1 DEF world
<1>11. (Safe(db) => Safe(db)') /\ (Way(db) => Way(db'))
  BY <1>10 DEF Safe
<1> QED BY <1>4, <1>7, <1>9, <1>10, <1>11, SignInKeeps

(* UpsertUser.                                                             *)
LEMMA UpsertKeeps ==
    ASSUME Inv, NEW r \in Requests, UpsertUser(r)
    PROVE  Inv'
<1>1. /\ At(r, "upsert") /\ open
      /\ \/ db' = (IF req[r].seen THEN db ELSE [db EXCEPT !.user = TRUE]) /\ Step(r)
         \/ ~req[r].seen /\ db.user /\ Then(r, <<>>, req[r]) /\ UNCHANGED db
      /\ UNCHANGED <<staged, safe, up, open, running, exiting, live, world, excused, budget>>
  BY DEF UpsertUser, Write
<1>2. PICK l : l = req[r]
  OBVIOUS
<1>3. /\ l \in Local /\ l.todo # <<>> /\ Now(l) = "upsert" /\ Is(l, "upsert") /\ Fits(l)
      /\ Planned(l.op, l.todo) /\ Types /\ AllFit /\ Secure /\ Data
  BY <1>1, <1>2, StepIs
<1>4. l.op \in {"admin", "password", "callback"} /\ db \in Database
  BY <1>1, <1>3, Owners DEF Data
<1>5. UNCHANGED <<staged, safe, open, running, exiting, now, lived, live>>
  BY <1>1 DEF world
<1>6. ASSUME excused \cap {"crossed", "cut", "off"} = {}, l.seen PROVE db.user
  <2>1. Trusts(l, db)
    BY <1>1, <1>2, <1>3, <1>6, SecureFacts
  <2> QED BY <1>3, <1>6, <2>1 DEF Trusts
<1>7. CASE Step(r) /\ db' = (IF l.seen THEN db ELSE [db EXCEPT !.user = TRUE])
  <2>1. PICK m \in Local : Moves(r, l, m) /\ GoesOn(l, l, m) /\ Fits(m)'
    BY <1>1, <1>2, <1>3, <1>7, Taken DEF Step
  <2>2. /\ db' = db \/ ( /\ db \in Database /\ db' \in Database /\ db'.id = db.id
                         /\ db'.auto = db.auto /\ db'.format = db.format /\ db'.on = db.on
                         /\ db'.sched = db.sched /\ db'.onboarded = db.onboarded
                         /\ db.user => db'.user )
        /\ l.seen => db' = db
        /\ ~l.seen => db'.user
    BY <1>4, <1>7 DEF Database
  <2>3. excused \cap {"crossed", "cut", "off"} = {} => db'.user
    BY <1>6, <2>2
  <2>4. ASSUME excused' \cap {"crossed", "cut", "off"} = {}
        PROVE  (Safe(db) => Safe(db)') /\ (Way(db) => Way(db')) /\ Trusts(m, db')
    <3>1. db'.user
      BY <1>1, <2>3, <2>4
    <3> QED BY <3>1, Trusting DEF Safe
  <2> QED BY <1>4, <1>5, <2>1, <2>2, <2>4, SignInKeeps
<1>8. CASE Then(r, <<>>, l) /\ db' = db
  <2>1. /\ <<>> \in Seq(Steps) /\ Planned(l.op, <<>>)
        /\ up' = up /\ (open' => open) /\ excused \subseteq excused'
        /\ "anew" \in excused' => "anew" \in excused
    BY <1>1 DEF Planned
  <2>2. PICK m \in Local : Moves(r, l, m) /\ Fits(m)' /\ m = Closed
    BY <1>2, <1>3, <1>8, <2>1, PlanTaken
  <2>3. Trusts(m, db')
    BY <2>2, ClosedOwes, Trusting
  <2>4. (Safe(db) => Safe(db)') /\ (Way(db) => Way(db'))
    BY <1>8 DEF Safe
  <2> QED BY <1>4, <1>5, <1>8, <2>2, <2>3, <2>4, SignInKeeps
<1> QED BY <1>1, <1>2, <1>7, <1>8

(* CountUsers.                                                             *)
LEMMA CountUsersKeeps ==
    ASSUME Inv, NEW r \in Requests, CountUsers(r)
    PROVE  Inv'
<1>1. /\ At(r, "count") /\ open
      /\ Then(r, IF db.user THEN Tail(Tail1(r)) ELSE Tail1(r), req[r])
      /\ UNCHANGED <<db, staged, safe, up, open, running, exiting, live, world, excused, budget>>
  BY DEF CountUsers
<1>2. PICK l : l = req[r]
  OBVIOUS
<1>3. /\ l \in Local /\ l.todo # <<>> /\ Now(l) = "count" /\ Is(l, "count") /\ Fits(l)
      /\ Planned(l.op, l.todo) /\ Types /\ AllFit /\ Secure /\ Data
  BY <1>1, <1>2, StepIs
<1>4. l.op = "method"
  BY <1>3, Owners
<1>5. UNCHANGED <<db, staged, safe, open, running, exiting, now, lived, live>>
  BY <1>1 DEF world
<1>6. (Safe(db) => Safe(db)') /\ (Way(db) => Way(db'))
  BY <1>5 DEF Safe
<1>7. Tail(l.todo) # <<>> /\ Head(Tail(l.todo)) = "ready"
  BY <1>2, <1>3, <1>4, Leaves DEF Goes, Follows, Ends
<1>8. /\ up' = up /\ (open' => open) /\ excused \subseteq excused'
      /\ "anew" \in excused' => "anew" \in excused
  BY <1>1
<1>9. CASE db.user
  <2>1. Then(r, Tail(Tail1(r)), l)
    BY <1>1, <1>2, <1>9
  <2>2. PICK m \in Local : Moves(r, l, m) /\ Fits(m)'
    BY <1>2, <1>3, <1>4, <1>7, <1>8, <2>1, Skipped
  <2>3. Trusts(m, db')
    BY <1>5, <1>9, Trusting
  <2> QED BY <1>4, <1>5, <1>6, <2>2, <2>3, SignInKeeps
<1>10. CASE ~db.user
  <2>1. Learn(r, l)
    BY <1>1, <1>2, <1>10 DEF Learn
  <2>2. PICK m \in Local :
           /\ Moves(r, l, m) /\ GoesOn(l, l, m) /\ Fits(m)'
           /\ m = Closed <=> Tail(l.todo) = <<>>
    BY <1>2, <1>3, <1>8, <2>1, Taken
  <2>3. m.todo # <<>> /\ Now(m) = "ready" /\ Is(m, Now(m))
    BY <1>3, <1>4, <1>7, <2>2 DEF GoesOn, Follows, Ends, Is, Now
  <2>4. Trusts(m, db')
    BY <2>3, OnlyIs, Trusting
  <2> QED BY <1>4, <1>5, <1>6, <2>2, <2>4, SignInKeeps
<1> QED BY <1>9, <1>10

(* oidcReady.                                                              *)
LEMMA ReadyKeeps ==
    ASSUME Inv, NEW r \in Requests, oidcReady(r)
    PROVE  Inv'
<1>1. /\ At(r, "ready") /\ open
      /\ (Ready(db) /\ Step(r)) \/ Then(r, <<>>, req[r])
      /\ UNCHANGED <<db, staged, safe, up, open, running, exiting, live, world, excused, budget>>
  BY DEF oidcReady
<1>2. PICK l : l = req[r]
  OBVIOUS
<1>3. /\ l \in Local /\ l.todo # <<>> /\ Now(l) = "ready" /\ Is(l, "ready") /\ Fits(l)
      /\ Planned(l.op, l.todo) /\ Types /\ AllFit /\ Secure /\ Data
  BY <1>1, <1>2, StepIs
<1>4. l.op \in {"method", "callback"}
  BY <1>3, Owners
<1>5. UNCHANGED <<db, staged, safe, open, running, exiting, now, lived, live>>
  BY <1>1 DEF world
<1>6. (Safe(db) => Safe(db)') /\ (Way(db) => Way(db'))
  BY <1>5 DEF Safe
<1>7. CASE Ready(db) /\ Step(r)
  <2>1. PICK m \in Local : Moves(r, l, m) /\ GoesOn(l, l, m) /\ Fits(m)'
    BY <1>1, <1>2, <1>3, <1>7, Taken DEF Step
  <2>2. m.todo # <<>> /\ Now(m) \in {"method", "find"}
    BY <1>3, <1>4, <2>1 DEF GoesOn, Follows, Ends
  <2>3. Way(db')
    BY <1>5, <1>7 DEF Way
  <2>4. Trusts(m, db')
    BY <2>2, <2>3 DEF Trusts, Is, Now
  <2> QED BY <1>4, <1>5, <1>6, <2>1, <2>4, SignInKeeps
<1>8. CASE Then(r, <<>>, l)
  <2>1. /\ <<>> \in Seq(Steps) /\ Planned(l.op, <<>>)
        /\ up' = up /\ (open' => open) /\ excused \subseteq excused'
        /\ "anew" \in excused' => "anew" \in excused
    BY <1>1 DEF Planned
  <2>2. PICK m \in Local : Moves(r, l, m) /\ Fits(m)' /\ m = Closed
    BY <1>2, <1>3, <1>8, <2>1, PlanTaken
  <2>3. Trusts(m, db')
    BY <2>2, ClosedOwes, Trusting
  <2> QED BY <1>4, <1>5, <1>6, <2>2, <2>3, SignInKeeps
<1> QED BY <1>1, <1>2, <1>7, <1>8

(* PutOIDC: where it leaves nobody who can sign in, it is excused.         *)
LEMMA PutOIDCKeeps ==
    ASSUME Inv, NEW r \in Requests, PutOIDC(r)
    PROVE  Inv'
<1>1. PICK s \in {"sso", "client"} :
         /\ At(r, s) /\ open /\ Step(r)
         /\ db' = IF s = "sso" THEN [db EXCEPT !.sso = req[r].form.sso]
                  ELSE [db EXCEPT !.client = req[r].form.client]
         /\ excused' = IF Way(db) /\ ~Way(db') THEN excused \cup {"off"} ELSE excused
         /\ UNCHANGED <<staged, safe, up, open, running, exiting, live, world, budget>>
  <2>1. CASE At(r, "sso") /\ Write([db EXCEPT !.sso = req[r].form.sso])
    BY <2>1 DEF PutOIDC, Write
  <2>2. CASE At(r, "client") /\ Write([db EXCEPT !.client = req[r].form.client])
    BY <2>2 DEF PutOIDC, Write
  <2> QED BY <2>1, <2>2 DEF PutOIDC
<1>2. PICK l : l = req[r]
  OBVIOUS
<1>3. /\ l \in Local /\ l.todo # <<>> /\ Now(l) = s /\ Is(l, s) /\ Fits(l)
      /\ Planned(l.op, l.todo) /\ Types /\ AllFit /\ Secure /\ Data
  BY <1>1, <1>2, StepIs
<1>4. l.op = "oidc" /\ l.form \in Database /\ db \in Database
  BY <1>1, <1>3, Owners, LocalIs DEF Data
<1>5. /\ db' \in Database /\ db'.id = db.id /\ db'.user = db.user /\ db'.method = db.method
      /\ db'.format = db.format /\ db'.on = db.on /\ db'.sched = db.sched
      /\ db'.auto = db.auto /\ db'.onboarded = db.onboarded
  <2>1. l.form.sso \in BOOLEAN /\ l.form.client \in BOOLEAN
    BY <1>4, DBIs
  <2>2. CASE s = "sso"
    <3>1. db' = [db EXCEPT !.sso = l.form.sso]
      BY <1>1, <1>2, <2>2
    <3> QED BY <1>4, <2>1, <3>1 DEF Database
  <2>3. CASE s = "client"
    <3>1. db' = [db EXCEPT !.client = l.form.client]
      BY <1>1, <1>2, <2>3
    <3> QED BY <1>4, <2>1, <3>1 DEF Database
  <2> QED BY <2>2, <2>3
<1>6. excused \subseteq excused' /\ ("anew" \in excused' => "anew" \in excused)
  BY <1>1
<1>7. PICK m \in Local : Moves(r, l, m) /\ GoesOn(l, l, m) /\ Fits(m)'
  BY <1>1, <1>2, <1>3, <1>6, Taken DEF Step
<1>8. Trusts(m, db')
  <2>1. CASE m = Closed
    BY <2>1, ClosedOwes, Trusting
  <2>2. CASE m # Closed
    <3>1. Now(m) = "client"
      BY <1>3, <1>4, <1>7, <2>2 DEF GoesOn, Follows
    <3> QED BY <3>1 DEF Trusts, Is, Now
  <2> QED BY <2>1, <2>2
<1>9. ASSUME excused' \cap {"crossed", "cut", "off"} = {}
      PROVE  (Safe(db) => Safe(db)') /\ (Way(db) => Way(db'))
  <2>1. Way(db) => Way(db')
    BY <1>1, <1>9
  <2> QED BY <1>4, <1>5, <2>1 DEF Safe
<1>10. UNCHANGED <<staged, safe, open, running, exiting, now, lived, live>>
  BY <1>1 DEF world
<1> QED BY <1>4, <1>5, <1>7, <1>8, <1>9, <1>10, SignInKeeps

(* PutMethod.                                                             *)
LEMMA PutMethodKeeps ==
    ASSUME Inv, NEW r \in Requests, PutMethod(r)
    PROVE  Inv'
<1>1. /\ At(r, "method")
      /\ Write([db EXCEPT !.method = req[r].form.method]) /\ Step(r)
      /\ UNCHANGED <<staged, safe, up, open, running, exiting, live, world, excused, budget>>
  BY DEF PutMethod
<1>2. PICK l : l = req[r]
  OBVIOUS
<1>3. /\ l \in Local /\ l.todo # <<>> /\ Now(l) = "method" /\ Is(l, "method") /\ Fits(l)
      /\ Planned(l.op, l.todo) /\ Types /\ AllFit /\ Secure /\ Data
  BY <1>1, <1>2, StepIs
<1>4. l.op \in {"admin", "noadmin", "method", "password"} /\ l.form \in Database
      /\ open /\ db \in Database
  BY <1>1, <1>3, Owners, LocalIs DEF Data, Write
<1>5. /\ db' \in Database /\ db'.id = db.id /\ db'.user = db.user /\ db'.method = l.form.method
      /\ db'.sso = db.sso /\ db'.client = db.client
      /\ db'.format = db.format /\ db'.on = db.on /\ db'.sched = db.sched
      /\ db'.auto = db.auto /\ db'.onboarded = db.onboarded
  <2>1. l.form.method \in {"", "none", "forms"}
    BY <1>4, DBIs
  <2>2. db' = [db EXCEPT !.method = l.form.method]
    BY <1>1, <1>2 DEF Write
  <2> QED BY <1>4, <2>1, <2>2 DEF Database
<1>6. PICK m \in Local : Moves(r, l, m) /\ GoesOn(l, l, m) /\ Fits(m)'
  BY <1>1, <1>2, <1>3, Taken DEF Step
<1>7. ~Asks(m)
  <2>1. CASE m = Closed
    BY <2>1, ClosedOwes
  <2>2. CASE m # Closed
    <3>1. m.todo # <<>> /\ Now(m) \in {"require", "required"} /\ Is(m, Now(m))
      BY <1>3, <1>4, <1>6, <2>2 DEF GoesOn, Follows, Ends, Is, Now
    <3> QED BY <3>1, OnlyIs
  <2> QED BY <2>1, <2>2
<1>8. ASSUME excused' \cap {"crossed", "cut", "off"} = {}
      PROVE  Safe(db)' /\ (Way(db) => Way(db')) /\ Trusts(m, db')
  <2>1. Way(db) => Way(db')
    BY <1>5 DEF Way, Ready
  <2>2. Trusts(m, db')
    BY <1>7, Trusting
  <2>3. CASE l.form.method = "forms"
    <3>1. Trusts(l, db)
      BY <1>1, <1>2, <1>3, <1>4, <1>8, SecureFacts
    <3>2. Way(db)
      BY <1>3, <2>3, <3>1 DEF Trusts
    <3> QED BY <2>1, <2>2, <3>2 DEF Safe
  <2>4. CASE l.form.method # "forms"
    BY <1>5, <2>1, <2>2, <2>4 DEF Safe
  <2> QED BY <2>3, <2>4
<1>9. UNCHANGED <<staged, safe, open, running, exiting, now, lived, live>>
  BY <1>1 DEF world
<1> QED BY <1>4, <1>5, <1>6, <1>7, <1>8, <1>9, SignInKeeps

(* PutRequired.                                                            *)
LEMMA PutRequiredKeeps ==
    ASSUME Inv, NEW r \in Requests, PutRequired(r)
    PROVE  Inv'
<1>1. PICK s \in {"required", "require"} :
         /\ At(r, s) /\ open /\ Step(r)
         /\ db' = db \/ \E q \in {req[r].form.required, "enabled"} :
                           db' = [db EXCEPT !.required = q]
         /\ UNCHANGED <<staged, safe, up, open, running, exiting, live, world, excused, budget>>
  <2>1. CASE At(r, "required") /\ Write([db EXCEPT !.required = req[r].form.required])
    BY <2>1 DEF PutRequired, Write
  <2>2. CASE At(r, "require") /\ Write(IF db.required # "" THEN db
                                       ELSE [db EXCEPT !.required = "enabled"])
    BY <2>2 DEF PutRequired, Write
  <2> QED BY <2>1, <2>2 DEF PutRequired
<1>2. PICK l : l = req[r]
  OBVIOUS
<1>3. /\ l \in Local /\ l.todo # <<>> /\ Now(l) = s /\ Is(l, s) /\ Fits(l)
      /\ Planned(l.op, l.todo) /\ Types /\ AllFit /\ Secure /\ Data
  BY <1>1, <1>2, StepIs
<1>4. l.op \in {"admin", "method"} /\ l.form \in Database /\ db \in Database
  BY <1>1, <1>3, Owners, LocalIs DEF Data
<1>5. db' = db \/ ( /\ db' \in Database /\ db'.id = db.id /\ db'.user = db.user
                    /\ db'.method = db.method /\ db'.sso = db.sso /\ db'.client = db.client
                    /\ db'.format = db.format /\ db'.on = db.on /\ db'.sched = db.sched
                    /\ db'.auto = db.auto /\ db'.onboarded = db.onboarded )
  <2>1. CASE db' # db
    <3>1. PICK q \in {l.form.required, "enabled"} : db' = [db EXCEPT !.required = q]
      BY <1>1, <1>2, <2>1
    <3>2. q \in {"", "enabled", "localhost"}
      BY <1>4, DBIs
    <3> QED BY <1>4, <3>1, <3>2 DEF Database
  <2> QED BY <2>1
<1>6. PICK m \in Local : Moves(r, l, m) /\ GoesOn(l, l, m) /\ Fits(m)'
  BY <1>1, <1>2, <1>3, Taken DEF Step
<1>7. m = Closed
  BY <1>3, <1>4, <1>6 DEF GoesOn, Follows, Ends
<1>8. Trusts(m, db')
  BY <1>7, ClosedOwes, Trusting
<1>9. (Safe(db) => Safe(db)') /\ (Way(db) => Way(db'))
  BY <1>4, <1>5 DEF Safe, Way, Ready
<1>10. UNCHANGED <<staged, safe, open, running, exiting, now, lived, live>>
  BY <1>1 DEF world
<1> QED BY <1>4, <1>5, <1>6, <1>8, <1>9, <1>10, SignInKeeps

-----------------------------------------------------------------------------
(* The factory reset and the restore *)

(* The invariant, after a step of a restore that moves no file but the     *)
(* upload.                                                                 *)
LEMMA RestoreQuiet ==
    ASSUME Inv, NEW r \in Requests, NEW l, NEW m, Moves(r, l, m), Fits(m)',
           l.op \in {"restore", "restart"},
           Now(l) \in {"upload", "validate", "stop", "wait", "signal"}, ~Is(m, "aside"),
           UNCHANGED <<db, safe, open, now, lived, live>>,
           l.op = "restart" => staged' = staged,
           staged' \in Files, staged' \in Database => staged'.id = 0,
           Safe(staged) => Safe(staged)',
           running' \in BOOLEAN, running' => running, exiting' \in BOOLEAN, exiting => exiting',
           (l.op = "restore" /\ "twice" \notin excused /\ Restores(l)) => Restores(m)',
           \/ exiting'
           \/ /\ running' \/ WillStart(m) \/ (running' = running /\ ~WillStart(l))
              /\ open' \/ WillEnd(m) \/ ~WillEnd(l)
    PROVE  Inv'
<1>1. Types /\ AllFit /\ Kept /\ Data
  BY DEF Inv, Types
<1>2. l \in Local /\ l = req[r] /\ l.todo # <<>> /\ m \in Local /\ (m = Closed \/ m.op = l.op)
      /\ up' = up /\ excused \subseteq excused'
  BY DEF Moves
<1>3. up
  BY <1>1, <1>2 DEF AllFit, Fits
<1>4. Data'
  BY <1>1, <1>2, <1>3 DEF Data, Files, Numbers
<1>5. Kept'
  <2>1. CASE l.op = "restart"
    BY <1>1, <2>1, KeptOther
  <2>2. CASE l.op = "restore"
    <3>1. ~Is(l, "aside") /\ ~Replaces(l)
      BY DEF Is, Replaces, Now
    <3>2. "twice" \notin excused =>
             /\ \A i \in lived : db.id = i \/ \E t \in DOMAIN safe : safe[t].id = i
             /\ db # BadDB /\ \A t \in DOMAIN safe : safe[t] # BadDB
             /\ Restores(l)
             /\ open => now \notin DOMAIN safe
             /\ db = NoDB => "torn" \in excused \/ lived = {}
      BY <1>1, <1>2, <2>2, <3>1, RestoreFacts
    <3>3. "twice" \notin excused =>
             /\ \A i \in lived' : db'.id = i \/ \E t \in DOMAIN safe' : safe'[t].id = i
             /\ db' # BadDB /\ \A t \in DOMAIN safe' : safe'[t] # BadDB
             /\ Restores(m)'
             /\ open' \/ Is(m, "aside") => now' \notin DOMAIN safe'
             /\ db' = NoDB => "torn" \in excused' \/ lived' = {} \/ Replaces(m)
      BY <1>2, <2>2, <3>2
    <3> QED BY <1>1, <2>2, <3>3, KeptMine
  <2> QED BY <2>1, <2>2
<1>6. AllSafe => AllSafe'
  BY DEF AllSafe, Safe
<1> QED BY <1>4, <1>5, <1>6, RestoreKeeps

(* StopPipeline.                                                          *)
LEMMA StopKeeps ==
    ASSUME Inv, NEW r \in Requests, StopPipeline(r)
    PROVE  Inv'
<1>1. /\ At(r, "stop")
      /\ Step(r) /\ running' = FALSE
      /\ UNCHANGED <<db, staged, safe, up, open, exiting, live, world, excused, budget>>
  BY DEF StopPipeline
<1>2. PICK l : l = req[r]
  OBVIOUS
<1>3. /\ l \in Local /\ l.todo # <<>> /\ Now(l) = "stop" /\ Is(l, "stop") /\ Fits(l)
      /\ Planned(l.op, l.todo) /\ Types /\ AllFit /\ Follow /\ Data
  BY <1>1, <1>2, StepIs
<1>4. l.op \in {"reset", "restore"}
  BY <1>3, Owners
<1>5. PICK m \in Local : Moves(r, l, m) /\ GoesOn(l, l, m) /\ Fits(m)'
  BY <1>1, <1>2, <1>3, Taken DEF Step
<1>6. m.todo # <<>> /\ m.op = l.op /\ Now(m) = "wait" /\ Is(m, Now(m))
  BY <1>3, <1>4, <1>5 DEF GoesOn, Follows, Ends, Is, Now
<1>7. UNCHANGED <<db, staged, safe, open, exiting, now, lived, live>> /\ excused' = excused
      /\ live' \in Live /\ running' = FALSE /\ (Safe(db) => Safe(db)')
      /\ (Safe(staged) => Safe(staged)')
  BY <1>1, <1>3 DEF world, Data, Safe
<1>8. WillStart(m)
  BY <1>4, <1>6, OnlyIs
<1>9. CASE l.op = "reset"
  <2>1. ASSUME open, excused \cap {"race", "slip"} = {}
        PROVE  /\ Owing(m)'
               /\ db'.auto # "" => live'.auto = db'.auto \/ OwesAuto(m)
               /\ db'.format # "" => live'.format = db'.format \/ OwesFormat(m)
               /\ db'.on # "" => live'.cron = Scheduled(db') \/ OwesCron(m)
               /\ live'.onboarded = db'.onboarded \/ OwesPage(m)
    <3>1. l.op \in Writers
      BY <1>9 DEF Writers
    <3>2. /\ db.auto # "" => live.auto = db.auto \/ OwesAuto(l)
          /\ db.format # "" => live.format = db.format \/ OwesFormat(l)
          /\ db.on # "" => live.cron = Scheduled(db) \/ OwesCron(l)
          /\ live.onboarded = db.onboarded \/ OwesPage(l)
      BY <1>2, <1>3, <2>1, <3>1, FollowFacts
    <3>3. ~OwesAuto(l) /\ ~OwesFormat(l) /\ ~OwesCron(l) /\ ~OwesPage(l)
      BY <1>3, OnlyIs
    <3>4. ~OwesAuto(m) /\ ~OwesFormat(m) /\ ~OwesPage(m)
      BY <1>6, OnlyIs
    <3>5. Owing(m)'
      BY <1>6, <3>4 DEF Owing, Is, Now
    <3>6. Scheduled(db') = Scheduled(db)
      BY <1>7 DEF Scheduled
    <3> QED BY <1>7, <3>2, <3>3, <3>5, <3>6
  <2>2. ~Is(l, "settings")
    BY <1>3 DEF Is, Now
  <2> QED BY <1>5, <1>7, <1>8, <1>9, <2>1, <2>2, ResetKeeps
<1>10. CASE l.op = "restore"
  <2>1. Restores(l) => Restores(m)'
    BY <1>3, <1>6, <1>7, <1>10 DEF Restores
  <2>2. ~WillEnd(l) /\ ~Is(m, "aside")
    BY <1>3, <1>6, OnlyIs DEF Is, Now
  <2>3. staged' \in Files /\ (staged' \in Database => staged'.id = 0) /\ exiting' \in BOOLEAN
    BY <1>3, <1>7 DEF Data
  <2> QED BY <1>3, <1>5, <1>7, <1>8, <1>10, <2>1, <2>2, <2>3, RestoreQuiet
<1> QED BY <1>4, <1>9, <1>10

(* WaitPipeline.                                                          *)
LEMMA WaitKeeps ==
    ASSUME Inv, NEW r \in Requests, WaitPipeline(r)
    PROVE  Inv'
<1>1. /\ At(r, "wait")
      /\ ~running /\ Step(r)
      /\ UNCHANGED <<db, staged, safe, up, open, running, exiting, live, world, excused, budget>>
  BY DEF WaitPipeline
<1>2. PICK l : l = req[r]
  OBVIOUS
<1>3. /\ l \in Local /\ l.todo # <<>> /\ Now(l) = "wait" /\ Is(l, "wait") /\ Fits(l)
      /\ Planned(l.op, l.todo) /\ Types /\ AllFit /\ Follow /\ Data
  BY <1>1, <1>2, StepIs
<1>4. l.op \in {"reset", "restore"}
  BY <1>3, Owners
<1>5. PICK m \in Local : Moves(r, l, m) /\ GoesOn(l, l, m) /\ Fits(m)'
  BY <1>1, <1>2, <1>3, Taken DEF Step
<1>6. /\ m.todo # <<>> /\ m.op = l.op /\ Is(m, Now(m))
      /\ l.op = "reset" => Now(m) = "users"
      /\ l.op = "restore" => Now(m) = "close"
  BY <1>3, <1>4, <1>5 DEF GoesOn, Follows, Ends, Is, Now
<1>7. UNCHANGED <<db, staged, safe, open, running, exiting, now, lived, live>>
      /\ excused' = excused
      /\ live' \in Live /\ running' \in BOOLEAN /\ (Safe(db) => Safe(db)')
      /\ (Safe(staged) => Safe(staged)')
  BY <1>1, <1>3 DEF world, Data, Safe
<1>8. WillStart(m)
  BY <1>4, <1>6, OnlyIs
<1>9. CASE l.op = "reset"
  <2>1. ASSUME open, excused \cap {"race", "slip"} = {}
        PROVE  /\ Owing(m)'
               /\ db'.auto # "" => live'.auto = db'.auto \/ OwesAuto(m)
               /\ db'.format # "" => live'.format = db'.format \/ OwesFormat(m)
               /\ db'.on # "" => live'.cron = Scheduled(db') \/ OwesCron(m)
               /\ live'.onboarded = db'.onboarded \/ OwesPage(m)
    <3>1. l.op \in Writers
      BY <1>9 DEF Writers
    <3>2. /\ db.auto # "" => live.auto = db.auto \/ OwesAuto(l)
          /\ db.format # "" => live.format = db.format \/ OwesFormat(l)
          /\ db.on # "" => live.cron = Scheduled(db) \/ OwesCron(l)
          /\ live.onboarded = db.onboarded \/ OwesPage(l)
      BY <1>2, <1>3, <2>1, <3>1, FollowFacts
    <3>3. ~OwesAuto(l) /\ ~OwesFormat(l) /\ ~OwesCron(l) /\ ~OwesPage(l)
      BY <1>3, OnlyIs
    <3>4. ~OwesAuto(m) /\ ~OwesFormat(m) /\ ~OwesPage(m)
      BY <1>6, <1>9, OnlyIs
    <3>5. Owing(m)'
      BY <1>6, <1>9, <3>4 DEF Owing, Is, Now
    <3>6. Scheduled(db') = Scheduled(db)
      BY <1>7 DEF Scheduled
    <3> QED BY <1>7, <3>2, <3>3, <3>5, <3>6
  <2>2. ~Is(l, "settings")
    BY <1>3 DEF Is, Now
  <2> QED BY <1>5, <1>7, <1>8, <1>9, <2>1, <2>2, ResetKeeps
<1>10. CASE l.op = "restore"
  <2>1. Restores(l) => Restores(m)'
    BY <1>3, <1>6, <1>7, <1>10 DEF Restores
  <2>2. ~WillEnd(l) /\ ~Is(m, "aside")
    BY <1>3, <1>6, <1>10, OnlyIs DEF Is, Now
  <2>3. staged' \in Files /\ (staged' \in Database => staged'.id = 0) /\ exiting' \in BOOLEAN
    BY <1>3, <1>7 DEF Data
  <2> QED BY <1>3, <1>5, <1>7, <1>8, <1>10, <2>1, <2>2, <2>3, RestoreQuiet
<1> QED BY <1>4, <1>9, <1>10

(* StartPipeline.                                                         *)
LEMMA StartKeeps ==
    ASSUME Inv, NEW r \in Requests, StartPipeline(r)
    PROVE  Inv'
<1>1. /\ At(r, "start")
      /\ Step(r) /\ running' = TRUE
      /\ UNCHANGED <<db, staged, safe, up, open, exiting, live, world, excused, budget>>
  BY DEF StartPipeline
<1>2. PICK l : l = req[r]
  OBVIOUS
<1>3. /\ l \in Local /\ l.todo # <<>> /\ Now(l) = "start" /\ Is(l, "start") /\ Fits(l)
      /\ Planned(l.op, l.todo) /\ Types /\ AllFit /\ Follow /\ Data
  BY <1>1, <1>2, StepIs
<1>4. l.op = "reset"
  BY <1>3, Owners
<1>5. PICK m \in Local :
         Moves(r, l, m) /\ GoesOn(l, l, m) /\ Fits(m)' /\ (m = Closed <=> Tail(l.todo) = <<>>)
  BY <1>1, <1>2, <1>3, Taken DEF Step
<1>6. m # Closed => m.todo # <<>> /\ m.op = "reset" /\ Now(m) = "mirror" /\ Is(m, Now(m))
                    /\ m.form = l.form
  BY <1>3, <1>4, <1>5 DEF GoesOn, Follows, Ends, Is, Now
<1>7. UNCHANGED <<db, staged, safe, open, exiting, now, lived, live>> /\ excused' = excused
      /\ live' \in Live /\ running' = TRUE /\ (Safe(db) => Safe(db)')
  BY <1>1, <1>3 DEF world, Data, Safe
<1>8. /\ ~OwesAuto(m) /\ ~OwesFormat(m)
      /\ m # Closed => OwesPage(m)
      /\ OwesPage(m) => m.form = l.form /\ OwesPage(l)
      /\ Owing(l) => Owing(m)'
  <2>1. CASE m = Closed
    BY <2>1, ClosedOwes DEF Owing
  <2>2. CASE m # Closed
    <3>1. ~OwesAuto(m) /\ ~OwesFormat(m) /\ OwesPage(m)
      BY <1>6, <2>2, OnlyIs
    <3>2. OwesPage(l)
      <4>1. Tail(l.todo) # <<>>
        BY <1>5, <2>2
      <4> QED BY <1>3, <1>4, <4>1, OnlyIs
    <3>3. Owing(l) => Owing(m)'
      BY <1>6, <1>7, <2>2, <3>1, <3>2 DEF Owing, Is, Now
    <3> QED BY <1>6, <2>2, <3>1, <3>2, <3>3
  <2> QED BY <2>1, <2>2
<1>9. ASSUME open, excused \cap {"race", "slip"} = {}
      PROVE  /\ Owing(m)'
             /\ db'.auto # "" => live'.auto = db'.auto \/ OwesAuto(m)
             /\ db'.format # "" => live'.format = db'.format \/ OwesFormat(m)
             /\ db'.on # "" => live'.cron = Scheduled(db') \/ OwesCron(m)
             /\ live'.onboarded = db'.onboarded \/ OwesPage(m)
  <2>1. l.op \in Writers
    BY <1>4 DEF Writers
  <2>2. /\ Owing(l)
        /\ db.auto # "" => live.auto = db.auto \/ OwesAuto(l)
        /\ db.format # "" => live.format = db.format \/ OwesFormat(l)
        /\ db.on # "" => live.cron = Scheduled(db) \/ OwesCron(l)
        /\ live.onboarded = db.onboarded \/ OwesPage(l)
    BY <1>2, <1>3, <1>9, <2>1, FollowFacts
  <2>3. ~OwesAuto(l) /\ ~OwesFormat(l) /\ ~OwesCron(l)
    BY <1>3, OnlyIs
  <2>4. OwesPage(l) => OwesPage(m)
    <3>1. CASE OwesPage(l)
      <4>1. Tail(l.todo) # <<>>
        BY <1>3, <3>1, OnlyIs
      <4>2. m # Closed
        BY <1>5, <4>1
      <4> QED BY <1>8, <4>2
    <3> QED BY <3>1
  <2>5. Scheduled(db') = Scheduled(db)
    BY <1>7 DEF Scheduled
  <2> QED BY <1>7, <1>8, <2>2, <2>3, <2>4, <2>5
<1>10. ~Is(l, "settings")
  BY <1>3 DEF Is, Now
<1> QED BY <1>4, <1>5, <1>7, <1>9, <1>10, ResetKeeps

(* Reset: the users, the settings or the other tables.                     *)
LEMMA TablesKeeps ==
    ASSUME Inv, NEW r \in Requests, Reset(r)
    PROVE  Inv'
<1>1. PICK s \in {"users", "settings", "others"} :
         /\ At(r, s) /\ open /\ Step(r)
         /\ s = "users" => db' = [db EXCEPT !.user = FALSE]
         /\ s = "settings" => db' = [Empty EXCEPT !.id = db.id, !.user = db.user]
         /\ s = "others" => db' = db
         /\ UNCHANGED <<staged, safe, up, open, running, exiting, live, world, excused, budget>>
  <2>1. CASE At(r, "users") /\ Write([db EXCEPT !.user = FALSE])
    BY <2>1 DEF Reset, Write
  <2>2. CASE At(r, "settings") /\ open /\ db' = [Empty EXCEPT !.id = db.id, !.user = db.user]
    BY <2>2 DEF Reset
  <2>3. CASE At(r, "others") /\ Write(db)
    BY <2>3 DEF Reset, Write
  <2> QED BY <2>1, <2>2, <2>3 DEF Reset
<1>2. PICK l : l = req[r]
  OBVIOUS
<1>3. /\ l \in Local /\ l.todo # <<>> /\ Now(l) = s /\ Is(l, s) /\ Fits(l)
      /\ Planned(l.op, l.todo) /\ Types /\ AllFit /\ Follow /\ Data
  BY <1>1, <1>2, StepIs
<1>4. l.op = "reset" /\ ~l.form.onboarded /\ db \in Database
  BY <1>1, <1>3, Owners DEF Fits, Data
<1>5. PICK m \in Local :
         /\ Moves(r, l, m) /\ GoesOn(l, l, m) /\ Fits(m)'
         /\ m # Closed => m.todo = Tail(l.todo)
  BY <1>1, <1>2, <1>3, Taken DEF Step
<1>6. /\ m.todo # <<>> /\ m.op = "reset" /\ m.form = l.form /\ Is(m, Now(m))
      /\ s = "users" => Now(m) = "settings"
      /\ s = "settings" => Now(m) = "others"
      /\ s = "others" => Now(m) = "start"
  BY <1>3, <1>4, <1>5 DEF GoesOn, Follows, Ends, Is, Now
<1>7. s = "others" => Tail(m.todo) # <<>>
  <2> SUFFICES ASSUME s = "others" PROVE Tail(m.todo) # <<>>
    OBVIOUS
  <2>1. PICK t : t = m.todo
    OBVIOUS
  <2>2. t \in Seq(Steps) /\ t # <<>> /\ Head(t) = "start" /\ t = Tail(l.todo)
    BY <1>5, <1>6, <2>1, LocalIs, ClosedIs DEF Now
  <2>3. t[Len(t)] = "mirror" /\ Planned(l.op, t)
    BY <1>2, <1>3, <1>4, <2>2, Leaves
  <2>4. Tail(t) = <<>> => t[Len(t)] = "start"
    BY <2>2, <2>3, TailPlanned
  <2>5. Tail(t) # <<>>
    BY <2>3, <2>4
  <2> QED BY <2>1, <2>5
<1>8. UNCHANGED <<staged, safe, open, running, exiting, now, lived, live>> /\ excused' = excused
      /\ live' \in Live /\ running' \in BOOLEAN
  BY <1>1, <1>3 DEF world, Data
<1>9. /\ db' \in Database /\ db'.id = db.id
      /\ s # "settings" => /\ db'.method = db.method /\ db'.auto = db.auto /\ db'.on = db.on
                           /\ db'.format = db.format /\ db'.sched = db.sched
                           /\ db'.onboarded = db.onboarded
      /\ s = "settings" => /\ db'.method = "" /\ db'.auto = "" /\ db'.format = "" /\ db'.on = ""
                           /\ db'.onboarded = FALSE
      /\ s # "users" => db'.user = db.user
  <2>1. CASE s = "users"
    BY <1>1, <1>4, <2>1 DEF Database
  <2>2. CASE s = "settings"
    <3>1. PICK e : e = Empty
      OBVIOUS
    <3>2. e \in Database /\ e.method = "" /\ e.auto = "" /\ e.format = "" /\ e.on = ""
          /\ e.onboarded = FALSE
      BY <3>1, EmptyIs
    <3>3. db' = [e EXCEPT !.id = db.id, !.user = db.user] /\ db.id \in Nat /\ db.user \in BOOLEAN
      BY <1>1, <1>4, <2>2, <3>1, DBIs
    <3> QED BY <2>2, <3>2, <3>3 DEF Database
  <2>3. CASE s = "others"
    BY <1>1, <1>4, <2>3
  <2> QED BY <2>1, <2>2, <2>3
<1>10. (~Is(l, "settings") => Safe(db)) => Safe(db)' \/ Is(m, "settings")
  <2>1. CASE s = "users"
    BY <1>6, <2>1 DEF Is, Now
  <2>2. CASE s = "settings"
    BY <1>9, <2>2 DEF Safe
  <2>3. CASE s = "others"
    BY <1>1, <1>3, <2>3 DEF Is, Now, Safe
  <2> QED BY <2>1, <2>2, <2>3
<1>11. WillStart(m)
  BY <1>6, OnlyIs
<1>12. ASSUME open, excused \cap {"race", "slip"} = {}
      PROVE  /\ Owing(m)'
             /\ db'.auto # "" => live'.auto = db'.auto \/ OwesAuto(m)
             /\ db'.format # "" => live'.format = db'.format \/ OwesFormat(m)
             /\ db'.on # "" => live'.cron = Scheduled(db') \/ OwesCron(m)
             /\ live'.onboarded = db'.onboarded \/ OwesPage(m)
  <2>1. l.op \in Writers
    BY <1>4 DEF Writers
  <2>2. /\ Owing(l)
        /\ db.auto # "" => live.auto = db.auto \/ OwesAuto(l)
        /\ db.format # "" => live.format = db.format \/ OwesFormat(l)
        /\ db.on # "" => live.cron = Scheduled(db) \/ OwesCron(l)
        /\ live.onboarded = db.onboarded \/ OwesPage(l)
    BY <1>2, <1>3, <1>12, <2>1, FollowFacts
  <2>3. ~OwesAuto(l) /\ ~OwesFormat(l) /\ ~OwesCron(l) /\ (s # "others" => ~OwesPage(l))
    BY <1>3, OnlyIs
  <2>4. ~OwesAuto(m) /\ ~OwesFormat(m) /\ (s # "users" => OwesPage(m))
        /\ (s = "users" => ~OwesPage(m))
    BY <1>6, <1>7, OnlyIs
  <2>5. s = "others" => OwesPage(l)
    BY <1>3, <1>4, OnlyIs
  <2>6. Owing(m)'
    <3>1. s # "users" => db'.onboarded = m.form.onboarded
      <4>1. m.form.onboarded \in BOOLEAN
        BY LocalIs, DBIs
      <4>2. s = "settings" => db'.onboarded = m.form.onboarded
        BY <1>4, <1>6, <1>9, <4>1
      <4>3. s = "others" => db'.onboarded = m.form.onboarded
        BY <1>6, <1>9, <2>2, <2>5 DEF Owing
      <4> QED BY <4>2, <4>3
    <3> QED BY <1>6, <2>4, <3>1 DEF Owing, Is, Now
  <2>7. s # "settings" => Scheduled(db') = Scheduled(db)
    BY <1>9 DEF Scheduled
  <2>8. live' = live
    BY <1>8
  <2>9. CASE s = "settings"
    BY <1>9, <2>4, <2>6, <2>9
  <2>10. CASE s # "settings"
    BY <1>9, <2>2, <2>3, <2>4, <2>5, <2>6, <2>7, <2>8, <2>10
  <2> QED BY <2>9, <2>10
<1> QED BY <1>4, <1>5, <1>8, <1>9, <1>10, <1>11, <1>12, ResetKeeps

(* SaveUploadedFile.                                                      *)
LEMMA UploadKeeps ==
    ASSUME Inv, NEW r \in Requests, SaveUploadedFile(r)
    PROVE  Inv'
<1>1. /\ At(r, "upload")
      /\ Step(r) /\ staged' = req[r].upload
      /\ UNCHANGED <<db, safe, up, open, running, exiting, live, world, excused, budget>>
  BY DEF SaveUploadedFile
<1>2. PICK l : l = req[r]
  OBVIOUS
<1>3. /\ l \in Local /\ l.todo # <<>> /\ Now(l) = "upload" /\ Is(l, "upload") /\ Fits(l)
      /\ Planned(l.op, l.todo) /\ Types /\ AllFit /\ Follow /\ Data
  BY <1>1, <1>2, StepIs
<1>4. l.op = "restore" /\ l.upload \in Backups \cup {NoDB, BadDB}
  BY <1>3, Owners, LocalIs
<1>5. PICK m \in Local : Moves(r, l, m) /\ GoesOn(l, l, m) /\ Fits(m)'
  BY <1>1, <1>2, <1>3, Taken DEF Step
<1>6. m.todo # <<>> /\ m.op = "restore" /\ Now(m) = "validate" /\ Is(m, Now(m))
  BY <1>3, <1>4, <1>5 DEF GoesOn, Follows, Ends, Is, Now
<1>7. UNCHANGED <<db, safe, open, running, exiting, now, lived, live>>
      /\ exiting' \in BOOLEAN /\ running' \in BOOLEAN
  BY <1>1, <1>3 DEF world, Data
<1>8. /\ staged' \in Files /\ (staged' \in Database => staged'.id = 0)
      /\ Safe(staged)'
  <2>1. staged' \in Backups \cup {NoDB, BadDB}
    BY <1>1, <1>2, <1>4
  <2>2. CASE staged' \in Backups
    <3>1. staged' \in Database /\ staged'.id = 0 /\ (staged'.method = "forms" => Way(staged'))
      BY <2>2, InstallAssumption
    <3> QED BY <3>1 DEF Files, Safe
  <2>3. CASE staged' \in {NoDB, BadDB}
    BY <2>3, NoFile DEF Files, Safe
  <2> QED BY <2>1, <2>2, <2>3
<1>9. Restores(l) => Restores(m)'
  BY <1>3, <1>4, <1>6, <1>7 DEF Restores
<1>10. ~WillEnd(l) /\ ~WillStart(l) /\ ~Is(m, "aside")
  BY <1>3, <1>4, <1>6, OnlyIs DEF Is, Now
<1> QED BY <1>3, <1>4, <1>5, <1>7, <1>8, <1>9, <1>10, RestoreQuiet

(* validateSQLiteBackup.                                                  *)
LEMMA ValidateKeeps ==
    ASSUME Inv, NEW r \in Requests, validateSQLiteBackup(r)
    PROVE  Inv'
<1>1. /\ At(r, "validate")
      /\ IF staged \in {NoDB, BadDB}
         THEN staged' = NoDB /\ Then(r, <<>>, req[r])
         ELSE Step(r) /\ UNCHANGED staged
      /\ UNCHANGED <<db, safe, up, open, running, exiting, live, world, excused, budget>>
  BY DEF validateSQLiteBackup
<1>2. PICK l : l = req[r]
  OBVIOUS
<1>3. /\ l \in Local /\ l.todo # <<>> /\ Now(l) = "validate" /\ Is(l, "validate") /\ Fits(l)
      /\ Planned(l.op, l.todo) /\ Types /\ AllFit /\ Follow /\ Data
  BY <1>1, <1>2, StepIs
<1>4. l.op = "restore" /\ ~WillEnd(l) /\ ~WillStart(l)
  BY <1>3, Owners, OnlyIs
<1>5. UNCHANGED <<db, safe, open, running, exiting, now, lived, live>>
      /\ exiting' \in BOOLEAN /\ running' \in BOOLEAN
  BY <1>1, <1>3 DEF world, Data
<1>6. CASE staged \in {NoDB, BadDB}
  <2>1. /\ <<>> \in Seq(Steps) /\ Planned(l.op, <<>>) /\ Then(r, <<>>, l)
        /\ up' = up /\ (open' => open) /\ excused \subseteq excused'
        /\ "anew" \in excused' => "anew" \in excused
    BY <1>1, <1>2, <1>6 DEF Planned
  <2>2. PICK m \in Local : Moves(r, l, m) /\ Fits(m)' /\ m = Closed
    BY <1>2, <1>3, <2>1, PlanTaken
  <2>3. ~Is(m, "aside") /\ Restores(m)'
    BY <2>2, ClosedIs DEF Is, Restores
  <2>4. staged' \in Files /\ (staged' \in Database => staged'.id = 0) /\ Safe(staged)'
    BY <1>1, <1>6, NoFile DEF Files, Safe
  <2> QED BY <1>3, <1>4, <1>5, <2>2, <2>3, <2>4, RestoreQuiet
<1>7. CASE staged \notin {NoDB, BadDB}
  <2>1. PICK m \in Local : Moves(r, l, m) /\ GoesOn(l, l, m) /\ Fits(m)'
    BY <1>1, <1>2, <1>3, <1>7, Taken DEF Step
  <2>2. m.todo # <<>> /\ m.op = "restore" /\ Now(m) = "stop" /\ Is(m, Now(m))
    BY <1>3, <1>4, <2>1 DEF GoesOn, Follows, Ends, Is, Now
  <2>3. staged' = staged /\ staged \in Database /\ staged.id = 0
    BY <1>1, <1>3, <1>7 DEF Data, Files
  <2>4. staged' \in Files /\ (staged' \in Database => staged'.id = 0)
        /\ (Safe(staged) => Safe(staged)')
    BY <2>3 DEF Files, Safe
  <2>5. Restores(l) => Restores(m)'
    BY <1>3, <1>4, <1>5, <2>2, <2>3 DEF Restores
  <2>6. ~Is(m, "aside")
    BY <2>2 DEF Is, Now
  <2> QED BY <1>3, <1>4, <1>5, <2>1, <2>4, <2>5, <2>6, RestoreQuiet
<1> QED BY <1>6, <1>7

(* scheduleRestart.                                                       *)
LEMMA SignalKeeps ==
    ASSUME Inv, NEW r \in Requests, scheduleRestart(r)
    PROVE  Inv'
<1>1. /\ At(r, "signal")
      /\ Step(r) /\ exiting' = TRUE
      /\ UNCHANGED <<db, staged, safe, up, open, running, live, world, excused, budget>>
  BY DEF scheduleRestart
<1>2. PICK l : l = req[r]
  OBVIOUS
<1>3. /\ l \in Local /\ l.todo # <<>> /\ Now(l) = "signal" /\ Is(l, "signal") /\ Fits(l)
      /\ Planned(l.op, l.todo) /\ Types /\ AllFit /\ Follow /\ Data
  BY <1>1, <1>2, StepIs
<1>4. l.op \in {"restore", "restart"}
  BY <1>3, Owners
<1>5. PICK m \in Local : Moves(r, l, m) /\ GoesOn(l, l, m) /\ Fits(m)'
  BY <1>1, <1>2, <1>3, Taken DEF Step
<1>6. m = Closed
  BY <1>3, <1>4, <1>5 DEF GoesOn, Follows, Ends
<1>7. UNCHANGED <<db, staged, safe, open, running, now, lived, live>> /\ exiting' = TRUE
      /\ exiting' \in BOOLEAN /\ running' \in BOOLEAN
  BY <1>1, <1>3 DEF world, Data
<1>8. ~Is(m, "aside") /\ Restores(m)'
  BY <1>6, ClosedIs DEF Is, Restores
<1>9. staged' \in Files /\ (staged' \in Database => staged'.id = 0)
      /\ (Safe(staged) => Safe(staged)')
  BY <1>3, <1>7 DEF Data, Safe
<1> QED BY <1>3, <1>4, <1>5, <1>7, <1>8, <1>9, RestoreQuiet

(* CloseDB.                                                               *)
LEMMA CloseKeeps ==
    ASSUME Inv, NEW r \in Requests, CloseDB(r)
    PROVE  Inv'
<1>1. /\ At(r, "close")
      /\ Step(r) /\ open' = FALSE
      /\ UNCHANGED <<db, staged, safe, up, running, exiting, live, world, excused, budget>>
  BY DEF CloseDB
<1>2. PICK l : l = req[r]
  OBVIOUS
<1>3. /\ l \in Local /\ l.todo # <<>> /\ Now(l) = "close" /\ Is(l, "close") /\ Fits(l)
      /\ Planned(l.op, l.todo) /\ Types /\ AllFit /\ Kept /\ Data /\ up
  BY <1>1, <1>2, StepIs
<1>4. l.op = "restore"
  BY <1>3, Owners
<1>5. PICK m \in Local : Moves(r, l, m) /\ GoesOn(l, l, m) /\ Fits(m)'
  BY <1>1, <1>2, <1>3, Taken DEF Step
<1>6. m.todo # <<>> /\ m.op = "restore" /\ Now(m) = "aside" /\ Is(m, Now(m))
  BY <1>3, <1>4, <1>5 DEF GoesOn, Follows, Ends, Is, Now
<1>7. UNCHANGED <<db, staged, safe, up, running, exiting, now, lived, live>> /\ open' = FALSE
      /\ excused' = excused
  BY <1>1 DEF world
<1>8. Data'
  BY <1>3, <1>7 DEF Data, Files, Numbers
<1>9. Kept'
  <2>1. ~Is(l, "aside") /\ ~Replaces(l)
    BY <1>3 DEF Is, Replaces, Now
  <2>2. ASSUME "twice" \notin excused
        PROVE  /\ \A i \in lived' : db'.id = i \/ \E t \in DOMAIN safe' : safe'[t].id = i
               /\ db' # BadDB /\ \A t \in DOMAIN safe' : safe'[t] # BadDB
               /\ Restores(m)'
               /\ open' \/ Is(m, "aside") => now' \notin DOMAIN safe'
               /\ db' = NoDB => "torn" \in excused' \/ lived' = {} \/ Replaces(m)
    <3>1. /\ \A i \in lived : db.id = i \/ \E t \in DOMAIN safe : safe[t].id = i
          /\ db # BadDB /\ \A t \in DOMAIN safe : safe[t] # BadDB
          /\ Restores(l)
          /\ open => now \notin DOMAIN safe
          /\ db = NoDB => "torn" \in excused \/ lived = {}
      BY <1>2, <1>3, <1>4, <2>1, <2>2, RestoreFacts
    <3>2. open /\ staged \in Database
      BY <1>3, <1>4, <3>1 DEF Restores
    <3>3. Restores(m)'
      BY <1>6, <1>7, <3>2 DEF Restores
    <3> QED BY <1>7, <3>1, <3>2, <3>3
  <2> QED BY <1>3, <1>4, <1>5, <2>2, KeptMine
<1>10. AllSafe => AllSafe'
  BY <1>7 DEF AllSafe, Safe
<1>11. WillEnd(m) /\ WillStart(m)
  BY <1>6, OnlyIs
<1> QED BY <1>4, <1>5, <1>7, <1>8, <1>9, <1>10, <1>11, RestoreKeeps

(* MoveAside.                                                             *)
LEMMA MoveAsideKeeps ==
    ASSUME Inv, NEW r \in Requests, MoveAside(r)
    PROVE  Inv'
<1>1. /\ At(r, "aside")
      /\ IF db = NoDB THEN Step(r) /\ UNCHANGED <<db, safe, now>>
         ELSE \E t \in {now, now + 1} :
                 /\ safe' = With(safe, t, db) /\ db' = NoDB /\ now' = t
                 /\ Learn(r, [req[r] EXCEPT !.copy = t])
      /\ UNCHANGED <<staged, up, open, running, exiting, live, envAdmin, lived, excused,
                     budget>>
  BY DEF MoveAside
<1>2. PICK l : l = req[r]
  OBVIOUS
<1>3. /\ l \in Local /\ l.todo # <<>> /\ Now(l) = "aside" /\ Is(l, "aside") /\ Fits(l)
      /\ Planned(l.op, l.todo) /\ Types /\ AllFit /\ Kept /\ Data /\ up
  BY <1>1, <1>2, StepIs
<1>4. l.op = "restore" /\ ~open
  BY <1>3, Owners DEF Fits
<1>5. now \in Nat /\ now > 0 /\ lived # {}
  BY <1>3 DEF Data
<1>6. Is(l, "aside") /\ ~Replaces(l)
  BY <1>3 DEF Is, Replaces, Now
<1>7. "twice" \notin excused =>
         /\ \A i \in lived : db.id = i \/ \E t \in DOMAIN safe : safe[t].id = i
         /\ db # BadDB /\ \A t \in DOMAIN safe : safe[t] # BadDB
         /\ staged \in Database
         /\ now \notin DOMAIN safe
         /\ db = NoDB => "torn" \in excused
  <2> SUFFICES ASSUME "twice" \notin excused
               PROVE  /\ \A i \in lived : db.id = i \/ \E t \in DOMAIN safe : safe[t].id = i
                      /\ db # BadDB /\ \A t \in DOMAIN safe : safe[t] # BadDB
                      /\ staged \in Database
                      /\ now \notin DOMAIN safe
                      /\ db = NoDB => "torn" \in excused
    OBVIOUS
  <2>1. /\ \A i \in lived : db.id = i \/ \E t \in DOMAIN safe : safe[t].id = i
        /\ db # BadDB /\ \A t \in DOMAIN safe : safe[t] # BadDB
        /\ Restores(l)
        /\ now \notin DOMAIN safe
        /\ db = NoDB => "torn" \in excused
    BY <1>2, <1>3, <1>4, <1>5, <1>6, RestoreFacts
  <2> QED BY <1>3, <1>4, <2>1 DEF Restores
<1>8. CASE db = NoDB
  <2>1. PICK m \in Local : Moves(r, l, m) /\ GoesOn(l, l, m) /\ Fits(m)'
    BY <1>1, <1>2, <1>3, <1>8, Taken DEF Step
  <2>2. m.todo # <<>> /\ m.op = "restore" /\ Now(m) = "install" /\ Is(m, Now(m))
    BY <1>3, <1>4, <2>1 DEF GoesOn, Follows, Ends, Is, Now
  <2>3. UNCHANGED <<db, safe, now, staged, up, open, running, exiting, lived, live, excused>>
    BY <1>1, <1>8
  <2>4. Data'
    BY <1>3, <2>3 DEF Data, Files, Numbers
  <2>5. "twice" \notin excused =>
           /\ \A i \in lived' : db'.id = i \/ \E t \in DOMAIN safe' : safe'[t].id = i
           /\ db' # BadDB /\ \A t \in DOMAIN safe' : safe'[t] # BadDB
           /\ Restores(m)'
           /\ open' \/ Is(m, "aside") => now' \notin DOMAIN safe'
           /\ db' = NoDB => "torn" \in excused' \/ lived' = {} \/ Replaces(m)
    BY <1>7, <1>8, <2>2, <2>3 DEF Restores, Replaces, Is, Now
  <2>6. Kept'
    BY <1>3, <1>4, <2>1, <2>5, KeptMine
  <2>7. AllSafe => AllSafe'
    BY <2>3 DEF AllSafe, Safe
  <2>8. WillEnd(m) /\ WillStart(m)
    BY <2>2, OnlyIs
  <2> QED BY <1>4, <2>1, <2>3, <2>4, <2>6, <2>7, <2>8, RestoreKeeps
<1>9. CASE db # NoDB
  <2>1. PICK t \in {now, now + 1} :
           /\ safe' = With(safe, t, db) /\ db' = NoDB /\ now' = t
           /\ Learn(r, [l EXCEPT !.copy = t])
    BY <1>1, <1>2, <1>9
  <2>2. PICK n : n = [l EXCEPT !.copy = t]
    OBVIOUS
  <2>3. t \in Int /\ t \in Nat /\ t > 0 /\ now <= t
    BY <1>5
  <2>4. n \in Local /\ n.op = l.op /\ n.form = l.form /\ n.upload = l.upload /\ n.copy = t
    BY <1>3, <2>2, <2>3 DEF Local
  <2>5. Learn(r, n)
    BY <2>1, <2>2
  <2>6. UNCHANGED <<staged, up, open, running, exiting, lived, live, excused>>
    BY <1>1
  <2>7. PICK m \in Local : Moves(r, l, m) /\ GoesOn(l, n, m) /\ Fits(m)'
    BY <1>2, <1>3, <2>4, <2>5, <2>6, Taken
  <2>8. m.todo # <<>> /\ m.op = "restore" /\ Now(m) = "install" /\ m.copy = t /\ Is(m, Now(m))
    BY <1>3, <1>4, <2>4, <2>7 DEF GoesOn, Follows, Ends, Is, Now
  <2>9. /\ DOMAIN safe' = DOMAIN safe \cup {t} /\ safe'[t] = db
        /\ \A u \in DOMAIN safe \ {t} : safe'[u] = safe[u]
    BY <2>1 DEF With
  <2>10. db \in Database \cup {BadDB} /\ db' = NoDB
    BY <1>3, <1>9, <2>1 DEF Data, Files
  <2>11. Data'
    <3>1. DOMAIN safe' \subseteq 1..now'
      <4>1. DOMAIN safe \subseteq 1..now
        BY <1>3 DEF Data
      <4>2. 1..now \subseteq 1..t /\ t \in 1..t
        BY <1>5, <2>3
      <4> QED BY <2>1, <2>9, <4>1, <4>2
    <3>2. \A u \in DOMAIN safe' : /\ safe'[u] \in Database \cup {BadDB}
                                  /\ safe'[u] \in Database => safe'[u].id \in Numbers
      BY <1>3, <2>9, <2>10 DEF Data
    <3>3. now' \in Nat /\ now' > 0
      BY <2>1, <2>3
    <3> QED BY <1>3, <1>4, <2>6, <2>10, <3>1, <3>2, <3>3, NoFile DEF Data, Files, Numbers
  <2>12. ASSUME "twice" \notin excused
         PROVE  /\ \A i \in lived' : db'.id = i \/ \E u \in DOMAIN safe' : safe'[u].id = i
                /\ db' # BadDB /\ \A u \in DOMAIN safe' : safe'[u] # BadDB
                /\ Restores(m)'
                /\ open' \/ Is(m, "aside") => now' \notin DOMAIN safe'
                /\ db' = NoDB => "torn" \in excused' \/ lived' = {} \/ Replaces(m)
    <3>1. t \notin DOMAIN safe
      <4>1. DOMAIN safe \subseteq 1..now /\ now \notin DOMAIN safe
        BY <1>3, <1>7, <2>12 DEF Data
      <4>2. now + 1 \notin 1..now
        BY <1>5
      <4> QED BY <4>1, <4>2
    <3>2. ASSUME NEW i \in lived' PROVE \E u \in DOMAIN safe' : safe'[u].id = i
      <4>1. i \in lived
        BY <2>6
      <4>2. CASE db.id = i
        BY <2>9, <4>2
      <4>3. CASE \E u \in DOMAIN safe : safe[u].id = i
        BY <2>9, <3>1, <4>3
      <4> QED BY <1>7, <2>12, <4>1, <4>2, <4>3
    <3>3. \A u \in DOMAIN safe' : safe'[u] # BadDB
      BY <1>7, <2>9, <2>12
    <3>4. Restores(m)'
      BY <1>7, <2>6, <2>8, <2>9, <2>10, <2>12 DEF Restores
    <3>5. ~open' /\ ~Is(m, "aside") /\ Replaces(m)
      BY <1>4, <2>6, <2>8 DEF Is, Now, Replaces
    <3> QED BY <2>10, <3>2, <3>3, <3>4, <3>5, NoFile
  <2>13. Kept'
    BY <1>3, <1>4, <2>7, <2>12, KeptMine
  <2>14. AllSafe => AllSafe'
    BY <2>6, <2>9, <2>10, NoFile DEF AllSafe, Safe
  <2>15. WillEnd(m) /\ WillStart(m)
    BY <2>8, OnlyIs
  <2> QED BY <1>4, <2>6, <2>7, <2>11, <2>13, <2>14, <2>15, RestoreKeeps
<1> QED BY <1>8, <1>9

(* InstallUpload.                                                         *)
LEMMA InstallKeeps ==
    ASSUME Inv, NEW r \in Requests, InstallUpload(r)
    PROVE  Inv'
<1>1. /\ At(r, "install")
      /\ staged # NoDB /\ Step(r)
      /\ db' = staged /\ staged' = NoDB
      /\ UNCHANGED <<safe, up, open, running, exiting, live, world, excused, budget>>
  BY DEF InstallUpload
<1>2. PICK l : l = req[r]
  OBVIOUS
<1>3. /\ l \in Local /\ l.todo # <<>> /\ Now(l) = "install" /\ Is(l, "install") /\ Fits(l)
      /\ Planned(l.op, l.todo) /\ Types /\ AllFit /\ Kept /\ Data /\ up
  BY <1>1, <1>2, StepIs
<1>4. l.op = "restore" /\ ~open
  BY <1>3, Owners DEF Fits
<1>5. PICK m \in Local : Moves(r, l, m) /\ GoesOn(l, l, m) /\ Fits(m)'
  BY <1>1, <1>2, <1>3, Taken DEF Step
<1>6. m.todo # <<>> /\ m.op = "restore" /\ Now(m) = "signal" /\ Is(m, Now(m))
  BY <1>3, <1>4, <1>5 DEF GoesOn, Follows, Ends, Is, Now
<1>7. UNCHANGED <<safe, up, open, running, exiting, now, lived, live>> /\ db' = staged
      /\ staged' = NoDB /\ excused' = excused
  BY <1>1 DEF world
<1>8. Data'
  BY <1>3, <1>4, <1>7, NoFile DEF Data, Files, Numbers
<1>9. Kept'
  <2>1. ASSUME "twice" \notin excused
        PROVE  /\ \A i \in lived' : db'.id = i \/ \E t \in DOMAIN safe' : safe'[t].id = i
               /\ db' # BadDB /\ \A t \in DOMAIN safe' : safe'[t] # BadDB
               /\ Restores(m)'
               /\ open' \/ Is(m, "aside") => now' \notin DOMAIN safe'
               /\ db' = NoDB => "torn" \in excused' \/ lived' = {} \/ Replaces(m)
    <3>1. /\ \A i \in lived : db.id = i \/ \E t \in DOMAIN safe : safe[t].id = i
          /\ db # BadDB /\ \A t \in DOMAIN safe : safe[t] # BadDB
          /\ Restores(l)
      BY <1>2, <1>3, <1>4, <2>1, RestoreFacts
    <3>2. staged \in Database /\ db = NoDB
      BY <1>3, <1>4, <3>1 DEF Restores
    <3>3. \A i \in lived : db.id # i
      <4>1. lived = 1..Cardinality(lived)
        BY <1>3 DEF Data
      <4>2. PICK k : k = Cardinality(lived)
        OBVIOUS
      <4>3. \A i \in 1..k : i # -1
        OBVIOUS
      <4> QED BY <3>2, <4>1, <4>2, <4>3, NoFile
    <3>4. Restores(m)' /\ ~Is(m, "aside")
      BY <1>6 DEF Restores, Is, Now
    <3>5. ~open' /\ db' # BadDB /\ db' # NoDB
      BY <1>4, <1>7, <3>2, NoFile
    <3> QED BY <1>7, <3>1, <3>3, <3>4, <3>5
  <2> QED BY <1>3, <1>4, <1>5, <2>1, KeptMine
<1>10. AllSafe => AllSafe'
  BY <1>7, NoFile DEF AllSafe, Safe
<1>11. WillEnd(m) /\ WillStart(m)
  BY <1>6, OnlyIs
<1> QED BY <1>4, <1>5, <1>7, <1>8, <1>9, <1>10, <1>11, RestoreKeeps

(* RollBack.                                                               *)
LEMMA RollBackKeeps ==
    ASSUME Inv, NEW r \in Requests, RollBack(r)
    PROVE  Inv'
<1>1. PICK t : t = req[r].copy
  OBVIOUS
<1>2. /\ At(r, "rollback") /\ Step(r)
      /\ IF t \in DOMAIN safe
         THEN db' = safe[t] /\ safe' = Forget(safe, t)
         ELSE UNCHANGED <<db, safe>>
      /\ staged' = NoDB
      /\ UNCHANGED <<up, open, running, exiting, live, world, excused, budget>>
  BY <1>1 DEF RollBack
<1>3. PICK l : l = req[r]
  OBVIOUS
<1>4. /\ l \in Local /\ l.todo # <<>> /\ Now(l) = "rollback" /\ Fits(l)
      /\ Planned(l.op, l.todo) /\ Types /\ AllFit /\ Kept /\ Data /\ up
  BY <1>2, <1>3, StepIs
<1>5. l.op = "restore" /\ ~open
  BY <1>4, Owners DEF Fits
<1>6. PICK m \in Local : Moves(r, l, m) /\ GoesOn(l, l, m) /\ Fits(m)'
  BY <1>2, <1>3, <1>4, Taken DEF Step
<1>7. m.todo # <<>> /\ m.op = "restore" /\ Now(m) = "signal" /\ Is(m, Now(m))
  BY <1>4, <1>5, <1>6 DEF GoesOn, Follows, Ends, Is, Now
<1>8. UNCHANGED <<up, open, running, exiting, now, lived, live>> /\ staged' = NoDB
      /\ excused' = excused
  BY <1>2 DEF world
<1>9. /\ t \in DOMAIN safe => /\ db' = safe[t] /\ DOMAIN safe' = DOMAIN safe \ {t}
                              /\ \A u \in DOMAIN safe' : safe'[u] = safe[u]
      /\ t \notin DOMAIN safe => db' = db /\ safe' = safe
  BY <1>2 DEF Forget
<1>10. Data'
  <2>1. /\ DOMAIN safe \subseteq 1..now /\ db \in Files
        /\ db \in Database => db.id \in Numbers
        /\ \A u \in DOMAIN safe : /\ safe[u] \in Database \cup {BadDB}
                                  /\ safe[u] \in Database => safe[u].id \in Numbers
    BY <1>4 DEF Data
  <2>2. /\ DOMAIN safe' \subseteq 1..now' /\ db' \in Files
        /\ db' \in Database => db'.id \in Numbers
        /\ \A u \in DOMAIN safe' : /\ safe'[u] \in Database \cup {BadDB}
                                   /\ safe'[u] \in Database => safe'[u].id \in Numbers
    <3>1. CASE t \in DOMAIN safe
      BY <1>8, <1>9, <2>1, <3>1 DEF Files
    <3>2. CASE t \notin DOMAIN safe
      BY <1>8, <1>9, <2>1, <3>2
    <3> QED BY <3>1, <3>2
  <2>3. staged' \in Files /\ staged' \notin Database
    BY <1>8, NoFile DEF Files
  <2> QED BY <1>4, <1>5, <1>8, <2>2, <2>3 DEF Data, Numbers
<1>11. Kept'
  <2>1. ASSUME "twice" \notin excused
        PROVE  /\ \A i \in lived' : db'.id = i \/ \E u \in DOMAIN safe' : safe'[u].id = i
               /\ db' # BadDB /\ \A u \in DOMAIN safe' : safe'[u] # BadDB
               /\ Restores(m)'
               /\ open' \/ Is(m, "aside") => now' \notin DOMAIN safe'
               /\ db' = NoDB => "torn" \in excused' \/ lived' = {} \/ Replaces(m)
    <3>1. /\ \A i \in lived : db.id = i \/ \E u \in DOMAIN safe : safe[u].id = i
          /\ db # BadDB /\ \A u \in DOMAIN safe : safe[u] # BadDB
          /\ Restores(l)
      BY <1>3, <1>4, <1>5, <2>1, RestoreFacts
    <3>2. db = NoDB /\ (t \in DOMAIN safe \/ "torn" \in excused)
      BY <1>1, <1>3, <1>4, <1>5, <3>1 DEF Restores
    <3>3. \A i \in lived : db.id # i
      <4>1. lived = 1..Cardinality(lived)
        BY <1>4 DEF Data
      <4>2. PICK k : k = Cardinality(lived)
        OBVIOUS
      <4>3. \A i \in 1..k : i # -1
        OBVIOUS
      <4> QED BY <3>2, <4>1, <4>2, <4>3, NoFile
    <3>4. Restores(m)' /\ ~Is(m, "aside")
      BY <1>7 DEF Restores, Is, Now
    <3>5. ~open'
      BY <1>5, <1>8
    <3>6. CASE t \in DOMAIN safe
      <4>1. safe[t] \in Database
        BY <1>4, <3>1, <3>6 DEF Data
      <4>2. ASSUME NEW i \in lived
            PROVE  db'.id = i \/ \E u \in DOMAIN safe' : safe'[u].id = i
        <5>1. PICK u \in DOMAIN safe : safe[u].id = i
          BY <3>1, <3>3
        <5> QED BY <1>9, <3>6, <5>1
      <4>3. db' # BadDB /\ db' # NoDB /\ \A u \in DOMAIN safe' : safe'[u] # BadDB
        BY <1>9, <3>1, <3>6, <4>1, NoFile
      <4> QED BY <1>8, <3>4, <3>5, <4>2, <4>3
    <3>7. CASE t \notin DOMAIN safe
      BY <1>8, <1>9, <3>1, <3>2, <3>4, <3>5, <3>7
    <3> QED BY <3>6, <3>7
  <2> QED BY <1>4, <1>5, <1>6, <2>1, KeptMine
<1>12. AllSafe => AllSafe'
  <2> SUFFICES ASSUME AllSafe PROVE AllSafe'
    OBVIOUS
  <2>1. Safe(staged)'
    BY <1>8, NoFile DEF Safe
  <2>2. Safe(db') /\ \A u \in DOMAIN safe' : Safe(safe'[u])
    BY <1>9 DEF AllSafe
  <2> QED BY <2>1, <2>2 DEF AllSafe, Safe
<1>13. WillEnd(m) /\ WillStart(m)
  BY <1>7, OnlyIs
<1> QED BY <1>5, <1>6, <1>8, <1>10, <1>11, <1>12, <1>13, RestoreKeeps

-----------------------------------------------------------------------------
(* Failures *)

(* What is known when a step of a request failed.                          *)
LEMMA FailFacts ==
    ASSUME Inv, NEW r \in Requests, StepFails(r), NEW l, l = req[r], NEW s, s = Now(l)
    PROVE  /\ l \in Local /\ l.todo # <<>> /\ Is(l, s) /\ Fits(l)
           /\ Planned(l.op, l.todo) /\ Types /\ AllFit /\ Kept /\ Secure /\ Follow /\ Data
           /\ s \in DBSteps \cup {"upload", "aside", "install", "rollback"}
           /\ \E n \in Local :
                 /\ n.op = l.op /\ n.form = l.form /\ n.upload = l.upload /\ n.copy = l.copy
                 /\ n.changed = IF s = "choice" THEN {"auto"} ELSE l.changed
                 /\ Then(r, Left(r, s), n)
           /\ s = "upload" => staged' = BadDB
           /\ s \in {"aside", "rollback"} => staged' = NoDB
           /\ s \notin {"upload", "aside", "rollback"} => staged' = staged
           /\ s = "settings" => excused' = excused \cup {"cut", "slip"}
           /\ s \in {"choice", "others"} => excused' = excused \cup {"slip"}
           /\ s = "rollback" => excused' = excused \cup {"torn"}
           /\ s \notin {"settings", "choice", "others", "rollback"} => excused' = excused
           /\ up' = up /\ (open' => open) /\ excused \subseteq excused'
           /\ "anew" \in excused' => "anew" \in excused
           /\ UNCHANGED <<db, safe, open, running, exiting, live, now, lived>>
           /\ live' \in Live /\ running' \in BOOLEAN /\ exiting' \in BOOLEAN
<1>1. /\ s = Head(req[r].todo) /\ req[r].todo # <<>>
      /\ s \in DBSteps \cup {"upload", "aside", "install", "rollback"}
      /\ Then(r, Left(r, s), IF s = "choice" THEN [l EXCEPT !.changed = {"auto"}] ELSE l)
      /\ staged' = CASE s = "upload" -> BadDB
                     [] s \in {"aside", "rollback"} -> NoDB
                     [] OTHER -> staged
      /\ excused' = excused \cup CASE s = "settings" -> {"cut", "slip"}
                                   [] s \in {"choice", "others"} -> {"slip"}
                                   [] s = "rollback" -> {"torn"}
                                   [] OTHER -> {}
      /\ UNCHANGED <<db, safe, up, open, running, exiting, live, world>>
  BY DEF StepFails, Now
<1>2. At(r, s)
  BY <1>1 DEF At
<1>3. /\ l \in Local /\ l.todo # <<>> /\ Is(l, s) /\ Fits(l)
      /\ Planned(l.op, l.todo) /\ Types /\ AllFit /\ Kept /\ Secure /\ Follow /\ Data
  BY <1>2, StepIs
<1>4. \E n \in Local :
         /\ n.op = l.op /\ n.form = l.form /\ n.upload = l.upload /\ n.copy = l.copy
         /\ n.changed = IF s = "choice" THEN {"auto"} ELSE l.changed
         /\ Then(r, Left(r, s), n)
  <2>1. PICK n : n = IF s = "choice" THEN [l EXCEPT !.changed = {"auto"}] ELSE l
    OBVIOUS
  <2>2. n \in Local /\ n.op = l.op /\ n.form = l.form /\ n.upload = l.upload
        /\ n.copy = l.copy
        /\ n.changed = IF s = "choice" THEN {"auto"} ELSE l.changed
    BY <1>3, <2>1 DEF Local
  <2> QED BY <1>1, <2>1, <2>2
<1>5. /\ s = "upload" => staged' = BadDB
      /\ s \in {"aside", "rollback"} => staged' = NoDB
      /\ s \notin {"upload", "aside", "rollback"} => staged' = staged
  BY <1>1
<1>6. /\ s = "settings" => excused' = excused \cup {"cut", "slip"}
      /\ s \in {"choice", "others"} => excused' = excused \cup {"slip"}
      /\ s = "rollback" => excused' = excused \cup {"torn"}
      /\ s \notin {"settings", "choice", "others", "rollback"} => excused' = excused
  BY <1>1
<1>7. excused \subseteq excused' /\ ("anew" \in excused' => "anew" \in excused)
  BY <1>6
<1>8. /\ UNCHANGED <<db, safe, up, open, running, exiting, live, now, lived>>
      /\ live' \in Live /\ running' \in BOOLEAN /\ exiting' \in BOOLEAN
  BY <1>1, <1>3 DEF world, Data
<1> QED BY <1>1, <1>3, <1>4, <1>5, <1>6, <1>7, <1>8

(* The request goes on with its next step, or is over if that was the last *)
(* one.                                                                    *)
LEMMA FailGoesOn ==
    ASSUME Inv, NEW r \in Requests, StepFails(r), NEW l, l = req[r], NEW s, s = Now(l),
           s \in {"sched", "on", "auto", "choice", "count", "method", "require", "required",
                  "sso", "client", "rollback"},
           s = "method" => l.op # "password"
    PROVE  \E n \in Local, m \in Local :
              /\ Moves(r, l, m) /\ GoesOn(l, n, m) /\ Fits(m)'
              /\ n.changed = IF s = "choice" THEN {"auto"} ELSE l.changed
<1>1. Left(r, s) = Tail1(r)
  BY DEF Left
<1>2. PICK n \in Local :
         /\ n.op = l.op /\ n.form = l.form /\ n.upload = l.upload /\ n.copy = l.copy
         /\ n.changed = IF s = "choice" THEN {"auto"} ELSE l.changed
         /\ Then(r, Left(r, s), n)
  BY FailFacts
<1>3. Learn(r, n)
  BY <1>1, <1>2 DEF Learn
<1>4. /\ l.todo # <<>> /\ up' = up /\ (open' => open) /\ excused \subseteq excused'
      /\ "anew" \in excused' => "anew" \in excused
  BY FailFacts
<1>5. PICK m \in Local : Moves(r, l, m) /\ GoesOn(l, n, m) /\ Fits(m)'
  BY <1>2, <1>3, <1>4, Taken
<1> QED BY <1>2, <1>5

(* The request is over.                                                    *)
LEMMA FailEnds ==
    ASSUME Inv, NEW r \in Requests, StepFails(r), NEW l, l = req[r], NEW s, s = Now(l),
           s \in {"find", "upsert", "ready", "upload"} \/ (s = "method" /\ l.op = "password")
    PROVE  Moves(r, l, Closed) /\ Fits(Closed)'
<1>1. Left(r, s) = <<>>
  BY DEF Left
<1>2. PICK n \in Local :
         /\ n.op = l.op /\ n.form = l.form /\ n.upload = l.upload
         /\ Then(r, Left(r, s), n)
  BY FailFacts
<1>3. /\ <<>> \in Seq(Steps) /\ Planned(l.op, <<>>) /\ Then(r, <<>>, n)
      /\ l.todo # <<>> /\ up' = up /\ (open' => open) /\ excused \subseteq excused'
      /\ "anew" \in excused' => "anew" \in excused
  BY <1>1, <1>2, FailFacts DEF Planned
<1>4. PICK m \in Local : Moves(r, l, m) /\ Fits(m)' /\ m = Closed
  BY <1>2, <1>3, PlanTaken
<1> QED BY <1>4

(* A setting could not be written: what follows it is not changed either.  *)
LEMMA WriterFails ==
    ASSUME Inv, NEW r \in Requests, StepFails(r), NEW l, l = req[r], NEW s, s = Now(l),
           s \in {"sched", "on", "auto", "format", "choice", "onboarded"}
    PROVE  Inv'
<1>1. /\ l \in Local /\ l.todo # <<>> /\ Is(l, s) /\ Fits(l)
      /\ Planned(l.op, l.todo) /\ Types /\ AllFit /\ Follow
      /\ UNCHANGED <<db, safe, staged, open, running, exiting, live, now, lived>>
      /\ live' \in Live /\ up' = up /\ (open' => open) /\ excused \subseteq excused'
      /\ "anew" \in excused' => "anew" \in excused
      /\ s = "choice" => "slip" \in excused'
  BY FailFacts
<1>2. /\ l.op \in {"save", "finish", "skip", "again"}
      /\ s \in {"sched", "on", "auto", "format"} => l.op = "save"
      /\ s = "choice" => l.op = "finish"
      /\ s = "onboarded" => l.op \in {"finish", "skip", "again"}
  BY <1>1, Owners
<1>3. ASSUME open, excused \cap {"race", "slip"} = {}
      PROVE  /\ Owing(l)
             /\ db.auto # "" => live.auto = db.auto
             /\ db.format # "" => live.format = db.format
             /\ db.on # "" => live.cron = Scheduled(db) \/ OwesCron(l)
             /\ live.onboarded = db.onboarded
  <2>1. l.op \in Writers
    BY <1>2 DEF Writers
  <2>2. /\ Owing(l)
        /\ db.auto # "" => live.auto = db.auto \/ OwesAuto(l)
        /\ db.format # "" => live.format = db.format \/ OwesFormat(l)
        /\ db.on # "" => live.cron = Scheduled(db) \/ OwesCron(l)
        /\ live.onboarded = db.onboarded \/ OwesPage(l)
    BY <1>1, <1>3, <2>1, FollowFacts
  <2>3. ~OwesAuto(l) /\ ~OwesFormat(l) /\ ~OwesPage(l)
    BY <1>1, <1>2, OnlyIs
  <2> QED BY <2>2, <2>3
<1>4. Scheduled(db') = Scheduled(db)
  BY <1>1 DEF Scheduled
<1>5. ASSUME NEW m \in Local, Moves(r, l, m), Fits(m)',
             s # "choice" /\ Owing(l) => Owing(m)', OwesCron(l) => OwesCron(m)
      PROVE  Inv'
  <2>1. ASSUME open, excused \cap {"race", "slip"} = {}, excused' \cap {"race", "slip"} = {}
        PROVE  /\ Owing(m)'
               /\ db'.auto # "" => live'.auto = db'.auto \/ OwesAuto(m)
               /\ db'.format # "" => live'.format = db'.format \/ OwesFormat(m)
               /\ db'.on # "" => live'.cron = Scheduled(db') \/ OwesCron(m)
               /\ live'.onboarded = db'.onboarded \/ OwesPage(m)
    <3>1. s # "choice"
      BY <1>1, <2>1
    <3> QED BY <1>1, <1>3, <1>4, <1>5, <2>1, <3>1
  <2> QED BY <1>1, <1>2, <1>5, <2>1, WriterKeeps
<1>6. CASE s \in {"sched", "on", "auto"}
  <2>1. PICK n \in Local, m \in Local :
           Moves(r, l, m) /\ GoesOn(l, n, m) /\ Fits(m)' /\ n.changed = l.changed
    BY <1>6, FailGoesOn
  <2>2. /\ m.op = "save" /\ Now(m) \in {"on", "auto", "autolive"} /\ Is(m, Now(m))
        /\ m.changed = l.changed
    BY <1>1, <1>2, <1>6, <2>1 DEF GoesOn, Follows, Ends, Is, Now
  <2>3. /\ ~OwesFormat(m) /\ ~OwesPage(m) /\ (OwesAuto(m) => "auto" \in l.changed)
        /\ OwesCron(m) <=> l.changed \cap {"sched", "on"} # {}
    BY <2>2, OnlyIs
  <2>4. OwesCron(l) => l.changed \cap {"sched", "on"} # {}
    BY <1>1, <1>6, OnlyIs
  <2>5. Owing(l) => Owing(m)'
    <3>1. Owing(l) => "auto" \notin l.changed
      BY <1>1, <1>6 DEF Owing
    <3>2. ~Is(m, "cron")
      BY <2>2 DEF Is, Now
    <3> QED BY <2>2, <2>3, <3>1, <3>2 DEF Owing
  <2> QED BY <1>5, <2>1, <2>3, <2>4, <2>5
<1>7. CASE s \in {"format", "onboarded"}
  <2>1. PICK n \in Local :
           /\ n.op = l.op /\ n.form = l.form /\ n.upload = l.upload
           /\ Then(r, Left(r, s), n)
    BY FailFacts
  <2>2. Left(r, s) = Tail(Tail1(r))
    BY <1>7 DEF Left
  <2>3. PICK y : y = IF s = "format" THEN "formatlive" ELSE "mirror"
    OBVIOUS
  <2>4. Tail(l.todo) # <<>> /\ Head(Tail(l.todo)) = y
    <3>1. Goes(l.op, Now(l), Tail(l.todo))
      BY <1>1, Owners
    <3> QED BY <1>2, <1>7, <2>3, <3>1 DEF Goes, Follows, Ends
  <2>5. l.op \notin {"reset", "restore"}
    BY <1>2
  <2>6. PICK m \in Local :
           /\ Moves(r, l, m) /\ Fits(m)'
           /\ \/ m = Closed /\ Ends(l.op, y)
              \/ /\ m.todo # <<>> /\ m.op = l.op /\ Follows(l.op, y, Now(m))
                 /\ m.form = l.form /\ m.changed = n.changed /\ m.seen = n.seen
    BY <1>1, <2>1, <2>2, <2>4, <2>5, Skipped
  <2>7. m = Closed \/ (m.op = "finish" /\ Now(m) = "choice" /\ Is(m, Now(m)))
    BY <1>2, <1>7, <2>3, <2>6 DEF Follows, Is, Now
  <2>8. Owing(m)'
    <3>1. CASE m = Closed
      BY <3>1, ClosedOwes DEF Owing
    <3>2. CASE m.op = "finish" /\ Now(m) = "choice" /\ Is(m, Now(m))
      <4>1. ~OwesAuto(m) /\ ~OwesFormat(m) /\ ~OwesPage(m)
        BY <3>2, OnlyIs
      <4> QED BY <3>2, <4>1 DEF Owing, Is, Now
    <3> QED BY <2>7, <3>1, <3>2
  <2>9. ~OwesCron(l)
    BY <1>1, <1>7, OnlyIs
  <2> QED BY <1>5, <2>6, <2>8, <2>9
<1>8. CASE s = "choice"
  <2>1. PICK n \in Local, m \in Local : Moves(r, l, m) /\ GoesOn(l, n, m) /\ Fits(m)'
    BY <1>8, FailGoesOn
  <2>2. ~OwesCron(l)
    BY <1>1, <1>8, OnlyIs
  <2> QED BY <1>5, <1>8, <2>1, <2>2
<1> QED BY <1>6, <1>7, <1>8

(* A step about who can sign in failed.                                    *)
LEMMA SignInFails ==
    ASSUME Inv, NEW r \in Requests, StepFails(r), NEW l, l = req[r], NEW s, s = Now(l),
           s \in {"find", "upsert", "count", "ready", "method", "require", "required", "sso",
                  "client"}
    PROVE  Inv'
<1>1. /\ l \in Local /\ l.todo # <<>> /\ Planned(l.op, l.todo)
      /\ UNCHANGED <<db, staged, safe, open, running, exiting, now, lived, live>>
      /\ excused' = excused
  BY FailFacts
<1>2. l.op \in {"admin", "noadmin", "method", "password", "oidc", "callback"}
  BY <1>1, Owners
<1>3. (Safe(db) => Safe(db)') /\ (Way(db) => Way(db'))
  BY <1>1 DEF Safe
<1>4. CASE s \in {"find", "upsert", "ready"} \/ (s = "method" /\ l.op = "password")
  <2>1. Moves(r, l, Closed) /\ Fits(Closed)'
    BY <1>4, FailEnds
  <2>2. Trusts(Closed, db')
    BY ClosedOwes, Trusting
  <2> QED BY <1>1, <1>2, <1>3, <2>1, <2>2, SignInKeeps
<1>5. CASE \/ s \in {"count", "require", "required", "sso", "client"}
           \/ s = "method" /\ l.op # "password"
  <2>1. PICK n \in Local, m \in Local : Moves(r, l, m) /\ GoesOn(l, n, m) /\ Fits(m)'
    BY <1>5, FailGoesOn
  <2>2. ~Asks(m)
    <3>1. CASE m = Closed
      BY <3>1, ClosedOwes
    <3>2. CASE m # Closed
      <4>1. m.todo # <<>> /\ Now(m) \in {"ready", "require", "required", "client"}
            /\ Is(m, Now(m))
        BY <1>1, <1>2, <1>5, <2>1, <3>2 DEF GoesOn, Follows, Ends, Is, Now
      <4> QED BY <4>1, OnlyIs
    <3> QED BY <3>1, <3>2
  <2>3. Trusts(m, db')
    BY <2>2, Trusting
  <2> QED BY <1>1, <1>2, <1>3, <2>1, <2>3, SignInKeeps
<1> QED BY <1>4, <1>5

(* A table could not be emptied: the pipeline is started again.            *)
LEMMA TablesFail ==
    ASSUME Inv, NEW r \in Requests, StepFails(r), NEW l, l = req[r], NEW s, s = Now(l),
           s \in {"users", "settings", "others"}
    PROVE  Inv'
<1>1. /\ l \in Local /\ l.todo # <<>> /\ Planned(l.op, l.todo) /\ Is(l, s)
      /\ Types /\ AllFit /\ Follow
      /\ UNCHANGED <<db, staged, safe, open, running, exiting, now, lived, live>>
      /\ live' \in Live /\ running' \in BOOLEAN
      /\ up' = up /\ (open' => open) /\ excused \subseteq excused'
      /\ "anew" \in excused' => "anew" \in excused
      /\ s = "settings" => "cut" \in excused' /\ "slip" \in excused'
      /\ s = "others" => "slip" \in excused'
  BY FailFacts
<1>2. l.op = "reset"
  BY <1>1, Owners
<1>3. Left(r, s) = <<"start">>
  BY DEF Left
<1>4. PICK n \in Local :
         /\ n.op = l.op /\ n.form = l.form /\ n.upload = l.upload
         /\ Then(r, Left(r, s), n)
  BY FailFacts
<1>5. PICK t : t = <<"start">>
  OBVIOUS
<1>6. t \in Seq(Steps) /\ t # <<>> /\ Head(t) = "start" /\ Tail(t) = <<>> /\ Planned(l.op, t)
  BY <1>2, <1>5 DEF Planned, Ends, Steps
<1>7. Then(r, t, n)
  BY <1>3, <1>4, <1>5
<1>8. PICK m \in Local :
         Moves(r, l, m) /\ Fits(m)' /\ m.todo = t /\ Now(m) = "start" /\ m.op = l.op
  BY <1>1, <1>4, <1>6, <1>7, PlanTaken
<1>9. Is(m, Now(m))
  BY <1>6, <1>8 DEF Is, Now
<1>10. WillStart(m)
  BY <1>2, <1>8, <1>9, OnlyIs
<1>11. ASSUME excused' \cap {"crossed", "cut", "off"} = {}, ~Is(l, "settings") => Safe(db)
       PROVE  Safe(db)'
  <2>1. ~Is(l, "settings")
    BY <1>1, <1>11 DEF Is, Now
  <2> QED BY <1>1, <1>11, <2>1 DEF Safe
<1>12. ASSUME open, excused \cap {"race", "slip"} = {}, excused' \cap {"race", "slip"} = {}
      PROVE  /\ Owing(m)'
             /\ db'.auto # "" => live'.auto = db'.auto \/ OwesAuto(m)
             /\ db'.format # "" => live'.format = db'.format \/ OwesFormat(m)
             /\ db'.on # "" => live'.cron = Scheduled(db') \/ OwesCron(m)
             /\ live'.onboarded = db'.onboarded \/ OwesPage(m)
  <2>1. l.op \in Writers
    BY <1>2 DEF Writers
  <2>2. /\ db.auto # "" => live.auto = db.auto \/ OwesAuto(l)
        /\ db.format # "" => live.format = db.format \/ OwesFormat(l)
        /\ db.on # "" => live.cron = Scheduled(db) \/ OwesCron(l)
        /\ live.onboarded = db.onboarded \/ OwesPage(l)
    BY <1>1, <1>12, <2>1, FollowFacts
  <2>3. s = "users"
    BY <1>1, <1>12
  <2>4. ~OwesAuto(l) /\ ~OwesFormat(l) /\ ~OwesCron(l) /\ ~OwesPage(l)
    BY <1>1, <2>3, OnlyIs
  <2>5. ~OwesAuto(m) /\ ~OwesFormat(m) /\ ~OwesPage(m)
    BY <1>6, <1>8, <1>9, OnlyIs
  <2>6. Owing(m)'
    BY <1>8, <1>9, <2>5 DEF Owing, Is, Now
  <2>7. Scheduled(db') = Scheduled(db)
    BY <1>1 DEF Scheduled
  <2> QED BY <1>1, <2>2, <2>4, <2>6, <2>7
<1> QED BY <1>1, <1>2, <1>8, <1>10, <1>11, <1>12, ResetKeeps

(* A step of a restore failed: what was put aside is put back, or there is *)
(* nothing to put back.                                                    *)
LEMMA RestoreFails ==
    ASSUME Inv, NEW r \in Requests, StepFails(r), NEW l, l = req[r], NEW s, s = Now(l),
           s \in {"upload", "aside", "install", "rollback"}
    PROVE  Inv'
<1>1. /\ l \in Local /\ l.todo # <<>> /\ Planned(l.op, l.todo) /\ Is(l, s) /\ Fits(l)
      /\ Types /\ AllFit /\ Kept /\ Data
      /\ UNCHANGED <<db, safe, open, running, exiting, now, lived, live>>
      /\ running' \in BOOLEAN /\ exiting' \in BOOLEAN
      /\ up' = up /\ (open' => open) /\ excused \subseteq excused'
      /\ "anew" \in excused' => "anew" \in excused
      /\ s = "upload" => staged' = BadDB
      /\ s \in {"aside", "rollback"} => staged' = NoDB
      /\ s = "install" => staged' = staged
      /\ s = "rollback" => "torn" \in excused'
  BY FailFacts
<1>2. l.op = "restore" /\ (s # "upload" => ~open)
  BY <1>1, Owners DEF Fits
<1>3. /\ staged' \in Files /\ (staged' \in Database => staged'.id = 0)
      /\ Safe(staged) => Safe(staged)'
  <2>1. CASE s = "install"
    BY <1>1, <2>1 DEF Data, Safe
  <2>2. CASE s # "install"
    BY <1>1, <2>2, NoFile DEF Files, Safe
  <2> QED BY <2>1, <2>2
<1>4. AllSafe => AllSafe'
  <2>1. (Safe(db) => Safe(db)')
        /\ ((\A t \in DOMAIN safe : Safe(safe[t])) => (\A t \in DOMAIN safe : Safe(safe[t]))')
    BY <1>1 DEF Safe
  <2> HIDE DEF Safe
  <2> QED BY <1>3, <2>1 DEF AllSafe
<1>5. CASE s = "upload"
  <2>1. Moves(r, l, Closed) /\ Fits(Closed)'
    BY <1>5, FailEnds
  <2>2. ~Is(Closed, "aside") /\ Restores(Closed)' /\ Closed \in Local
    BY ClosedIs DEF Is, Restores
  <2>3. ~WillEnd(l) /\ ~WillStart(l)
    BY <1>1, <1>5, OnlyIs
  <2> QED BY <1>1, <1>2, <1>3, <1>5, <2>1, <2>2, <2>3, RestoreQuiet
<1>6. Data'
  <2>1. db' = db /\ safe' = safe /\ open' = open /\ now' = now /\ lived' = lived /\ live' = live
        /\ running' = running /\ exiting' = exiting /\ up' = up
    BY <1>1
  <2> QED BY <1>1, <1>3, <2>1 DEF Data, Numbers
<1>7. ASSUME NEW m \in Local, Moves(r, l, m), Fits(m)', m.todo # <<>>, m.op = "restore",
             Now(m) \in {"rollback", "signal"}, s # "upload",
             "twice" \notin excused /\ Restores(l) => Restores(m)',
             Replaces(l) => "torn" \in excused' \/ Replaces(m)
      PROVE  Inv'
  <2>1. Is(m, Now(m)) /\ ~Is(m, "aside")
    BY <1>7 DEF Is, Now
  <2>2. WillEnd(m) /\ WillStart(m)
    BY <1>7, <2>1, OnlyIs
  <2>3. ASSUME "twice" \notin excused
        PROVE  /\ \A i \in lived' : db'.id = i \/ \E t \in DOMAIN safe' : safe'[t].id = i
               /\ db' # BadDB /\ \A t \in DOMAIN safe' : safe'[t] # BadDB
               /\ Restores(m)'
               /\ open' \/ Is(m, "aside") => now' \notin DOMAIN safe'
               /\ db' = NoDB => "torn" \in excused' \/ lived' = {} \/ Replaces(m)
    <3>1. /\ \A i \in lived : db.id = i \/ \E t \in DOMAIN safe : safe[t].id = i
          /\ db # BadDB /\ \A t \in DOMAIN safe : safe[t] # BadDB
          /\ Restores(l)
          /\ db = NoDB => "torn" \in excused \/ lived = {} \/ Replaces(l)
      BY <1>1, <1>2, <2>3, RestoreFacts
    <3>2. ~open'
      BY <1>1, <1>2, <1>7
    <3> QED BY <1>1, <1>7, <2>1, <2>3, <3>1, <3>2
  <2>4. Kept'
    BY <1>1, <1>2, <1>7, <2>3, KeptMine
  <2>5. open' => db' = db
    BY <1>1
  <2> QED BY <1>1, <1>2, <1>4, <1>6, <1>7, <2>2, <2>4, <2>5, RestoreKeeps
<1>8. CASE s = "rollback"
  <2>1. PICK n \in Local, m \in Local : Moves(r, l, m) /\ GoesOn(l, n, m) /\ Fits(m)'
    BY <1>8, FailGoesOn
  <2>2. m.todo # <<>> /\ m.op = "restore" /\ Now(m) = "signal"
    BY <1>1, <1>2, <1>8, <2>1 DEF GoesOn, Follows, Ends, Is, Now
  <2>3. Restores(m)'
    BY <2>2 DEF Restores
  <2> QED BY <1>1, <1>7, <1>8, <2>1, <2>2, <2>3
<1>9. PICK n \in Local :
         /\ n.op = l.op /\ n.form = l.form /\ n.upload = l.upload /\ n.copy = l.copy
         /\ Then(r, Left(r, s), n)
  BY FailFacts
<1>10. CASE s = "aside"
  <2>1. PICK t : t = <<"signal">>
    OBVIOUS
  <2>2. t \in Seq(Steps) /\ t # <<>> /\ Head(t) = "signal" /\ Planned(l.op, t)
    BY <1>2, <2>1 DEF Planned, Ends, Steps
  <2>3. Then(r, t, n)
    BY <1>9, <1>10, <2>1 DEF Left
  <2>4. PICK m \in Local :
           Moves(r, l, m) /\ Fits(m)' /\ m.todo = t /\ Now(m) = "signal" /\ m.op = l.op
    BY <1>1, <1>2, <1>9, <2>2, <2>3, PlanTaken
  <2>5. Restores(m)'
    BY <2>4 DEF Restores
  <2>6. ~Replaces(l)
    BY <1>1, <1>10 DEF Replaces, Is, Now
  <2> QED BY <1>2, <1>7, <1>10, <2>2, <2>4, <2>5, <2>6
<1>11. CASE s = "install"
  <2>1. PICK u : u = Tail(l.todo)
    OBVIOUS
  <2>2. u \in Seq(Steps) /\ Planned(l.op, u) /\ Goes(l.op, Now(l), u)
    BY <1>1, <2>1, Leaves
  <2>3. u # <<>> /\ Head(u) = "signal"
    BY <1>1, <1>2, <1>11, <2>2 DEF Goes, Follows, Ends
  <2>4. PICK t : t = <<"rollback">> \o u
    OBVIOUS
  <2>5. t \in Seq(Steps) /\ t # <<>> /\ Head(t) = "rollback" /\ Planned(l.op, t)
    <3>1. "rollback" \in Steps /\ Follows(l.op, "rollback", Head(u))
      BY <1>2, <2>3 DEF Steps, Follows
    <3> QED BY <2>2, <2>3, <2>4, <3>1, PairPlanned
  <2>6. Then(r, t, n)
    BY <1>1, <1>9, <1>11, <2>1, <2>4 DEF Left, Tail1
  <2>7. ~open' /\ l.op # "reset"
    BY <1>1, <1>2, <1>11
  <2>8. PICK m \in Local :
           /\ Moves(r, l, m) /\ Fits(m)' /\ m.todo = t /\ Now(m) = "rollback" /\ m.op = l.op
           /\ m.copy = n.copy
    BY <1>1, <1>9, <2>5, <2>6, <2>7, PlanTaken
  <2>9. Replaces(m)
    BY <2>5, <2>8 DEF Replaces, Is, Now
  <2>10. Restores(l) => Restores(m)'
    BY <1>1, <1>2, <1>9, <1>11, <2>8 DEF Restores
  <2> QED BY <1>2, <1>7, <1>11, <2>5, <2>8, <2>9, <2>10
<1> QED BY <1>5, <1>8, <1>10, <1>11

(* StepFails.                                                              *)
LEMMA FailKeeps ==
    ASSUME Inv, NEW r \in Requests, StepFails(r)
    PROVE  Inv'
<1>1. PICK l : l = req[r]
  OBVIOUS
<1>2. PICK s : s = Now(l)
  OBVIOUS
<1>3. s \in DBSteps \cup {"upload", "aside", "install", "rollback"}
  BY <1>1, <1>2, FailFacts
<1>4. \/ s \in {"sched", "on", "auto", "format", "choice", "onboarded"}
      \/ s \in {"find", "upsert", "count", "ready", "method", "require", "required", "sso",
                "client"}
      \/ s \in {"users", "settings", "others"}
      \/ s \in {"upload", "aside", "install", "rollback"}
  BY <1>3 DEF DBSteps
<1> QED BY <1>1, <1>2, <1>4, WriterFails, SignInFails, TablesFail, RestoreFails

-----------------------------------------------------------------------------
(* The requests *)

(* The first steps of the requests.                                        *)
Firsts == {"sched", "onboarded", "find", "method", "count", "sso", "ready", "stop", "upload",
           "signal"}

(* What a new request knows.                                               *)
LEMMA FreshFits == {} \in SUBSET {"sched", "on", "auto"} /\ -1 \in Int
OBVIOUS

(* The invariant, after a request has begun.                               *)
LEMMA BeginKeeps ==
    ASSUME Inv, NEW r \in Requests, NEW k \in Ops, NEW p \in Seq(Steps), NEW f \in Database,
           NEW u \in Backups \cup {NoDB, BadDB}, Begin(r, k, p, f, u),
           p # <<>>, Planned(k, p), Head(p) \in Firsts,
           k \in {"save", "finish"} => f.auto # "",
           k = "save" => f.format # "" /\ f.on # "",
           k = "reset" => ~f.onboarded /\ p[Len(p)] = "mirror",
           k = "restore" => Head(p) = "upload",
           Head(p) = "method" => f.method # "forms"
    PROVE  Inv'
<1>1. /\ up /\ req[r] = Closed
      /\ req' = [req EXCEPT ![r] = [op |-> k, todo |-> p, form |-> f, changed |-> {},
                                    seen |-> FALSE, upload |-> u, copy |-> -1]]
      /\ excused' = excused
           \cup (IF k \in Writers /\ Busy(Writers) THEN {"race"} ELSE {})
           \cup (IF (k = "reset" /\ ~IdleNow) \/ Busy({"reset"}) THEN {"crossed"} ELSE {})
           \cup (IF k = "restore" /\ (Busy({"restore"}) \/ ~open) THEN {"twice"} ELSE {})
      /\ UNCHANGED <<db, staged, safe, up, open, running, exiting, live, world>>
  BY DEF Begin
<1>2. PICK m : m = [op |-> k, todo |-> p, form |-> f, changed |-> {},
                    seen |-> FALSE, upload |-> u, copy |-> -1]
  OBVIOUS
<1>3. m \in Local /\ m.op = k /\ m.todo = p /\ m.form = f /\ m.changed = {} /\ ~m.seen
  <2>1. m \in Local
    BY <1>2, FreshFits DEF Local
  <2> QED BY <1>2, <2>1
<1>4. Types /\ AllFit /\ Kept /\ Secure /\ Back /\ Follow /\ Data /\ req \in [Requests -> Local]
  BY DEF Inv, Types
<1>5. /\ req'[r] = m /\ req' \in [Requests -> Local]
      /\ \A q \in Requests \ {r} : req'[q] = req[q]
  BY <1>1, <1>2, <1>3, <1>4
<1>6. UNCHANGED <<db, staged, safe, up, open, running, exiting, live, now, lived>>
  BY <1>1 DEF world
<1>7. Now(m) = Head(p) /\ Is(m, Head(p)) /\ m.todo # <<>> /\ Is(m, Now(m))
  BY <1>3 DEF Now, Is
<1>8. /\ ~OwesAuto(m) /\ ~OwesFormat(m) /\ ~OwesPage(m) /\ ~Asks(m) /\ Owing(m)'
      /\ ~Is(m, "aside") /\ ~Replaces(m) /\ ~Is(m, "settings")
  <2>1. ~OwesAuto(m) /\ ~OwesFormat(m) /\ ~OwesPage(m) /\ ~Asks(m)
    BY <1>3, <1>7, OnlyIs DEF Firsts
  <2>2. ~Is(m, "aside") /\ ~Replaces(m) /\ ~Is(m, "settings") /\ ~Is(m, "cron")
    BY <1>7 DEF Is, Now, Replaces, Firsts
  <2> QED BY <1>3, <2>1, <2>2 DEF Owing
<1>9. excused \subseteq excused' /\ ("anew" \in excused' => "anew" \in excused)
  BY <1>1
<1>10. Types' /\ AllFit'
  <2>1. Data'
    BY <1>4, <1>6 DEF Data, Numbers
  <2>2. Fits(m)'
    <3>1. Planned(m.op, m.todo)
      BY <1>3
    <3>4. m.op # "none" /\ up'
      <4>1. up'
        <5>1. up = TRUE /\ up' = up
          BY <1>1, <1>4, <1>6 DEF Types, Data
        <5> QED BY <5>1
      <4>2. k # "none"
        BY DEF Ops
      <4> QED BY <1>3, <4>1, <4>2
    <3>2. Now(m) \notin {"aside", "install", "rollback"}
      BY <1>7 DEF Firsts
    <3>3. /\ m.op \in {"save", "finish"} => m.form.auto # ""
          /\ m.op = "save" => m.form.format # "" /\ m.form.on # ""
          /\ m.op = "reset" => ~m.form.onboarded
          /\ m.op = "reset" => m.todo[Len(m.todo)] = "mirror"
      BY <1>3
    <3> QED BY <1>7, <3>1, <3>2, <3>3, <3>4 DEF Fits
  <2>3. ASSUME NEW q \in Requests PROVE Fits(req[q])'
    <3>1. CASE q = r
      BY <1>5, <2>2, <3>1
    <3>2. CASE q # r
      <4>1. PICK n : n = req[q] /\ n = req'[q]
        BY <1>5, <3>2
      <4>2. Fits(n)
        BY <1>4, <4>1 DEF AllFit
      <4>3. Fits(n)'
        BY <1>6, <4>2 DEF Fits
      <4> QED BY <4>1, <4>3
    <3> QED BY <3>1, <3>2
  <2> QED BY <1>5, <2>1, <2>3 DEF Types, AllFit
<1>11. Kept'
  <2> SUFFICES ASSUME "twice" \notin excused' PROVE Kept'
    BY DEF Kept
  <2>1. "twice" \notin excused
    BY <1>9
  <2>2. k = "restore" => open /\ \A q \in Requests : req[q].op # "restore"
    BY <1>1 DEF Busy
  <2>3. ASSUME NEW q \in Requests PROVE Restores(req[q])'
    <3>1. CASE q = r
      <4>1. Restores(m)'
        BY <1>3, <1>6, <1>7, <2>2 DEF Restores
      <4> QED BY <1>5, <3>1, <4>1
    <3>2. CASE q # r
      <4>1. PICK n : n = req[q] /\ n = req'[q]
        BY <1>5, <3>2
      <4>2. Restores(n)
        BY <1>4, <2>1, <4>1 DEF Kept
      <4>3. Restores(n)'
        BY <1>6, <1>9, <4>2 DEF Restores
      <4> QED BY <4>1, <4>3
    <3> QED BY <3>1, <3>2
  <2>4. ASSUME NEW q \in Requests, NEW v \in Requests,
               req'[q].op = "restore", req'[v].op = "restore"
        PROVE  q = v
    <3>1. CASE k = "restore"
      BY <1>5, <2>2, <2>4, <3>1
    <3>2. CASE k # "restore"
      <4>1. q # r /\ v # r
        BY <1>3, <1>5, <2>4, <3>2
      <4>2. req[q].op = "restore" /\ req[v].op = "restore"
        BY <1>5, <2>4, <4>1
      <4> QED BY <1>4, <2>1, <4>2 DEF Kept
    <3> QED BY <3>1, <3>2
  <2>5. \A q \in Requests : (Is(req'[q], "aside") => Is(req[q], "aside"))
                            /\ (Replaces(req[q]) => Replaces(req'[q]))
    BY <1>1, <1>5, <1>8, ClosedOwes
  <2>6. open' \/ (\E q \in Requests : Is(req'[q], "aside")) => now' \notin DOMAIN safe'
    BY <1>4, <1>6, <2>1, <2>5 DEF Kept
  <2>7. db' = NoDB => \/ "torn" \in excused' \/ lived' = {}
                      \/ \E q \in Requests : Replaces(req'[q])
    BY <1>4, <1>6, <1>9, <2>1, <2>5 DEF Kept
  <2>8. /\ \A i \in lived' : db'.id = i \/ \E t \in DOMAIN safe' : safe'[t].id = i
        /\ db' # BadDB /\ \A t \in DOMAIN safe' : safe'[t] # BadDB
        /\ "anew" \in excused' => "torn" \in excused'
    BY <1>4, <1>6, <1>9, <2>1 DEF Kept
  <2> HIDE DEF Restores, Is, Replaces
  <2> QED BY <2>3, <2>4, <2>6, <2>7, <2>8 DEF Kept, Restores, Is, Replaces
<1>12. Secure'
  <2> SUFFICES ASSUME excused' \cap {"crossed", "cut", "off"} = {} PROVE Secure'
    BY DEF Secure
  <2>1. excused \cap {"crossed", "cut", "off"} = {}
    BY <1>9
  <2>2. /\ \A q \in Requests : req[q].op # "reset"
        /\ k = "reset" => \A q \in Requests : req[q] = Closed
    BY <1>1 DEF Busy, IdleNow
  <2>3. \A q, v \in Requests : req'[q].op = "reset" /\ req'[v] # Closed => q = v
    BY <1>3, <1>5, <2>2
  <2>4. /\ Safe(staged) /\ \A t \in DOMAIN safe : Safe(safe[t])
        /\ Safe(db) \/ \E q \in Requests : Is(req[q], "settings")
        /\ \A q \in Requests : open => Trusts(req[q], db)
    BY <1>4, <2>1 DEF Secure
  <2>5. \A q \in Requests : (Is(req[q], "settings") => Is(req'[q], "settings"))
                            /\ (Trusts(req[q], db) => Trusts(req'[q], db))
    <3>1. Trusts(m, db)
      BY <1>8, Trusting
    <3> HIDE DEF Is, Trusts
    <3> QED BY <1>1, <1>5, <1>8, <3>1, ClosedOwes
  <2>6. /\ Safe(staged') /\ \A t \in DOMAIN safe' : Safe(safe'[t])
        /\ Safe(db') \/ \E q \in Requests : Is(req'[q], "settings")
        /\ \A q \in Requests : open' => Trusts(req'[q], db')
    <3> HIDE DEF Safe, Is, Trusts
    <3> QED BY <1>6, <2>4, <2>5
  <2> HIDE DEF Safe, Is, Trusts
  <2> QED BY <2>3, <2>6 DEF Secure, Safe, Is, Trusts
<1>13. Back'
  <2>1. /\ up /\ ~exiting =>
              /\ running \/ \E q \in Requests : WillStart(req[q])
              /\ open \/ \E q \in Requests : WillEnd(req[q])
    BY <1>4 DEF Back
  <2>2. \A q \in Requests : (WillStart(req[q]) => WillStart(req'[q]))
                            /\ (WillEnd(req[q]) => WillEnd(req'[q]))
    BY <1>1, <1>5, ClosedOwes
  <2> HIDE DEF WillStart, WillEnd
  <2> QED BY <1>6, <2>1, <2>2 DEF Back, WillStart, WillEnd
<1>14. Follow'
  <2> SUFFICES ASSUME open', excused' \cap {"race", "slip"} = {} PROVE Follow'
    BY DEF Follow
  <2>1. open /\ excused \cap {"race", "slip"} = {}
    BY <1>6, <1>9
  <2>2. k \in Writers => \A q \in Requests : req[q].op \notin Writers
    BY <1>1 DEF Busy
  <2>3. ASSUME NEW q \in Requests, NEW v \in Requests,
               req'[q].op \in Writers, req'[v].op \in Writers
        PROVE  q = v
    <3>1. CASE k \in Writers
      BY <1>5, <2>2, <2>3, <3>1
    <3>2. CASE k \notin Writers
      <4>1. q # r /\ v # r
        BY <1>3, <1>5, <2>3, <3>2
      <4>2. req[q].op \in Writers /\ req[v].op \in Writers
        BY <1>5, <2>3, <4>1
      <4> QED BY <1>4, <2>1, <4>2 DEF Follow
    <3> QED BY <3>1, <3>2
  <2>4. ASSUME NEW q \in Requests PROVE Owing(req[q])'
    <3>1. CASE q = r
      BY <1>5, <1>8, <3>1
    <3>2. CASE q # r
      <4>1. PICK n : n = req[q] /\ n = req'[q]
        BY <1>5, <3>2
      <4>2. Owing(n)
        BY <1>4, <2>1, <4>1 DEF Follow
      <4>3. Owing(n)'
        BY <1>6, <4>2 DEF Owing, Scheduled
      <4> QED BY <4>1, <4>3
    <3> QED BY <3>1, <3>2
  <2>5. \A q \in Requests : /\ OwesAuto(req[q]) => OwesAuto(req'[q])
                            /\ OwesFormat(req[q]) => OwesFormat(req'[q])
                            /\ OwesCron(req[q]) => OwesCron(req'[q])
                            /\ OwesPage(req[q]) => OwesPage(req'[q])
    BY <1>1, <1>5, ClosedOwes
  <2>6. Scheduled(db') = Scheduled(db)
    BY <1>6 DEF Scheduled
  <2> HIDE DEF OwesAuto, OwesFormat, OwesCron, OwesPage, Owing, Scheduled, Writers
  <2>7. /\ db'.auto # "" => live'.auto = db'.auto \/ \E q \in Requests : OwesAuto(req'[q])
        /\ db'.format # "" =>
              live'.format = db'.format \/ \E q \in Requests : OwesFormat(req'[q])
        /\ db'.on # "" => live'.cron = Scheduled(db') \/ \E q \in Requests : OwesCron(req'[q])
        /\ live'.onboarded = db'.onboarded \/ \E q \in Requests : OwesPage(req'[q])
    BY <1>4, <1>6, <2>1, <2>5, <2>6 DEF Follow
  <2> QED BY <2>3, <2>4, <2>7 DEF Follow, OwesAuto, OwesFormat, OwesCron, OwesPage, Owing,
                                  Scheduled, Writers
<1> QED BY <1>10, <1>11, <1>12, <1>13, <1>14 DEF Inv

(* The steps of the settings page are a plan.                              *)
LEMMA SavePlanned ==
    ASSUME NEW p, p = <<"sched", "on", "auto", "autolive", "read", "cron", "format", "formatlive">>
    PROVE  /\ p \in Seq(Steps) /\ p # <<>> /\ Head(p) = "sched" /\ Planned("save", p)
           /\ p[Len(p)] = "formatlive"
<1>1. /\ Len(p) = 8
      /\ p[1] = "sched" /\ p[2] = "on" /\ p[3] = "auto" /\ p[4] = "autolive"
      /\ p[5] = "read" /\ p[6] = "cron" /\ p[7] = "format" /\ p[8] = "formatlive"
  OBVIOUS
<1>2. p \in Seq(Steps) /\ p # <<>> /\ Head(p) = p[1]
  BY DEF Steps, DBSteps
<1>3. ASSUME NEW i \in 1..7 PROVE Follows("save", p[i], p[i + 1])
  BY <1>1 DEF Follows
<1>4. Ends("save", p[Len(p)])
  BY <1>1 DEF Ends
<1> QED BY <1>1, <1>2, <1>3, <1>4 DEF Planned

(* Those of the wizard's last page.                                        *)
LEMMA FinishPlanned ==
    ASSUME NEW p, p = setOnboarded \o <<"choice", "autolive">>
    PROVE  /\ p \in Seq(Steps) /\ p # <<>> /\ Head(p) = "onboarded" /\ Planned("finish", p)
           /\ p[Len(p)] = "autolive"
<1>1. /\ Len(p) = 4
      /\ p[1] = "onboarded" /\ p[2] = "mirror" /\ p[3] = "choice"
      /\ p[4] = "autolive"
  BY DEF setOnboarded
<1>2. p \in Seq(Steps) /\ p # <<>> /\ Head(p) = p[1]
  BY DEF setOnboarded, Steps, DBSteps
<1>3. ASSUME NEW i \in 1..3 PROVE Follows("finish", p[i], p[i + 1])
  BY <1>1 DEF Follows
<1>4. Ends("finish", p[Len(p)])
  BY <1>1 DEF Ends
<1> QED BY <1>1, <1>2, <1>3, <1>4 DEF Planned

(* Those of its skip link.                                                 *)
LEMMA SkipPlanned ==
    ASSUME NEW p, p = setOnboarded
    PROVE  /\ p \in Seq(Steps) /\ p # <<>> /\ Head(p) = "onboarded" /\ Planned("skip", p)
           /\ p[Len(p)] = "mirror"
<1>1. /\ Len(p) = 2
      /\ p[1] = "onboarded" /\ p[2] = "mirror"
  BY DEF setOnboarded
<1>2. p \in Seq(Steps) /\ p # <<>> /\ Head(p) = p[1]
  BY DEF setOnboarded, Steps, DBSteps
<1>3. ASSUME NEW i \in 1..1 PROVE Follows("skip", p[i], p[i + 1])
  BY <1>1 DEF Follows
<1>4. Ends("skip", p[Len(p)])
  BY <1>1 DEF Ends
<1> QED BY <1>1, <1>2, <1>3, <1>4 DEF Planned

(* Those of the button that opens it again.                                *)
LEMMA AgainPlanned ==
    ASSUME NEW p, p = setOnboarded
    PROVE  /\ p \in Seq(Steps) /\ p # <<>> /\ Head(p) = "onboarded" /\ Planned("again", p)
           /\ p[Len(p)] = "mirror"
<1>1. /\ Len(p) = 2
      /\ p[1] = "onboarded" /\ p[2] = "mirror"
  BY DEF setOnboarded
<1>2. p \in Seq(Steps) /\ p # <<>> /\ Head(p) = p[1]
  BY DEF setOnboarded, Steps, DBSteps
<1>3. ASSUME NEW i \in 1..1 PROVE Follows("again", p[i], p[i + 1])
  BY <1>1 DEF Follows
<1>4. Ends("again", p[Len(p)])
  BY <1>1 DEF Ends
<1> QED BY <1>1, <1>2, <1>3, <1>4 DEF Planned

(* Those of its page for the administrator.                                *)
LEMMA AdminPlanned ==
    ASSUME NEW p, p = <<"find", "upsert", "method", "require">>
    PROVE  /\ p \in Seq(Steps) /\ p # <<>> /\ Head(p) = "find" /\ Planned("admin", p)
           /\ p[Len(p)] = "require"
<1>1. /\ Len(p) = 4
      /\ p[1] = "find" /\ p[2] = "upsert" /\ p[3] = "method" /\ p[4] = "require"
  OBVIOUS
<1>2. p \in Seq(Steps) /\ p # <<>> /\ Head(p) = p[1]
  BY DEF Steps, DBSteps
<1>3. ASSUME NEW i \in 1..3 PROVE Follows("admin", p[i], p[i + 1])
  BY <1>1 DEF Follows
<1>4. Ends("admin", p[Len(p)])
  BY <1>1 DEF Ends
<1> QED BY <1>1, <1>2, <1>3, <1>4 DEF Planned

(* The one step of its page without an administrator.                      *)
LEMMA NoAdminPlanned ==
    ASSUME NEW p, p = <<"method">>
    PROVE  /\ p \in Seq(Steps) /\ p # <<>> /\ Head(p) = "method" /\ Planned("noadmin", p)
           /\ p[Len(p)] = "method"
<1>1. /\ Len(p) = 1
      /\ p[1] = "method"
  OBVIOUS
<1>2. p \in Seq(Steps) /\ p # <<>> /\ Head(p) = p[1]
  BY DEF Steps, DBSteps
<1>3. ASSUME NEW i \in 1..(Len(p) - 1) PROVE Follows("noadmin", p[i], p[i + 1])
  BY <1>1
<1>4. Ends("noadmin", p[Len(p)])
  BY <1>1 DEF Ends
<1> QED BY <1>1, <1>2, <1>3, <1>4 DEF Planned

(* The steps of the access mode with forms.                                *)
LEMMA CountPlanned ==
    ASSUME NEW p, p = <<"count", "ready">> \o <<"method", "required">>
    PROVE  /\ p \in Seq(Steps) /\ p # <<>> /\ Head(p) = "count" /\ Planned("method", p)
           /\ p[Len(p)] = "required"
<1>1. /\ Len(p) = 4
      /\ p[1] = "count" /\ p[2] = "ready" /\ p[3] = "method" /\ p[4] = "required"
  OBVIOUS
<1>2. p \in Seq(Steps) /\ p # <<>> /\ Head(p) = p[1]
  BY DEF Steps, DBSteps
<1>3. ASSUME NEW i \in 1..3 PROVE Follows("method", p[i], p[i + 1])
  BY <1>1 DEF Follows
<1>4. Ends("method", p[Len(p)])
  BY <1>1 DEF Ends
<1> QED BY <1>1, <1>2, <1>3, <1>4 DEF Planned

(* Those of the access mode without.                                       *)
LEMMA MethodPlanned ==
    ASSUME NEW p, p = <<>> \o <<"method", "required">>
    PROVE  /\ p \in Seq(Steps) /\ p # <<>> /\ Head(p) = "method" /\ Planned("method", p)
           /\ p[Len(p)] = "required"
<1>1. /\ Len(p) = 2
      /\ p[1] = "method" /\ p[2] = "required"
  OBVIOUS
<1>2. p \in Seq(Steps) /\ p # <<>> /\ Head(p) = p[1]
  BY DEF Steps, DBSteps
<1>3. ASSUME NEW i \in 1..1 PROVE Follows("method", p[i], p[i + 1])
  BY <1>1 DEF Follows
<1>4. Ends("method", p[Len(p)])
  BY <1>1 DEF Ends
<1> QED BY <1>1, <1>2, <1>3, <1>4 DEF Planned

(* Those of a new password.                                                *)
LEMMA WordPlanned ==
    ASSUME NEW p, p = <<"find", "upsert">> \o <<>>
    PROVE  /\ p \in Seq(Steps) /\ p # <<>> /\ Head(p) = "find" /\ Planned("password", p)
           /\ p[Len(p)] = "upsert"
<1>1. /\ Len(p) = 2
      /\ p[1] = "find" /\ p[2] = "upsert"
  OBVIOUS
<1>2. p \in Seq(Steps) /\ p # <<>> /\ Head(p) = p[1]
  BY DEF Steps, DBSteps
<1>3. ASSUME NEW i \in 1..1 PROVE Follows("password", p[i], p[i + 1])
  BY <1>1 DEF Follows
<1>4. Ends("password", p[Len(p)])
  BY <1>1 DEF Ends
<1> QED BY <1>1, <1>2, <1>3, <1>4 DEF Planned

(* Those of a new password with the wish for forms.                        *)
LEMMA WishPlanned ==
    ASSUME NEW p, p = <<"find", "upsert">> \o <<"method">>
    PROVE  /\ p \in Seq(Steps) /\ p # <<>> /\ Head(p) = "find" /\ Planned("password", p)
           /\ p[Len(p)] = "method"
<1>1. /\ Len(p) = 3
      /\ p[1] = "find" /\ p[2] = "upsert" /\ p[3] = "method"
  OBVIOUS
<1>2. p \in Seq(Steps) /\ p # <<>> /\ Head(p) = p[1]
  BY DEF Steps, DBSteps
<1>3. ASSUME NEW i \in 1..2 PROVE Follows("password", p[i], p[i + 1])
  BY <1>1 DEF Follows
<1>4. Ends("password", p[Len(p)])
  BY <1>1 DEF Ends
<1> QED BY <1>1, <1>2, <1>3, <1>4 DEF Planned

(* Those of the page for single sign-on.                                   *)
LEMMA OIDCPlanned ==
    ASSUME NEW p, p = <<"sso", "client">>
    PROVE  /\ p \in Seq(Steps) /\ p # <<>> /\ Head(p) = "sso" /\ Planned("oidc", p)
           /\ p[Len(p)] = "client"
<1>1. /\ Len(p) = 2
      /\ p[1] = "sso" /\ p[2] = "client"
  OBVIOUS
<1>2. p \in Seq(Steps) /\ p # <<>> /\ Head(p) = p[1]
  BY DEF Steps, DBSteps
<1>3. ASSUME NEW i \in 1..1 PROVE Follows("oidc", p[i], p[i + 1])
  BY <1>1 DEF Follows
<1>4. Ends("oidc", p[Len(p)])
  BY <1>1 DEF Ends
<1> QED BY <1>1, <1>2, <1>3, <1>4 DEF Planned

(* Those of somebody who comes back from the provider.                     *)
LEMMA CallbackPlanned ==
    ASSUME NEW p, p = <<"ready", "find", "upsert">>
    PROVE  /\ p \in Seq(Steps) /\ p # <<>> /\ Head(p) = "ready" /\ Planned("callback", p)
           /\ p[Len(p)] = "upsert"
<1>1. /\ Len(p) = 3
      /\ p[1] = "ready" /\ p[2] = "find" /\ p[3] = "upsert"
  OBVIOUS
<1>2. p \in Seq(Steps) /\ p # <<>> /\ Head(p) = p[1]
  BY DEF Steps, DBSteps
<1>3. ASSUME NEW i \in 1..2 PROVE Follows("callback", p[i], p[i + 1])
  BY <1>1 DEF Follows
<1>4. Ends("callback", p[Len(p)])
  BY <1>1 DEF Ends
<1> QED BY <1>1, <1>2, <1>3, <1>4 DEF Planned

(* Those of a factory reset.                                               *)
LEMMA ResetPlanned ==
    ASSUME NEW p, p = StopAndWait \o <<"users", "settings", "others", "start", "mirror">>
    PROVE  /\ p \in Seq(Steps) /\ p # <<>> /\ Head(p) = "stop" /\ Planned("reset", p)
           /\ p[Len(p)] = "mirror"
<1>1. /\ Len(p) = 7
      /\ p[1] = "stop" /\ p[2] = "wait" /\ p[3] = "users" /\ p[4] = "settings"
      /\ p[5] = "others" /\ p[6] = "start" /\ p[7] = "mirror"
  BY DEF StopAndWait
<1>2. p \in Seq(Steps) /\ p # <<>> /\ Head(p) = p[1]
  BY DEF StopAndWait, Steps, DBSteps
<1>3. ASSUME NEW i \in 1..6 PROVE Follows("reset", p[i], p[i + 1])
  BY <1>1 DEF Follows
<1>4. Ends("reset", p[Len(p)])
  BY <1>1 DEF Ends
<1> QED BY <1>1, <1>2, <1>3, <1>4 DEF Planned

(* Those of a restore.                                                     *)
LEMMA RestorePlanned ==
    ASSUME NEW p,
           p = <<"upload", "validate">> \o StopAndWait \o
               <<"close", "aside", "install", "signal">>
    PROVE  /\ p \in Seq(Steps) /\ p # <<>> /\ Head(p) = "upload" /\ Planned("restore", p)
           /\ p[Len(p)] = "signal"
<1>1. /\ Len(p) = 8
      /\ p[1] = "upload" /\ p[2] = "validate" /\ p[3] = "stop" /\ p[4] = "wait"
      /\ p[5] = "close" /\ p[6] = "aside" /\ p[7] = "install" /\ p[8] = "signal"
  BY DEF StopAndWait
<1>2. p \in Seq(Steps) /\ p # <<>> /\ Head(p) = p[1]
  BY DEF StopAndWait, Steps, DBSteps
<1>3. ASSUME NEW i \in 1..7 PROVE Follows("restore", p[i], p[i + 1])
  BY <1>1 DEF Follows
<1>4. Ends("restore", p[Len(p)])
  BY <1>1 DEF Ends
<1> QED BY <1>1, <1>2, <1>3, <1>4 DEF Planned

(* The one step of a restart.                                              *)
LEMMA RestartPlanned ==
    ASSUME NEW p, p = <<"signal">>
    PROVE  /\ p \in Seq(Steps) /\ p # <<>> /\ Head(p) = "signal" /\ Planned("restart", p)
           /\ p[Len(p)] = "signal"
<1>1. /\ Len(p) = 1
      /\ p[1] = "signal"
  OBVIOUS
<1>2. p \in Seq(Steps) /\ p # <<>> /\ Head(p) = p[1]
  BY DEF Steps, DBSteps
<1>3. ASSUME NEW i \in 1..(Len(p) - 1) PROVE Follows("restart", p[i], p[i + 1])
  BY <1>1
<1>4. Ends("restart", p[Len(p)])
  BY <1>1 DEF Ends
<1> QED BY <1>1, <1>2, <1>3, <1>4 DEF Planned

(* The settings page.                                                      *)
LEMMA SaveBegins ==
    ASSUME Inv, NEW r \in Requests, handleSaveSettings(r)
    PROVE  Inv'
<1>1. PICK f \in Forms :
         Begin(r, "save", <<"sched", "on", "auto", "autolive", "read", "cron", "format",
                            "formatlive">>, f, NoDB)
  BY DEF handleSaveSettings
<1>2. PICK p : p = <<"sched", "on", "auto", "autolive", "read", "cron", "format", "formatlive">>
  OBVIOUS
<1>3. /\ p \in Seq(Steps) /\ p # <<>> /\ Head(p) = "sched" /\ Planned("save", p)
  BY <1>2, SavePlanned
<1>4. f \in Database /\ f.on # "" /\ f.auto # "" /\ f.format # ""
  BY InstallAssumption
<1>5. Begin(r, "save", p, f, NoDB) /\ "save" \in Ops /\ Head(p) \in Firsts
  BY <1>1, <1>2, <1>3 DEF Ops, Firsts
<1> QED BY <1>3, <1>4, <1>5, BeginKeeps

(* The wizard's last page.                                                 *)
LEMMA FinishBegins ==
    ASSUME Inv, NEW r \in Requests, handleSetupFinish(r)
    PROVE  Inv'
<1>1. PICK a \in {"yes", "no"} :
         Begin(r, "finish", setOnboarded \o <<"choice", "autolive">>,
               [Empty EXCEPT !.onboarded = TRUE, !.auto = a], NoDB)
  BY DEF handleSetupFinish
<1>2. PICK p : p = setOnboarded \o <<"choice", "autolive">>
  OBVIOUS
<1>3. p \in Seq(Steps) /\ p # <<>> /\ Head(p) = "onboarded" /\ Planned("finish", p)
  BY <1>2, FinishPlanned
<1>4. PICK e : e = Empty
  OBVIOUS
<1>5. PICK f : f = [e EXCEPT !.onboarded = TRUE, !.auto = a]
  OBVIOUS
<1>6. f \in Database /\ f.auto # ""
  BY <1>4, <1>5, EmptyIs DEF Database, Answers
<1>7. Begin(r, "finish", p, f, NoDB) /\ "finish" \in Ops /\ Head(p) \in Firsts
  BY <1>1, <1>2, <1>3, <1>4, <1>5 DEF Ops, Firsts
<1> QED BY <1>3, <1>6, <1>7, BeginKeeps

(* Its skip link.                                                          *)
LEMMA SkipBegins ==
    ASSUME Inv, NEW r \in Requests, handleSetupSkip(r)
    PROVE  Inv'
<1>1. PICK p : p = setOnboarded
  OBVIOUS
<1>2. /\ p \in Seq(Steps) /\ p # <<>> /\ Head(p) = "onboarded" /\ Planned("skip", p)
  BY <1>1, SkipPlanned
<1>3. PICK e : e = Empty
  OBVIOUS
<1>4. PICK f : f = [e EXCEPT !.onboarded = TRUE]
  OBVIOUS
<1>5. f \in Database /\ f.onboarded
  BY <1>3, <1>4, EmptyIs DEF Database
<1>6. Begin(r, "skip", p, f, NoDB) /\ "skip" \in Ops /\ Head(p) \in Firsts
  BY <1>1, <1>2, <1>3, <1>4 DEF handleSetupSkip, Ops, Firsts
<1> QED BY <1>2, <1>5, <1>6, BeginKeeps

(* The button that opens it again.                                         *)
LEMMA AgainBegins ==
    ASSUME Inv, NEW r \in Requests, handleSetupRestart(r)
    PROVE  Inv'
<1>1. PICK p : p = setOnboarded
  OBVIOUS
<1>2. /\ p \in Seq(Steps) /\ p # <<>> /\ Head(p) = "onboarded" /\ Planned("again", p)
  BY <1>1, AgainPlanned
<1>3. PICK e : e = Empty
  OBVIOUS
<1>4. PICK f : f = e
  OBVIOUS
<1>5. f \in Database /\ ~f.onboarded
  BY <1>3, <1>4, EmptyIs DEF Database
<1>6. Begin(r, "again", p, f, NoDB) /\ "again" \in Ops /\ Head(p) \in Firsts
  BY <1>1, <1>2, <1>3, <1>4 DEF handleSetupRestart, Ops, Firsts
<1> QED BY <1>2, <1>5, <1>6, BeginKeeps

(* Its page for the administrator.                                         *)
LEMMA AdminBegins ==
    ASSUME Inv, NEW r \in Requests, handleSetupAdminPost(r)
    PROVE  Inv'
<1>1. PICK p : p = <<"find", "upsert", "method", "require">>
  OBVIOUS
<1>2. /\ p \in Seq(Steps) /\ p # <<>> /\ Head(p) = "find" /\ Planned("admin", p)
  BY <1>1, AdminPlanned
<1>3. PICK e : e = Empty
  OBVIOUS
<1>4. PICK f : f = [e EXCEPT !.method = "forms", !.required = "enabled"]
  OBVIOUS
<1>5. f \in Database /\ f.method = "forms"
  BY <1>3, <1>4, EmptyIs DEF Database
<1>6. Begin(r, "admin", p, f, NoDB) /\ "admin" \in Ops /\ Head(p) \in Firsts
  BY <1>1, <1>2, <1>3, <1>4 DEF handleSetupAdminPost, Ops, Firsts
<1> QED BY <1>2, <1>5, <1>6, BeginKeeps

(* Its page without one.                                                   *)
LEMMA NoAdminBegins ==
    ASSUME Inv, NEW r \in Requests, handleSetupAdminSkip(r)
    PROVE  Inv'
<1>1. PICK p : p = <<"method">>
  OBVIOUS
<1>2. /\ p \in Seq(Steps) /\ p # <<>> /\ Head(p) = "method" /\ Planned("noadmin", p)
  BY <1>1, NoAdminPlanned
<1>3. PICK e : e = Empty
  OBVIOUS
<1>4. PICK f : f = [e EXCEPT !.method = "none"]
  OBVIOUS
<1>5. f \in Database /\ f.method # "forms"
  BY <1>3, <1>4, EmptyIs DEF Database
<1>6. Begin(r, "noadmin", p, f, NoDB) /\ "noadmin" \in Ops /\ Head(p) \in Firsts
  BY <1>1, <1>2, <1>3, <1>4 DEF handleSetupAdminSkip, Ops, Firsts
<1> QED BY <1>2, <1>5, <1>6, BeginKeeps

(* A restart.                                                              *)
LEMMA RestartBegins ==
    ASSUME Inv, NEW r \in Requests, handleRestart(r)
    PROVE  Inv'
<1>1. PICK p : p = <<"signal">>
  OBVIOUS
<1>2. /\ p \in Seq(Steps) /\ p # <<>> /\ Head(p) = "signal" /\ Planned("restart", p)
  BY <1>1, RestartPlanned
<1>3. PICK e : e = Empty
  OBVIOUS
<1>4. PICK f : f = e
  OBVIOUS
<1>5. f \in Database /\ ~f.onboarded
  BY <1>3, <1>4, EmptyIs DEF Database
<1>6. Begin(r, "restart", p, f, NoDB) /\ "restart" \in Ops /\ Head(p) \in Firsts
  BY <1>1, <1>2, <1>3, <1>4 DEF handleRestart, Ops, Firsts
<1> QED BY <1>2, <1>5, <1>6, BeginKeeps

(* A factory reset.                                                        *)
LEMMA ResetBegins ==
    ASSUME Inv, NEW r \in Requests, handleFactoryReset(r)
    PROVE  Inv'
<1>1. PICK p : p = StopAndWait \o <<"users", "settings", "others", "start", "mirror">>
  OBVIOUS
<1>2. /\ p \in Seq(Steps) /\ p # <<>> /\ Head(p) = "stop" /\ Planned("reset", p)
      /\ p[Len(p)] = "mirror"
  BY <1>1, ResetPlanned
<1>3. PICK e : e = Empty
  OBVIOUS
<1>4. PICK f : f = e
  OBVIOUS
<1>5. f \in Database /\ ~f.onboarded
  BY <1>3, <1>4, EmptyIs DEF Database
<1>6. Begin(r, "reset", p, f, NoDB) /\ "reset" \in Ops /\ Head(p) \in Firsts
  BY <1>1, <1>2, <1>3, <1>4 DEF handleFactoryReset, Ops, Firsts
<1> QED BY <1>2, <1>5, <1>6, BeginKeeps

(* The access mode.                                                        *)
LEMMA MethodBegins ==
    ASSUME Inv, NEW r \in Requests, handleSecurityAuthMethod(r)
    PROVE  Inv'
<1>1. PICK m \in {"none", "forms"}, q \in {"enabled", "localhost"} :
         Begin(r, "method",
               (IF m = "forms" THEN <<"count", "ready">> ELSE <<>>) \o <<"method", "required">>,
               [Empty EXCEPT !.method = m, !.required = q], NoDB)
  BY DEF handleSecurityAuthMethod
<1>2. PICK e : e = Empty
  OBVIOUS
<1>3. PICK f : f = [e EXCEPT !.method = m, !.required = q]
  OBVIOUS
<1>4. f \in Database /\ f.method = m /\ "method" \in Ops
  BY <1>2, <1>3, EmptyIs DEF Database, Ops
<1>5. CASE m = "forms"
  <2>1. PICK p : p = <<"count", "ready">> \o <<"method", "required">>
    OBVIOUS
  <2>2. p \in Seq(Steps) /\ p # <<>> /\ Head(p) = "count" /\ Planned("method", p)
    BY <2>1, CountPlanned
  <2>3. Begin(r, "method", p, f, NoDB) /\ Head(p) \in Firsts
    BY <1>1, <1>2, <1>3, <1>5, <2>1, <2>2 DEF Firsts
  <2> QED BY <1>4, <2>2, <2>3, BeginKeeps
<1>6. CASE m # "forms"
  <2>1. PICK p : p = <<>> \o <<"method", "required">>
    OBVIOUS
  <2>2. p \in Seq(Steps) /\ p # <<>> /\ Head(p) = "method" /\ Planned("method", p)
    BY <2>1, MethodPlanned
  <2>3. Begin(r, "method", p, f, NoDB) /\ Head(p) \in Firsts
    BY <1>1, <1>2, <1>3, <1>6, <2>1, <2>2 DEF Firsts
  <2> QED BY <1>4, <1>6, <2>2, <2>3, BeginKeeps
<1> QED BY <1>5, <1>6

(* A new password.                                                         *)
LEMMA PasswordBegins ==
    ASSUME Inv, NEW r \in Requests, handleSecurityPassword(r)
    PROVE  Inv'
<1>1. PICK wish \in {<<>>, <<"method">>} :
         Begin(r, "password", <<"find", "upsert">> \o wish,
               [Empty EXCEPT !.method = "forms"], NoDB)
  BY DEF handleSecurityPassword
<1>2. PICK e : e = Empty
  OBVIOUS
<1>3. PICK f : f = [e EXCEPT !.method = "forms"]
  OBVIOUS
<1>4. PICK p : p = <<"find", "upsert">> \o wish
  OBVIOUS
<1>5. f \in Database /\ "password" \in Ops
  BY <1>2, <1>3, EmptyIs DEF Database, Ops
<1>6. p \in Seq(Steps) /\ p # <<>> /\ Head(p) = "find" /\ Planned("password", p)
  <2>1. CASE wish = <<>>
    BY <1>4, <2>1, WordPlanned
  <2>2. CASE wish = <<"method">>
    BY <1>4, <2>2, WishPlanned
  <2> QED BY <2>1, <2>2
<1>7. Begin(r, "password", p, f, NoDB) /\ Head(p) \in Firsts
  BY <1>1, <1>2, <1>3, <1>4, <1>6 DEF Firsts
<1> QED BY <1>5, <1>6, <1>7, BeginKeeps

(* The page for single sign-on.                                            *)
LEMMA OIDCBegins ==
    ASSUME Inv, NEW r \in Requests, handleSecurityOIDC(r)
    PROVE  Inv'
<1>1. PICK on \in BOOLEAN, whole \in BOOLEAN :
         Begin(r, "oidc", <<"sso", "client">>,
               [Empty EXCEPT !.sso = on, !.client = whole], NoDB)
  BY DEF handleSecurityOIDC
<1>2. PICK p : p = <<"sso", "client">>
  OBVIOUS
<1>3. /\ p \in Seq(Steps) /\ p # <<>> /\ Head(p) = "sso" /\ Planned("oidc", p)
  BY <1>2, OIDCPlanned
<1>4. PICK e : e = Empty
  OBVIOUS
<1>5. PICK f : f = [e EXCEPT !.sso = on, !.client = whole]
  OBVIOUS
<1>6. f \in Database
  BY <1>4, <1>5, EmptyIs DEF Database
<1>7. Begin(r, "oidc", p, f, NoDB) /\ "oidc" \in Ops /\ Head(p) \in Firsts
  BY <1>1, <1>2, <1>3, <1>4, <1>5 DEF Ops, Firsts
<1> QED BY <1>3, <1>6, <1>7, BeginKeeps

(* Somebody comes back from the provider.                                  *)
LEMMA CallbackBegins ==
    ASSUME Inv, NEW r \in Requests, handleOIDCCallback(r)
    PROVE  Inv'
<1>1. PICK p : p = <<"ready", "find", "upsert">>
  OBVIOUS
<1>2. /\ p \in Seq(Steps) /\ p # <<>> /\ Head(p) = "ready" /\ Planned("callback", p)
  BY <1>1, CallbackPlanned
<1>3. PICK f : f = Empty
  OBVIOUS
<1>4. f \in Database
  BY <1>3, EmptyIs
<1>5. Begin(r, "callback", p, f, NoDB) /\ "callback" \in Ops /\ Head(p) \in Firsts
  BY <1>1, <1>2, <1>3 DEF handleOIDCCallback, Ops, Firsts
<1> QED BY <1>2, <1>4, <1>5, BeginKeeps

(* A restore.                                                              *)
LEMMA RestoreBegins ==
    ASSUME Inv, NEW r \in Requests, handleDBRestore(r)
    PROVE  Inv'
<1>1. PICK u \in Backups \cup {BadDB} :
         Begin(r, "restore", <<"upload", "validate">> \o StopAndWait \o
                             <<"close", "aside", "install", "signal">>, Empty, u)
  BY DEF handleDBRestore
<1>2. PICK p : p = <<"upload", "validate">> \o StopAndWait \o
                   <<"close", "aside", "install", "signal">>
  OBVIOUS
<1>3. p \in Seq(Steps) /\ p # <<>> /\ Head(p) = "upload" /\ Planned("restore", p)
  BY <1>2, RestorePlanned
<1>4. Begin(r, "restore", p, Empty, u) /\ "restore" \in Ops /\ Head(p) \in Firsts
  BY <1>1, <1>2, <1>3 DEF Ops, Firsts
<1> QED BY <1>3, <1>4, EmptyIs, BeginKeeps

-----------------------------------------------------------------------------
(* Ends and starts *)

(* What is known when no request is in progress.                           *)
LEMMA ClosedFits ==
    /\ Planned(Closed.op, Closed.todo) /\ Closed.todo = <<>>
    /\ Closed.op \notin Ops \cup Writers
    /\ \A x : ~Is(Closed, x)
    /\ ~Replaces(Closed) /\ ~Asks(Closed) /\ ~WillEnd(Closed) /\ ~WillStart(Closed)
    /\ ~OwesAuto(Closed) /\ ~OwesFormat(Closed) /\ ~OwesCron(Closed) /\ ~OwesPage(Closed)
    /\ \A d : Trusts(Closed, d)
<1>1. Closed.op = "none" /\ Closed.todo = <<>>
  BY ClosedIs
<1>2. Planned(Closed.op, Closed.todo)
  BY <1>1 DEF Planned
<1>3. \A x : ~Is(Closed, x)
  BY <1>1 DEF Is
<1>4. Closed.op \notin Ops \cup Writers
  BY <1>1 DEF Ops, Writers
<1>5. ~WillEnd(Closed) /\ ~WillStart(Closed)
  BY <1>1 DEF WillEnd, WillStart
<1>6. ~Replaces(Closed) /\ ~Asks(Closed)
  BY <1>3 DEF Replaces, Asks
<1>7. ~OwesAuto(Closed) /\ ~OwesFormat(Closed) /\ ~OwesCron(Closed)
  BY <1>3 DEF OwesAuto, OwesFormat, OwesCron
<1>8. ~OwesPage(Closed)
  BY <1>1, <1>3 DEF OwesPage
<1>9. \A d : Trusts(Closed, d)
  BY <1>6, Trusting
<1> QED BY <1>1, <1>2, <1>3, <1>4, <1>5, <1>6, <1>7, <1>8, <1>9

(* The process ends.                                                       *)
LEMMA EndKeeps ==
    ASSUME Inv, ProcessEnds
    PROVE  Inv'
<1>1. /\ up' = FALSE /\ open' = FALSE /\ running' = FALSE /\ exiting' = FALSE
      /\ req' = [r \in Requests |-> Closed]
      /\ UNCHANGED <<db, staged, safe, live, now, lived>>
      /\ excused \subseteq excused' /\ ("anew" \in excused' => "anew" \in excused)
      /\ (\E r \in Requests : At(r, "settings")) => "cut" \in excused'
      /\ (\E r \in Requests : At(r, "install") \/ At(r, "rollback")) => "torn" \in excused'
  BY DEF ProcessEnds, world
<1>2. Types /\ AllFit /\ Kept /\ Secure /\ Data
  BY DEF Inv, Types
<1>3. \A r \in Requests : req'[r] = Closed
  BY <1>1
<1>4. Types'
  <2>1. Data'
    BY <1>1, <1>2 DEF Data, Numbers
  <2>2. req' \in [Requests -> Local]
    BY <1>1, ClosedIs
  <2> QED BY <2>1, <2>2 DEF Types
<1>5. AllFit'
  <2>1. Fits(Closed)'
    BY ClosedFits DEF Fits
  <2> QED BY <1>3, <2>1 DEF AllFit
<1>6. Kept'
  <2> SUFFICES ASSUME "twice" \notin excused' PROVE Kept'
    BY DEF Kept
  <2>1. "twice" \notin excused
    BY <1>1
  <2>2. Restores(Closed)'
    BY ClosedFits DEF Restores
  <2>3. \A r \in Requests : /\ Restores(req[r])' /\ ~Is(req'[r], "aside")
                            /\ ~Replaces(req'[r]) /\ req'[r].op # "restore"
    <3>1. Closed.op # "restore"
      BY ClosedFits DEF Ops
    <3> HIDE DEF Restores, Is, Replaces
    <3> QED BY <1>3, <2>2, <3>1, ClosedFits
  <2>4. db = NoDB => "torn" \in excused' \/ lived = {}
    <3>1. db = NoDB => \/ "torn" \in excused \/ lived = {}
                       \/ \E r \in Requests : Replaces(req[r])
      BY <1>2, <2>1 DEF Kept
    <3>2. (\E r \in Requests : Replaces(req[r])) => "torn" \in excused'
      BY <1>1 DEF Replaces, Is, At
    <3> QED BY <1>1, <3>1, <3>2
  <2>5. /\ \A i \in lived' : db'.id = i \/ \E t \in DOMAIN safe' : safe'[t].id = i
        /\ db' # BadDB /\ \A t \in DOMAIN safe' : safe'[t] # BadDB
        /\ "anew" \in excused' => "torn" \in excused'
    BY <1>1, <1>2, <2>1 DEF Kept
  <2> HIDE DEF Restores, Is, Replaces
  <2> QED BY <1>1, <2>3, <2>4, <2>5 DEF Kept, Restores, Is, Replaces
<1>7. Secure'
  <2> SUFFICES ASSUME excused' \cap {"crossed", "cut", "off"} = {} PROVE Secure'
    BY DEF Secure
  <2>1. excused \cap {"crossed", "cut", "off"} = {}
    BY <1>1
  <2>2. \A r \in Requests : ~Is(req[r], "settings")
    BY <1>1 DEF Is, At
  <2>3. Safe(staged) /\ (\A t \in DOMAIN safe : Safe(safe[t])) /\ Safe(db)
    BY <1>2, <2>1, <2>2 DEF Secure
  <2>4. \A r, q \in Requests : req'[r].op = "reset" /\ req'[q] # Closed => r = q
    BY <1>3
  <2> HIDE DEF Safe, Trusts, Is
  <2> QED BY <1>1, <2>3, <2>4 DEF Secure, Safe, Trusts, Is
<1>8. Back' /\ Follow'
  BY <1>1 DEF Back, Follow
<1> QED BY <1>4, <1>5, <1>6, <1>7, <1>8 DEF Inv

(* A database with an access mode: another one if it had none, in which    *)
(* forms still come with somebody who can sign in.                         *)
LEMMA SeedIs ==
    ASSUME NEW c \in Database, NEW d, d = seedAuthDefaults(c)
    PROVE  /\ d \in Database /\ d.id = c.id
           /\ (c.method = "forms" => Way(c)) => (d.method = "forms" => Way(d))
<1>1. CASE c.method # ""
  BY <1>1 DEF seedAuthDefaults
<1>2. CASE c.method = "" /\ envAdmin /\ ~c.user
  <2>1. d = [c EXCEPT !.user = TRUE, !.method = "forms", !.required = "enabled"]
    BY <1>2 DEF seedAuthDefaults
  <2> QED BY <2>1 DEF Database, Way
<1>3. CASE c.method = "" /\ ~(envAdmin /\ ~c.user)
  <2>1. d = [c EXCEPT !.method = "none", !.required = "localhost"]
    BY <1>3 DEF seedAuthDefaults
  <2> QED BY <2>1 DEF Database
<1> QED BY <1>1, <1>2, <1>3

(* A database with all its settings.                                       *)
LEMMA ApplyIs ==
    ASSUME NEW c \in Database, NEW d, d = applyDBSettings(c)
    PROVE  /\ d \in Database /\ d.id = c.id /\ d.method = c.method /\ d.user = c.user
           /\ d.sso = c.sso /\ d.client = c.client
           /\ d.sched # "" /\ d.on \in {"yes", "no"} /\ d.auto \in {"yes", "no"}
           /\ d.format \in {"m4b", "mp3"}
<1>1. d = [c EXCEPT !.sched = IF c.sched = "" THEN "daily" ELSE c.sched,
                    !.on = IF c.on = "" THEN "yes" ELSE c.on,
                    !.auto = IF c.auto = "" THEN "no" ELSE c.auto,
                    !.format = IF c.format = "" THEN "m4b" ELSE c.format]
  BY DEF applyDBSettings, Database
<1>2. /\ d.sched = (IF c.sched = "" THEN "daily" ELSE c.sched)
      /\ d.on = (IF c.on = "" THEN "yes" ELSE c.on)
      /\ d.auto = (IF c.auto = "" THEN "no" ELSE c.auto)
      /\ d.format = (IF c.format = "" THEN "m4b" ELSE c.format)
      /\ d.id = c.id /\ d.method = c.method /\ d.user = c.user
      /\ d.sso = c.sso /\ d.client = c.client
  BY <1>1 DEF Database
<1>3. d.sched \in {"", "daily"} /\ d.on \in Answers /\ d.auto \in Answers /\ d.format \in Formats
  BY <1>2, DBIs DEF Answers, Formats
<1>4. d \in Database
  BY <1>1, <1>2, <1>3 DEF Database
<1> QED BY <1>2, <1>4, DBIs DEF Answers, Formats

(* The program starts.                                                     *)
LEMMA BootKeeps ==
    ASSUME Inv, Boot
    PROVE  Inv'
<1>1. PICK a, s, c, id : /\ a = initDatabase /\ s = seedAuthDefaults(a) /\ c = applyDBSettings(s)
                         /\ id = IF c.id = 0 THEN Cardinality(lived) + 1 ELSE c.id
  OBVIOUS
<1>2. /\ ~up /\ db # BadDB
      /\ db' = [c EXCEPT !.id = id] /\ lived' = lived \cup {id}
      /\ excused' = (excused \ {"race", "slip"})
                    \cup (IF db = NoDB /\ lived # {} THEN {"anew"} ELSE {})
      /\ up' = TRUE /\ open' = TRUE /\ running' = TRUE
      /\ live' = FollowedBy(c) /\ now' = now + 1
      /\ UNCHANGED <<staged, safe, exiting, req>>
  BY <1>1 DEF Boot
<1>3. Types /\ AllFit /\ Kept /\ Secure /\ Data
  BY DEF Inv, Types
<1>4. \A r \in Requests : req[r] = Closed /\ req'[r] = Closed
  BY <1>2, <1>3 DEF AllFit, Fits
<1>5. /\ a \in Database /\ (db # NoDB => a = db) /\ (db = NoDB => a = Empty)
      /\ s \in Database /\ s.id = a.id
      /\ (a.method = "forms" => Way(a)) => (s.method = "forms" => Way(s))
  <2>1. a \in Database /\ (db # NoDB => a = db) /\ (db = NoDB => a = Empty)
    BY <1>1, <1>2, <1>3, EmptyIs DEF initDatabase, Data, Files
  <2> QED BY <1>1, <2>1, SeedIs
<1>6. /\ c \in Database /\ c.id = a.id /\ c.method = s.method /\ c.user = s.user
      /\ c.sso = s.sso /\ c.client = s.client
      /\ c.sched # "" /\ c.on \in {"yes", "no"} /\ c.auto \in {"yes", "no"}
      /\ c.format \in {"m4b", "mp3"}
  BY <1>1, <1>5, ApplyIs
<1>7. /\ IsFiniteSet(lived) /\ lived = 1..Cardinality(lived) /\ Cardinality(lived) \in Nat
      /\ now \in Nat /\ DOMAIN safe \subseteq 1..now /\ c.id \in {0} \cup lived
  <2>1. a.id \in {0} \cup lived
    BY <1>2, <1>3, <1>5, EmptyIs DEF Data, Files, Numbers
  <2> QED BY <1>3, <1>6, <2>1, FS_CardinalityType DEF Data
<1>8. /\ id \in Nat \ {0} /\ id \in lived' /\ (c.id # 0 => id = c.id /\ id \in lived)
      /\ (c.id = 0 => id = Cardinality(lived) + 1)
  BY <1>1, <1>2, <1>7
<1>9. IsFiniteSet(lived') /\ lived' = 1..Cardinality(lived')
  <2>1. CASE c.id # 0
    <3>1. lived' = lived
      BY <1>2, <1>8, <2>1
    <3> QED BY <1>7, <3>1
  <2>2. CASE c.id = 0
    <3>1. id \notin lived /\ lived' = 1..(Cardinality(lived) + 1)
      BY <1>2, <1>7, <1>8, <2>2
    <3>2. IsFiniteSet(lived') /\ Cardinality(lived') = Cardinality(lived) + 1
      BY <1>2, <1>7, <3>1, FS_AddElement
    <3> QED BY <3>1, <3>2
  <2> QED BY <2>1, <2>2
<1>10. /\ db' \in Database /\ db'.id = id /\ db'.method = c.method /\ db'.user = c.user
       /\ db'.sso = c.sso /\ db'.client = c.client
       /\ db'.sched = c.sched /\ db'.on = c.on /\ db'.auto = c.auto /\ db'.format = c.format
       /\ db'.onboarded = c.onboarded
  BY <1>2, <1>6, <1>8 DEF Database
<1>11. Types'
  <2>1. live' \in Live
    BY <1>2, <1>6, DBIs DEF FollowedBy, Live
  <2>2. now' \in Nat /\ now' > 0 /\ DOMAIN safe' \subseteq 1..now'
    BY <1>2, <1>7
  <2>3. Data'
    <3>1. lived \subseteq lived' /\ lived' # {}
      BY <1>2
    <3>2. db' \in Database => db'.id \in {0} \cup lived'
      BY <1>8, <1>10
    <3>3. \A t \in DOMAIN safe' : safe'[t] \in Database => safe'[t].id \in {0} \cup lived'
      BY <1>2, <1>3, <3>1 DEF Data, Numbers
    <3> QED BY <1>2, <1>3, <1>9, <1>10, <2>1, <2>2, <3>1, <3>2, <3>3 DEF Data, Numbers, Files
  <2> QED BY <1>2, <1>3, <2>3 DEF Types
<1>12. AllFit'
  <2>1. Fits(Closed)'
    BY ClosedFits DEF Fits
  <2> QED BY <1>4, <2>1 DEF AllFit
<1>13. Kept'
  <2> SUFFICES ASSUME "twice" \notin excused' PROVE Kept'
    BY DEF Kept
  <2>1. "twice" \notin excused
    BY <1>2
  <2>2. \A r \in Requests : /\ Restores(req[r])' /\ ~Is(req'[r], "aside")
                            /\ req'[r].op # "restore"
    <3>1. Closed.op # "restore"
      BY ClosedFits DEF Ops
    <3>2. Restores(Closed)'
      BY <3>1 DEF Restores
    <3> HIDE DEF Restores, Is
    <3> QED BY <1>4, <3>1, <3>2, ClosedFits
  <2>3. ASSUME NEW i \in lived'
        PROVE  db'.id = i \/ \E t \in DOMAIN safe' : safe'[t].id = i
    <3>1. CASE i = id
      BY <1>10, <3>1
    <3>2. CASE i # id
      <4>1. i \in lived /\ i # 0
        BY <1>2, <1>7, <3>2
      <4>2. db.id = i \/ \E t \in DOMAIN safe : safe[t].id = i
        BY <1>3, <2>1, <4>1 DEF Kept
      <4>3. db.id # i
        <5>1. CASE db = NoDB
          BY <1>7, <4>1, <5>1, NoFile
        <5>2. CASE db # NoDB
          BY <1>5, <1>6, <1>8, <3>2, <4>1, <5>2
        <5> QED BY <5>1, <5>2
      <4> QED BY <1>2, <4>2, <4>3
    <3> QED BY <3>1, <3>2
  <2>4. db' # BadDB /\ db' # NoDB /\ now' \notin DOMAIN safe'
    BY <1>2, <1>7, <1>10, NoFile
  <2>5. \A t \in DOMAIN safe' : safe'[t] # BadDB
    BY <1>2, <1>3, <2>1 DEF Kept
  <2>6. "anew" \in excused' => "torn" \in excused'
    <3>1. ("anew" \in excused => "torn" \in excused)
          /\ (db = NoDB => \/ "torn" \in excused \/ lived = {}
                           \/ \E r \in Requests : Replaces(req[r]))
      BY <1>3, <2>1 DEF Kept
    <3>2. \A r \in Requests : ~Replaces(req[r])
      <4> HIDE DEF Replaces
      <4> QED BY <1>4, ClosedFits
    <3> QED BY <1>2, <3>1, <3>2
  <2> HIDE DEF Restores, Is, Replaces
  <2> QED BY <2>2, <2>3, <2>4, <2>5, <2>6 DEF Kept, Restores, Is, Replaces
<1>14. Secure'
  <2> SUFFICES ASSUME excused' \cap {"crossed", "cut", "off"} = {} PROVE Secure'
    BY DEF Secure
  <2>1. excused \cap {"crossed", "cut", "off"} = {}
    BY <1>2
  <2>2. \A r \in Requests : ~Is(req[r], "settings") /\ Trusts(req'[r], db')
    <3> HIDE DEF Is, Trusts
    <3> QED BY <1>4, ClosedFits
  <2>3. Safe(staged) /\ (\A t \in DOMAIN safe : Safe(safe[t])) /\ Safe(db)
    BY <1>3, <2>1, <2>2 DEF Secure
  <2>4. a.method = "forms" => Way(a)
    BY <1>5, <2>3, EmptyIs DEF Safe
  <2>5. Safe(db')
    BY <1>5, <1>6, <1>10, <2>4 DEF Safe, Way, Ready
  <2>6. \A r, q \in Requests : req'[r].op = "reset" /\ req'[q] # Closed => r = q
    BY <1>4
  <2> HIDE DEF Safe, Trusts, Is
  <2> QED BY <1>2, <2>2, <2>3, <2>5, <2>6 DEF Secure, Safe, Trusts, Is
<1>15. Back'
  BY <1>2 DEF Back
<1>16. Follow'
  <2>1. /\ \A r, q \in Requests :
              req'[r].op \in Writers /\ req'[q].op \in Writers => r = q
        /\ \A r \in Requests : Owing(req[r])'
    <3>1. Owing(Closed)'
      BY ClosedFits DEF Owing
    <3>2. Closed.op \notin Writers
      BY ClosedFits
    <3> HIDE DEF Owing, Writers
    <3> QED BY <1>4, <3>1, <3>2
  <2>2. /\ live'.auto = db'.auto /\ live'.format = db'.format
        /\ live'.onboarded = db'.onboarded /\ live'.cron = Scheduled(db')
    BY <1>2, <1>6, <1>10 DEF FollowedBy, Scheduled
  <2> HIDE DEF OwesAuto, OwesFormat, OwesCron, OwesPage, Owing, Scheduled, Writers
  <2> QED BY <2>1, <2>2 DEF Follow, OwesAuto, OwesFormat, OwesCron, OwesPage, Owing, Scheduled,
                            Writers
<1> QED BY <1>11, <1>12, <1>13, <1>14, <1>15, <1>16 DEF Inv

-----------------------------------------------------------------------------
(* The specification *)

(* At first there is no database or an earlier one, and nothing runs.      *)
LEMMA Initially == Init => Inv
<1> SUFFICES ASSUME Init PROVE Inv
  OBVIOUS
<1>1. /\ db \in {NoDB} \cup Befores /\ staged = NoDB /\ safe = Nothing
      /\ up = FALSE /\ open = FALSE /\ running = FALSE /\ exiting = FALSE
      /\ live = NoLive /\ req = [r \in Requests |-> Closed]
      /\ now = 0 /\ lived = {} /\ excused = {}
  BY DEF Init
<1>2. DOMAIN safe = {}
  BY <1>1 DEF Nothing
<1>3. \A d \in Befores : d \in Database /\ d.id = 0 /\ (d.method = "forms" => Way(d))
  BY InstallAssumption
<1>4. \A r \in Requests : req[r] = Closed
  BY <1>1
<1>5. Types
  <2>1. IsFiniteSet(lived) /\ lived = 1..Cardinality(lived)
    BY <1>1, FS_EmptySet
  <2>2. live \in Live
    BY <1>1 DEF NoLive, Live
  <2>3. db \in Files /\ staged \in Files /\ (db \in Database => db.id \in Numbers)
        /\ staged \notin Database
    BY <1>1, <1>3, NoFile DEF Files, Numbers
  <2>4. Data
    BY <1>1, <1>2, <2>1, <2>2, <2>3 DEF Data
  <2> QED BY <1>1, <2>4, ClosedIs DEF Types
<1>6. AllFit
  <2>1. Fits(Closed)
    BY ClosedFits DEF Fits
  <2> QED BY <1>4, <2>1 DEF AllFit
<1>7. Kept
  <2>1. Closed.op # "restore"
    BY ClosedFits DEF Ops
  <2>2. Restores(Closed)
    BY <2>1 DEF Restores
  <2>3. db # BadDB
    BY <1>1, <1>3, NoFile
  <2> HIDE DEF Restores, Is, Replaces
  <2>4. \A r \in Requests : Restores(req[r]) /\ ~Is(req[r], "aside") /\ req[r].op # "restore"
    BY <1>4, <2>1, <2>2, ClosedFits
  <2> QED BY <1>1, <1>2, <2>3, <2>4 DEF Kept, Restores, Is, Replaces
<1>8. Secure
  <2>1. Safe(db) /\ Safe(staged)
    BY <1>1, <1>3, NoFile DEF Safe
  <2>2. \A r \in Requests : req[r] = Closed
    BY <1>4
  <2> HIDE DEF Safe, Trusts, Is
  <2> QED BY <1>1, <1>2, <2>1, <2>2, ClosedFits DEF Secure, Safe, Trusts, Is
<1>9. Back /\ Follow
  BY <1>1 DEF Back, Follow
<1> QED BY <1>5, <1>6, <1>7, <1>8, <1>9 DEF Inv

(* A request that begins.                                                  *)
LEMMA RequestKeeps ==
    ASSUME Inv, NEW r \in Requests, Request(r)
    PROVE  Inv'
BY SaveBegins, FinishBegins, SkipBegins, AgainBegins, AdminBegins, NoAdminBegins, MethodBegins,
   PasswordBegins, OIDCBegins, CallbackBegins, ResetBegins, RestoreBegins, RestartBegins DEF Request

(* A step of a request.                                                    *)
LEMMA RequestStepKeeps ==
    ASSUME Inv, NEW r \in Requests, RequestStep(r)
    PROVE  Inv'
BY SetSettingKeeps, SetAutoQueueNewKeeps, ReadScheduleKeeps, SetSyncScheduleKeeps,
   PutFormatKeeps, SetOutputFormatKeeps, PutChoiceKeeps, PutOnboardedKeeps, StoreOnboardedKeeps,
   FindKeeps, UpsertKeeps, CountUsersKeeps, ReadyKeeps, PutOIDCKeeps, PutMethodKeeps,
   PutRequiredKeeps, StopKeeps, WaitKeeps, StartKeeps, TablesKeeps, UploadKeeps, ValidateKeeps,
   CloseKeeps, MoveAsideKeeps, InstallKeeps, RollBackKeeps, SignalKeeps DEF RequestStep

(* What no step changes.                                                   *)
LEMMA StillKeeps ==
    ASSUME Inv, UNCHANGED vars
    PROVE  Inv'
<1>1. UNCHANGED <<db, staged, safe, up, open, running, exiting, live, req, now, lived, excused>>
  BY DEF vars
<1>2. Data' /\ Types'
  BY <1>1 DEF Inv, Types, Data, Numbers
<1>3. AllFit'
  BY <1>1 DEF Inv, AllFit, Fits
<1>4. Kept'
  BY <1>1 DEF Inv, Kept, Restores
<1>5. Secure' /\ Back'
  BY <1>1 DEF Inv, Secure, Back
<1>6. Follow'
  BY <1>1 DEF Inv, Follow, Owing, Scheduled
<1> QED BY <1>2, <1>3, <1>4, <1>5, <1>6 DEF Inv

(* Every step keeps the invariant.                                         *)
LEMMA EveryStep == Inv /\ [Next]_vars => Inv'
<1> SUFFICES ASSUME Inv, [Next]_vars PROVE Inv'
  OBVIOUS
<1>1. CASE UNCHANGED vars
  BY <1>1, StillKeeps
<1>2. ASSUME NEW r \in Requests, Request(r) \/ RequestStep(r) \/ StepFails(r)
      PROVE  Inv'
  BY <1>2, RequestKeeps, RequestStepKeeps, FailKeeps
<1>3. CASE ProcessEnds
  BY <1>3, EndKeeps
<1>4. CASE Boot
  BY <1>4, BootKeeps
<1> QED BY <1>1, <1>2, <1>3, <1>4 DEF Next

(* The types.                                                              *)
LEMMA TypesImply == Inv => InstallTypeOK
<1> SUFFICES ASSUME Inv PROVE InstallTypeOK
  OBVIOUS
<1>1. Data
  BY DEF Inv, Types
<1>2. live \in [cron : BOOLEAN, auto : {"yes", "no"}, format : {"m4b", "mp3"},
                onboarded : BOOLEAN]
  BY <1>1 DEF Data, Live
<1>3. \A i \in lived : i \in 1..Cardinality(lived)
  BY <1>1 DEF Data
<1>4. \A t \in DOMAIN safe : t \in 1..now /\ safe[t] \in Database \cup {BadDB}
  BY <1>1 DEF Data
<1>5. {up, open, running, exiting} \subseteq BOOLEAN
  BY <1>1 DEF Data
<1> QED BY <1>1, <1>2, <1>3, <1>4, <1>5 DEF InstallTypeOK, Data, Files

(* The databases.                                                          *)
LEMMA KeptImplies == Inv => DatabaseKept
BY DEF Inv, Kept, DatabaseKept

(* What a request leaves when it is over.                                  *)
LEMMA BackImplies == Inv => SettledWell
<1> SUFFICES ASSUME Inv, Settled PROVE SettledWell
  BY DEF SettledWell, WorkersBack, LiveFollows
<1>1. \A r \in Requests : req[r] = Closed
  BY DEF Settled, IdleNow
<1> HIDE DEF WillEnd, WillStart, OwesAuto, OwesFormat, OwesCron, OwesPage
<1>2. \A r \in Requests : /\ ~WillEnd(req[r]) /\ ~WillStart(req[r]) /\ ~OwesAuto(req[r])
                          /\ ~OwesFormat(req[r]) /\ ~OwesCron(req[r]) /\ ~OwesPage(req[r])
  BY <1>1, ClosedFits
<1>3. running /\ open
  BY <1>2 DEF Inv, Back, Settled
<1>4. excused \cap {"race", "slip"} = {} =>
         /\ db.auto # "" => live.auto = db.auto
         /\ db.format # "" => live.format = db.format
         /\ db.on # "" => live.cron = Scheduled(db)
         /\ live.onboarded = db.onboarded
  BY <1>2, <1>3 DEF Inv, Follow
<1> QED BY <1>3, <1>4 DEF SettledWell, WorkersBack, LiveFollows

(* Who can sign in.                                                        *)
LEMMA SecureImplies == Inv => SomeoneCanSignIn
<1> SUFFICES ASSUME Inv, Settled, excused \cap {"crossed", "cut", "off"} = {}, db.method = "forms"
             PROVE  Way(db)
  BY DEF SomeoneCanSignIn
<1>1. \A r \in Requests : ~Is(req[r], "settings")
  <2>1. \A r \in Requests : req[r] = Closed
    BY DEF Settled, IdleNow
  <2> HIDE DEF Is
  <2> QED BY <2>1, ClosedFits
<1>2. open
  BY BackImplies DEF SettledWell, WorkersBack
<1>3. db \in Database
  BY <1>2 DEF Inv, Types, Data
<1>4. Safe(db)
  BY <1>1 DEF Inv, Secure
<1> QED BY <1>3, <1>4 DEF Safe

(* Types, and: nothing runs on a closed database, no safety copy comes     *)
(* from a later second, and the databases that the program has run with    *)
(* are numbered (web/server.go:3842 and 3907).                             *)
THEOREM InstallTyped == Spec => []InstallTypeOK
BY TypesImply, Initially, EveryStep, PTL DEF Spec

(* Every database that the program has run with is kept, whatever restore  *)
(* fails or is cut short at whatever step, while no two of them meet in    *)
(* one run (web/server.go:3831, 3849 and 3907).                            *)
THEOREM DatabasesStay == Spec => []DatabaseKept
BY KeptImplies, Initially, EveryStep, PTL DEF Spec

(* When all requests are over, the pipeline runs, the database is open,    *)
(* and scheduler, pipeline and wizard go by what it says, with what        *)
(* LiveFollows excludes (web/server.go:3527, 3842 and 3938).               *)
THEOREM RequestsSettle == Spec => []SettledWell
BY BackImplies, Initially, EveryStep, PTL DEF Spec

(* To an installation that asks for a password somebody can sign in: it    *)
(* has a user, or single sign-on is enabled and configured                 *)
(* (web/auth_handlers.go:250-263); but for a reset that was cut or         *)
(* crossed, and for single sign-on disabled while nobody is a user.        *)
THEOREM NobodyLockedOut == Spec => []SomeoneCanSignIn
BY SecureImplies, Initially, EveryStep, PTL DEF Spec
=============================================================================
