--------------------------- MODULE AccountsProofs ---------------------------
(***************************************************************************)
(* Proofs about the Audible accounts: AccountsTypeOK, SignInPaired and     *)
(* RightClient hold for any number of accounts, sign-in links and regions, *)
(* any set of requests and any budget.                                     *)
(*                                                                         *)
(* Inv has five parts.  Types and Created are the types; AllFit is what    *)
(* each request knows, from the steps it still has to do; Paired is about  *)
(* who holds the credentials of a sign-in, in a row or in a request that   *)
(* is about to write one; Right is about the one request there is while    *)
(* the history is not disturbed.  The lemmas of one section say what a     *)
(* step must show to keep a part, and then each step of a request has a    *)
(* lemma of its own.                                                       *)
(***************************************************************************)
EXTENDS Accounts, FiniteSetTheorems, SequenceTheorems, WellFoundedInduction,
        TLAPS

(* The requests, their steps, and the steps that a plan can end with.      *)
Ops   == {"add", "remove", "region", "market", "setup", "start", "wizard", "callback"}
Steps == {"create", "ensure", "delete", "get", "put", "setting", "list", "swap", "repoint",
          "remember", "look", "take", "exchange"}
Ends  == {"repoint", "remember"}

(* After step x, a request of kind k may go on with step y.  What every    *)
(* request still has to do is a list of steps each of which may follow the *)
(* one before; no proof looks at whole lists but when a request begins.    *)
Follows(k, x, y) ==
    \/ x = "list" /\ y = "swap"
    \/ x = "swap" /\ y = "repoint"
    \/ x = "get" /\ y = "put"
    \/ x = "repoint" /\ y = "remember" /\ k \in {"add", "start", "wizard"}
    \/ x = "create" /\ y = "list" /\ k \in {"add", "market", "setup", "wizard"}
    \/ x = "create" /\ y = "setting" /\ k = "start"
    \/ x = "delete" /\ y = "list" /\ k = "remove"
    \/ x = "put" /\ y = "setting" /\ k = "region"
    \/ x = "put" /\ y = "remember" /\ k = "start"
    \/ x = "put" /\ y = "list" /\ k \in {"market", "setup", "callback"}
    \/ x = "setting" /\ y = "list" /\ k \in {"region", "start"}
    \/ x = "setting" /\ y = "ensure" /\ k \in {"market", "setup"}
    \/ x = "ensure" /\ y = "get" /\ k \in {"market", "setup"}
    \/ x = "repoint" /\ y = "get" /\ k \in {"market", "setup"}
    \/ x = "ensure" /\ y = "remember" /\ k = "wizard"
    \/ x = "look" /\ y = "take" /\ k = "callback"
    \/ x = "take" /\ y = "exchange" /\ k = "callback"
    \/ x = "exchange" /\ y = "get" /\ k = "callback"

(* t is what a request of kind k may still have to do.                     *)
Planned(k, t) ==
    t # <<>> => /\ t[Len(t)] \in Ends
                /\ \A i \in 1..(Len(t) - 1) : Follows(k, t[i], t[i + 1])

Now(l) == Head(l.todo)

(* Functions on some of the accounts, and the sets that the state is in.   *)
Maps(S) == UNION {[D -> S] : D \in SUBSET Ids}
Row     == [creds : 0..Legacy, market : Markets]
Local   == [op : Ops \cup {"none"}, todo : Seq(Steps), acct : 0..NumAccounts,
            market : Markets \cup {"none"}, link : 0..NumLinks, code : 0..NumLinks,
            seen : Row \cup {NoRow}, list : Maps(0..Legacy)]

(* The accounts that were created, and the credentials there are.          *)
Known == DOMAIN signed
Given == {0, Legacy} \cup spent

(* The types of all but the requests, and of the requests.                 *)
Data ==
    /\ rows \in Maps(Row) /\ setting \in Markets /\ file \in BOOLEAN
    /\ clients \in Maps(0..Legacy) /\ signed \in Maps(0..Legacy)
    /\ audible \in [acct : 0..NumAccounts, creds : 0..Legacy]
    /\ pending \in Maps(1..NumLinks)
    /\ links \in Seq(0..NumAccounts) /\ Len(links) <= NumLinks
    /\ spent \subseteq 1..Len(links) /\ removed \subseteq {Legacy} \cup spent
    /\ added \subseteq Ids /\ disturbed \in BOOLEAN
    /\ budget \in [Events -> Nat]
    /\ Born \in 0..NumAccounts /\ Known = 1..Born
Types == Data /\ req \in [Requests -> Local]

(* No row, client, link or pending sign-in is of an account that was not   *)
(* created, and no credentials are there that no sign-in gave.             *)
Created ==
    /\ DOMAIN rows \subseteq Known /\ DOMAIN clients \subseteq Known
    /\ DOMAIN pending \subseteq Known /\ audible.acct \in {0} \cup Known
    /\ \A a \in DOMAIN rows : rows[a].creds \in Given
    /\ \A a \in DOMAIN clients : clients[a] \in Given
    /\ \A n \in 1..Len(links) : links[n] \in {0} \cup Known
    /\ \A a \in DOMAIN pending : pending[a] \in 1..Len(links) /\ links[pending[a]] = a

(* What is known of a request from what it still has to do.  A sign-in,    *)
(* once its page was accepted, has the link of its own account or of none, *)
(* and once Amazon has answered the code of that link is spent.            *)
Fits(l) ==
    /\ l.todo = <<>> => l = Closed
    /\ Planned(l.op, l.todo)
    /\ l.acct \in {0} \cup Known /\ l.seen.creds \in Given
    /\ DOMAIN l.list \subseteq Known /\ \A a \in DOMAIN l.list : l.list[a] \in Given
    /\ l.todo # <<>> =>
          /\ l.op # "none"
          /\ l.op \in {"add", "region", "market", "setup", "start"} => l.market \in Markets
          /\ l.op = "callback" =>
                /\ l.acct # 0 /\ l.link \in 0..Len(links)
                /\ l.link # 0 => links[l.link] \in {l.acct, 0}
                /\ Now(l) \notin {"look", "take"} => l.link # 0
                /\ Now(l) # "look" => l.market \in Markets
                /\ Now(l) \in {"get", "put"} => l.link \in spent
AllFit == \A r \in Requests : Fits(req[r])

(* The request is about to write the credentials c into the row of its     *)
(* account: it read them there, or Amazon gave them.  Account a holds c    *)
(* when its row does, or such a request will make it do so.                *)
Carries(l, c) ==
    /\ l.todo # <<>>
    /\ \/ l.op # "callback" /\ Now(l) = "put" /\ l.seen.creds = c
       \/ l.op = "callback" /\ Now(l) \in {"get", "put"} /\ l.link = c
Holder(a, c) ==
    \/ a \in DOMAIN rows /\ rows[a].creds = c
    \/ \E r \in Requests : req[r].acct = a /\ Carries(req[r], c)

(* Accounts, links and spent codes only become more.                       *)
Grows ==
    /\ Known \subseteq Known' /\ spent \subseteq spent'
    /\ Len(links) <= Len(links') /\ \A n \in 1..Len(links) : links'[n] = links[n]

(* Credentials that a sign-in gave have one holder at most, the account    *)
(* that the link was made for if it was made for any, and an account that  *)
(* was removed holds them only in requests that will find no row.          *)
(* SignInPaired alone is not inductive: the credentials that a request has *)
(* in its hands count as much as those in the rows.                        *)
Paired ==
    \A c \in spent, a \in 0..NumAccounts : Holder(a, c) =>
       /\ links[c] \in {a, 0}
       /\ c \in removed => a \notin DOMAIN rows
       /\ \A b \in 0..NumAccounts : Holder(b, c) => a = b

(* What a request that runs alone leaves between two of its steps: which   *)
(* of rows, clients and s.audible agree before its list, swap and repoint  *)
(* steps were done and after.                                              *)
Creds   == [a \in DOMAIN rows |-> rows[a].creds]
Pointed == audible = Repoint(clients, audible)
Soon(l) == Now(l) = "list" \/ (Now(l) = "setting" /\ l.op = "start")
Reports(l) ==
    IF l.todo = <<>> THEN clients = Creds /\ Pointed
    ELSE /\ clients = Creds \/ Soon(l) \/ Now(l) = "swap"
         /\ Now(l) = "swap" => l.list = Creds
         /\ Pointed \/ Soon(l) \/ Now(l) \in {"swap", "repoint"}
         /\ Now(l) = "put" /\ l.op # "callback" =>
               l.acct \in DOMAIN rows /\ l.seen.creds = rows[l.acct].creds
         /\ Now(l) = "create" /\ l.op # "add" => DOMAIN rows = {}
RowsSigned == \A a \in DOMAIN rows : rows[a].creds = signed[a]
OneUnasked == \E x \in 0..NumAccounts : DOMAIN rows \ added \subseteq {x}

(* As long as no two requests overlapped and none failed, the rows hold    *)
(* the last sign-ins, all but one account were asked for, one request at   *)
(* most is in progress, and it reports; when there is none, clients and    *)
(* s.audible agree with the rows.                                          *)
Right ==
    ~disturbed =>
       /\ RowsSigned /\ OneUnasked
       /\ \A r, q \in Requests : req[r] # Closed /\ req[q] # Closed => r = q
       /\ \A r \in Requests : req[r] # Closed => Reports(req[r])
       /\ IdleNow => Reports(Closed)

(* The inductive invariant.                                                *)
Inv == Types /\ Created /\ AllFit /\ Paired /\ Right

-----------------------------------------------------------------------------
(* Maps, and the first of some accounts *)

(* As many accounts were created as the greatest of their numbers.         *)
LEMMA Counted == ASSUME NEW n \in Nat PROVE Cardinality(1..n) = n
<1>1. Cardinality(1..n) = IF 1 > n THEN 0 ELSE n - 1 + 1
  BY FS_Interval
<1> QED BY <1>1

(* The account loaded first is one of the accounts (library/accounts.go,   *)
(* PrimaryAccountID).                                                      *)
LEMMA LeastIn ==
    ASSUME NEW S, S \subseteq Nat, S # {}
    PROVE  Primary(S) \in S
<1>1. IsWellFoundedOn(OpToRel(<, Nat), Nat)
  BY NatLessThanWellFounded
<1>2. PICK x \in S : \A y \in S : ~(<<y, x>> \in OpToRel(<, Nat))
  BY <1>1, WFMin
<1>3. \A y \in S : x <= y
  <2> SUFFICES ASSUME NEW y \in S PROVE x <= y
    OBVIOUS
  <2>1. ~(<<y, x>> \in OpToRel(<, Nat))
    BY <1>2
  <2>2. x \in Nat /\ y \in Nat
    OBVIOUS
  <2> QED BY <2>1, <2>2 DEF OpToRel
<1>4. \E a \in S : \A b \in S : a <= b
  BY <1>3
<1> QED BY <1>4 DEF Primary

(* A map on some accounts has its values in the set it is named for.       *)
LEMMA MapIs ==
    ASSUME NEW S, NEW f \in Maps(S)
    PROVE  /\ DOMAIN f \subseteq Ids /\ f \in [DOMAIN f -> S]
           /\ \A x \in DOMAIN f : f[x] \in S
BY DEF Maps

(* A function on some accounts is such a map.                              *)
LEMMA IsMap ==
    ASSUME NEW S, NEW D, D \subseteq Ids, NEW f \in [D -> S]
    PROVE  f \in Maps(S)
BY DEF Maps

(* The function on no account is a map, whatever its values would be.      *)
LEMMA EmptyMap ==
    ASSUME NEW S PROVE Nothing \in Maps(S) /\ DOMAIN Nothing = {}
<1>1. Nothing \in [{} -> S] /\ DOMAIN Nothing = {}
  BY DEF Nothing
<1> QED BY <1>1, IsMap

(* Writing the entry of an account leaves a map.                           *)
LEMMA WithMap ==
    ASSUME NEW S, NEW f \in Maps(S), NEW a \in Ids, NEW v \in S
    PROVE  With(f, a, v) \in Maps(S)
<1>1. DOMAIN f \subseteq Ids /\ \A x \in DOMAIN f : f[x] \in S
  BY MapIs
<1>2. With(f, a, v) \in [DOMAIN f \cup {a} -> S]
  BY <1>1 DEF With
<1>3. DOMAIN f \cup {a} \subseteq Ids
  BY <1>1
<1> QED BY <1>2, <1>3, IsMap

(* Removing the entry of an account leaves a map, and every other entry.   *)
LEMMA ForgetMap ==
    ASSUME NEW S, NEW f \in Maps(S), NEW a
    PROVE  /\ Forget(f, a) \in Maps(S)
           /\ DOMAIN Forget(f, a) = DOMAIN f \ {a}
           /\ \A x \in DOMAIN f \ {a} : Forget(f, a)[x] = f[x]
<1>1. DOMAIN f \subseteq Ids /\ \A x \in DOMAIN f : f[x] \in S
  BY MapIs
<1>2. Forget(f, a) \in [DOMAIN f \ {a} -> S]
  BY <1>1 DEF Forget
<1>3. DOMAIN f \ {a} \subseteq Ids
  BY <1>1
<1>4. Forget(f, a) \in Maps(S)
  BY <1>2, <1>3, IsMap
<1> QED BY <1>4 DEF Forget

(* Overwriting the entry of an account leaves a map on the same accounts,  *)
(* and every other entry.                                                  *)
LEMMA SetMap ==
    ASSUME NEW S, NEW f \in Maps(S), NEW a \in DOMAIN f, NEW v \in S
    PROVE  /\ [f EXCEPT ![a] = v] \in Maps(S)
           /\ DOMAIN [f EXCEPT ![a] = v] = DOMAIN f
           /\ [f EXCEPT ![a] = v][a] = v
           /\ \A x \in DOMAIN f \ {a} : [f EXCEPT ![a] = v][x] = f[x]
<1>1. DOMAIN f \subseteq Ids /\ f \in [DOMAIN f -> S]
  BY MapIs
<1>2. [f EXCEPT ![a] = v] \in [DOMAIN f -> S]
  BY <1>1
<1>4. [f EXCEPT ![a] = v] \in Maps(S)
  BY <1>1, <1>2, IsMap
<1> QED BY <1>1, <1>4

(* PrimaryAccountID is 0, or an account that has a client; it is 0 only    *)
(* when none has.                                                          *)
LEMMA PrimaryFact ==
    ASSUME Data
    PROVE  /\ PrimaryAccountID \in 0..NumAccounts
           /\ PrimaryAccountID \in {0} \cup DOMAIN clients
           /\ PrimaryAccountID = 0 <=> DOMAIN clients = {}
<1>1. DOMAIN clients \subseteq Ids /\ Ids \subseteq Nat
  BY MapIs DEF Data, Ids
<1>2. CASE DOMAIN clients = {}
  BY <1>2, AccountsAssumption DEF PrimaryAccountID, Primary
<1>3. CASE DOMAIN clients # {}
  <2>1. Primary(DOMAIN clients) \in DOMAIN clients
    BY <1>1, <1>3, LeastIn
  <2>2. 0 \notin Ids /\ Ids \subseteq 0..NumAccounts
    BY AccountsAssumption DEF Ids
  <2> QED BY <1>1, <1>3, <2>1, <2>2 DEF PrimaryAccountID
<1> QED BY <1>2, <1>3

-----------------------------------------------------------------------------
(* The steps of a request *)

(* What is left of a plan once its first step is done is a plan, which     *)
(* begins with a step that may follow.                                     *)
LEMMA TailPlanned ==
    ASSUME NEW k, NEW t \in Seq(Steps), t # <<>>, Planned(k, t)
    PROVE  /\ Tail(t) \in Seq(Steps) /\ Head(t) \in Steps
           /\ Planned(k, Tail(t))
           /\ Tail(t) = <<>> => Head(t) \in Ends
           /\ Tail(t) # <<>> => Follows(k, Head(t), Head(Tail(t)))
<1>1. /\ Tail(t) \in Seq(Steps) /\ Len(Tail(t)) = Len(t) - 1 /\ Head(t) \in Steps
      /\ Len(t) \in Nat \ {0} /\ Head(t) = t[1]
      /\ \A i \in 1..Len(Tail(t)) : Tail(t)[i] = t[i + 1]
  OBVIOUS
<1>2. t[Len(t)] \in Ends /\ \A i \in 1..(Len(t) - 1) : Follows(k, t[i], t[i + 1])
  BY DEF Planned
<1>3. CASE Tail(t) = <<>>
  <2>1. Len(t) = 1
    BY <1>1, <1>3
  <2> QED BY <1>1, <1>2, <1>3, <2>1 DEF Planned
<1>4. CASE Tail(t) # <<>>
  <2>1. Len(Tail(t)) >= 1 /\ Head(Tail(t)) = Tail(t)[1]
    BY <1>1, <1>4
  <2>2. Tail(t)[1] = t[2] /\ Follows(k, t[1], t[2])
    <3>1. 1 \in 1..(Len(t) - 1) /\ 1 \in 1..Len(Tail(t))
      BY <1>1, <2>1
    <3> QED BY <1>1, <1>2, <3>1
  <2>3. Tail(t)[Len(Tail(t))] = t[Len(t)]
    BY <1>1, <2>1
  <2>4. ASSUME NEW i \in 1..(Len(Tail(t)) - 1)
        PROVE  Follows(k, Tail(t)[i], Tail(t)[i + 1])
    <3>1. i \in 1..Len(Tail(t)) /\ i + 1 \in 1..Len(Tail(t)) /\ i + 1 \in 1..(Len(t) - 1)
      BY <1>1
    <3>2. Tail(t)[i] = t[i + 1] /\ Tail(t)[i + 1] = t[i + 1 + 1]
      BY <1>1, <3>1
    <3>3. Follows(k, t[i + 1], t[i + 1 + 1])
      BY <1>2, <3>1
    <3> QED BY <3>2, <3>3
  <2>5. Planned(k, Tail(t))
    BY <1>2, <2>3, <2>4 DEF Planned
  <2> QED BY <1>1, <1>4, <2>1, <2>2, <2>5
<1> QED BY <1>3, <1>4

(* A step that may be followed by the first one of a plan makes a longer   *)
(* plan.                                                                   *)
LEMMA PairPlanned ==
    ASSUME NEW k, NEW x \in Steps, NEW t \in Seq(Steps), t # <<>>, Planned(k, t),
           Follows(k, x, Head(t)), NEW u, u = <<x>> \o t
    PROVE  u \in Seq(Steps) /\ u # <<>> /\ Head(u) = x /\ Planned(k, u)
<1>1. u \in Seq(Steps) /\ Len(u) = Len(t) + 1 /\ u[1] = x /\ Head(u) = x /\ Len(t) \in Nat \ {0}
      /\ \A i \in 2..Len(u) : u[i] = t[i - 1]
  OBVIOUS
<1>2. u[Len(u)] = t[Len(t)] /\ u # <<>> /\ Head(t) = t[1]
  BY <1>1
<1>3. ASSUME NEW i \in 1..(Len(u) - 1)
      PROVE  Follows(k, u[i], u[i + 1])
  <2>1. CASE i = 1
    <3>1. u[i + 1] = t[1]
      BY <1>1, <2>1
    <3> QED BY <1>1, <1>2, <2>1, <3>1
  <2>2. CASE i # 1
    <3>1. u[i] = t[i - 1] /\ u[i + 1] = t[i] /\ i - 1 \in 1..(Len(t) - 1)
      BY <1>1, <2>2
    <3>2. Follows(k, t[i - 1], t[i - 1 + 1])
      BY <3>1 DEF Planned
    <3>3. i - 1 + 1 = i
      OBVIOUS
    <3> QED BY <3>1, <3>2, <3>3
  <2> QED BY <2>1, <2>2
<1>4. t[Len(t)] \in Ends
  BY DEF Planned
<1>5. Planned(k, u)
  BY <1>2, <1>3, <1>4 DEF Planned
<1> QED BY <1>1, <1>2, <1>5

(* Reload is a plan of every request.                                      *)
LEMMA ReloadPlanned ==
    ASSUME NEW k
    PROVE  /\ Reload \in Seq(Steps) /\ Reload # <<>> /\ Head(Reload) = "list"
           /\ Planned(k, Reload)
<1>1. Reload \in Seq(Steps) /\ Len(Reload) = 3 /\ Reload[1] = "list"
      /\ Reload[2] = "swap" /\ Reload[3] = "repoint"
  BY DEF Reload, Steps
<1> QED BY <1>1 DEF Planned, Follows, Ends

(* To show a link is a plan of every request.                              *)
LEMMA RememberPlanned ==
    ASSUME NEW k
    PROVE  /\ <<"remember">> \in Seq(Steps) /\ <<"remember">> # <<>>
           /\ Head(<<"remember">>) = "remember" /\ Planned(k, <<"remember">>)
BY DEF Planned, Ends, Steps

(* A plan that goes on, after a reload, with t.                            *)
LEMMA ReloadThenPlanned ==
    ASSUME NEW k, NEW t \in Seq(Steps), t # <<>>, Planned(k, t), Follows(k, "repoint", Head(t))
    PROVE  /\ Reload \o t \in Seq(Steps) /\ Reload \o t # <<>>
           /\ Head(Reload \o t) = "list" /\ Planned(k, Reload \o t)
<1> "repoint" \in Steps /\ "swap" \in Steps /\ "list" \in Steps
  BY DEF Steps
<1> Follows(k, "swap", "repoint") /\ Follows(k, "list", "swap")
  BY DEF Follows
<1>1. PICK u : u = <<"repoint">> \o t
  OBVIOUS
<1>2. u \in Seq(Steps) /\ u # <<>> /\ Head(u) = "repoint" /\ Planned(k, u)
  BY <1>1, PairPlanned, Zenon
<1>3. PICK v : v = <<"swap">> \o u
  OBVIOUS
<1>4. v \in Seq(Steps) /\ v # <<>> /\ Head(v) = "swap" /\ Planned(k, v)
  BY <1>2, <1>3, PairPlanned
<1>5. PICK w : w = <<"list">> \o v
  OBVIOUS
<1>6. w \in Seq(Steps) /\ w # <<>> /\ Head(w) = "list" /\ Planned(k, w)
  BY <1>4, <1>5, PairPlanned
<1>7. w = Reload \o t
  <2>1. t \in Seq(Steps) /\ Reload \in Seq(Steps) /\ Reload = <<"list", "swap", "repoint">>
    BY ReloadPlanned DEF Reload
  <2>2. Len(w) = Len(t) + 3 /\ Len(Reload \o t) = Len(t) + 3 /\ Len(t) \in Nat
    BY <1>1, <1>2, <1>3, <1>4, <1>5, <2>1
  <2>3. ASSUME NEW i \in 1..Len(w)
        PROVE  w[i] = (Reload \o t)[i]
    BY <1>1, <1>2, <1>3, <1>4, <1>5, <2>1, <2>2
  <2>4. Reload \o t \in Seq(Steps)
    BY <2>1
  <2> QED BY <1>6, <2>2, <2>3, <2>4, SeqEqual
<1> QED BY <1>6, <1>7

(* Adding begins with a plan.                                              *)
LEMMA AddPlanned ==
    ASSUME NEW p, p = <<"create">> \o Reload \o <<"remember">>
    PROVE  p \in Seq(Steps) /\ p # <<>> /\ Head(p) = "create" /\ Planned("add", p)
<1>1. Len(p) = 5 /\ p[1] = "create" /\ p[2] = "list" /\ p[3] = "swap"
      /\ p[4] = "repoint" /\ p[5] = "remember"
  BY DEF Reload
<1>2. p \in Seq(Steps)
  <2>1. <<"create">> \in Seq(Steps)
    BY DEF Steps
  <2>2. <<"remember">> \in Seq(Steps)
    BY DEF Steps
  <2>3. Reload \in Seq(Steps)
    BY ReloadPlanned
  <2>4. <<"create">> \o Reload \in Seq(Steps)
    BY <2>1, <2>3, ConcatProperties
  <2> QED BY <2>2, <2>4, ConcatProperties
<1>3. Head(p) = p[1] /\ p # <<>>
  BY <1>1, <1>2
<1>4. p[Len(p)] \in Ends
  BY <1>1 DEF Ends
<1>5. \A i \in 1..(Len(p) - 1) : Follows("add", p[i], p[i + 1])
  <2>1. Follows("add", p[1], p[2])
    BY <1>1 DEF Follows
  <2>2. Follows("add", p[2], p[3])
    BY <1>1 DEF Follows
  <2>3. Follows("add", p[3], p[4])
    BY <1>1 DEF Follows
  <2>4. Follows("add", p[4], p[5])
    BY <1>1 DEF Follows
  <2> QED BY <1>1, <2>1, <2>2, <2>3, <2>4
<1> QED BY <1>1, <1>2, <1>3, <1>4, <1>5 DEF Planned

(* Removing begins with a plan.                                            *)
LEMMA RemovePlanned ==
    ASSUME NEW p, p = <<"delete">> \o Reload
    PROVE  p \in Seq(Steps) /\ p # <<>> /\ Head(p) = "delete" /\ Planned("remove", p)
<1>1. Len(p) = 4 /\ p[1] = "delete" /\ p[2] = "list" /\ p[3] = "swap"
      /\ p[4] = "repoint"
  BY DEF Reload
<1>2. p \in Seq(Steps)
  <2>1. <<"delete">> \in Seq(Steps)
    BY DEF Steps
  <2>2. Reload \in Seq(Steps)
    BY ReloadPlanned
  <2> QED BY <2>1, <2>2, ConcatProperties
<1>3. Head(p) = p[1] /\ p # <<>>
  BY <1>1, <1>2
<1>4. p[Len(p)] \in Ends
  BY <1>1 DEF Ends
<1>5. \A i \in 1..(Len(p) - 1) : Follows("remove", p[i], p[i + 1])
  <2>1. Follows("remove", p[1], p[2])
    BY <1>1 DEF Follows
  <2>2. Follows("remove", p[2], p[3])
    BY <1>1 DEF Follows
  <2>3. Follows("remove", p[3], p[4])
    BY <1>1 DEF Follows
  <2> QED BY <1>1, <2>1, <2>2, <2>3
<1> QED BY <1>1, <1>2, <1>3, <1>4, <1>5 DEF Planned

(* Reconnecting begins with a plan.                                        *)
LEMMA RegionPlanned ==
    ASSUME NEW p, p = <<"get", "put", "setting">> \o Reload
    PROVE  p \in Seq(Steps) /\ p # <<>> /\ Head(p) = "get" /\ Planned("region", p)
<1>1. Len(p) = 6 /\ p[1] = "get" /\ p[2] = "put" /\ p[3] = "setting"
      /\ p[4] = "list" /\ p[5] = "swap" /\ p[6] = "repoint"
  BY DEF Reload
<1>2. p \in Seq(Steps)
  <2>1. <<"get", "put", "setting">> \in Seq(Steps)
    BY DEF Steps
  <2>2. Reload \in Seq(Steps)
    BY ReloadPlanned
  <2> QED BY <2>1, <2>2, ConcatProperties
<1>3. Head(p) = p[1] /\ p # <<>>
  BY <1>1, <1>2
<1>4. p[Len(p)] \in Ends
  BY <1>1 DEF Ends
<1>5. \A i \in 1..(Len(p) - 1) : Follows("region", p[i], p[i + 1])
  <2>1. Follows("region", p[1], p[2])
    BY <1>1 DEF Follows
  <2>2. Follows("region", p[2], p[3])
    BY <1>1 DEF Follows
  <2>3. Follows("region", p[3], p[4])
    BY <1>1 DEF Follows
  <2>4. Follows("region", p[4], p[5])
    BY <1>1 DEF Follows
  <2>5. Follows("region", p[5], p[6])
    BY <1>1 DEF Follows
  <2> QED BY <1>1, <2>1, <2>2, <2>3, <2>4, <2>5
<1> QED BY <1>1, <1>2, <1>3, <1>4, <1>5 DEF Planned

(* A region form begins with a plan.                                       *)
LEMMA MarketPlanned ==
    ASSUME NEW k \in {"market", "setup"}, NEW p, p = <<"setting", "ensure", "get", "put">> \o Reload
    PROVE  p \in Seq(Steps) /\ p # <<>> /\ Head(p) = "setting" /\ Planned(k, p)
<1>1. Len(p) = 7 /\ p[1] = "setting" /\ p[2] = "ensure" /\ p[3] = "get"
      /\ p[4] = "put" /\ p[5] = "list" /\ p[6] = "swap" /\ p[7] = "repoint"
  BY DEF Reload
<1>2. p \in Seq(Steps)
  <2>1. <<"setting", "ensure", "get", "put">> \in Seq(Steps)
    BY DEF Steps
  <2>2. Reload \in Seq(Steps)
    BY ReloadPlanned
  <2> QED BY <2>1, <2>2, ConcatProperties
<1>3. Head(p) = p[1] /\ p # <<>>
  BY <1>1, <1>2
<1>4. p[Len(p)] \in Ends
  BY <1>1 DEF Ends
<1>5. \A i \in 1..(Len(p) - 1) : Follows(k, p[i], p[i + 1])
  <2>1. Follows(k, p[1], p[2])
    BY <1>1 DEF Follows
  <2>2. Follows(k, p[2], p[3])
    BY <1>1 DEF Follows
  <2>3. Follows(k, p[3], p[4])
    BY <1>1 DEF Follows
  <2>4. Follows(k, p[4], p[5])
    BY <1>1 DEF Follows
  <2>5. Follows(k, p[5], p[6])
    BY <1>1 DEF Follows
  <2>6. Follows(k, p[6], p[7])
    BY <1>1 DEF Follows
  <2> QED BY <1>1, <2>1, <2>2, <2>3, <2>4, <2>5, <2>6
<1> QED BY <1>1, <1>2, <1>3, <1>4, <1>5 DEF Planned

(* A sign-in without an account begins with a plan.                        *)
LEMMA FirstStartPlanned ==
    ASSUME NEW p, p = <<"create", "setting">> \o Reload \o <<"remember">>
    PROVE  p \in Seq(Steps) /\ p # <<>> /\ Head(p) = "create" /\ Planned("start", p)
<1>1. Len(p) = 6 /\ p[1] = "create" /\ p[2] = "setting" /\ p[3] = "list"
      /\ p[4] = "swap" /\ p[5] = "repoint" /\ p[6] = "remember"
  BY DEF Reload
<1>2. p \in Seq(Steps)
  <2>1. <<"create", "setting">> \in Seq(Steps)
    BY DEF Steps
  <2>2. <<"remember">> \in Seq(Steps)
    BY DEF Steps
  <2>3. Reload \in Seq(Steps)
    BY ReloadPlanned
  <2>4. <<"create", "setting">> \o Reload \in Seq(Steps)
    BY <2>1, <2>3, ConcatProperties
  <2> QED BY <2>2, <2>4, ConcatProperties
<1>3. Head(p) = p[1] /\ p # <<>>
  BY <1>1, <1>2
<1>4. p[Len(p)] \in Ends
  BY <1>1 DEF Ends
<1>5. \A i \in 1..(Len(p) - 1) : Follows("start", p[i], p[i + 1])
  <2>1. Follows("start", p[1], p[2])
    BY <1>1 DEF Follows
  <2>2. Follows("start", p[2], p[3])
    BY <1>1 DEF Follows
  <2>3. Follows("start", p[3], p[4])
    BY <1>1 DEF Follows
  <2>4. Follows("start", p[4], p[5])
    BY <1>1 DEF Follows
  <2>5. Follows("start", p[5], p[6])
    BY <1>1 DEF Follows
  <2> QED BY <1>1, <2>1, <2>2, <2>3, <2>4, <2>5
<1> QED BY <1>1, <1>2, <1>3, <1>4, <1>5 DEF Planned

(* A sign-in begins with a plan.                                           *)
LEMMA StartPlanned ==
    ASSUME NEW p, p = <<"get", "put", "remember">>
    PROVE  p \in Seq(Steps) /\ p # <<>> /\ Head(p) = "get" /\ Planned("start", p)
<1>1. Len(p) = 3 /\ p[1] = "get" /\ p[2] = "put" /\ p[3] = "remember"
  BY DEF Reload
<1>2. p \in Seq(Steps)
  BY DEF Steps
<1>3. Head(p) = p[1] /\ p # <<>>
  BY <1>1, <1>2
<1>4. p[Len(p)] \in Ends
  BY <1>1 DEF Ends
<1>5. \A i \in 1..(Len(p) - 1) : Follows("start", p[i], p[i + 1])
  <2>1. Follows("start", p[1], p[2])
    BY <1>1 DEF Follows
  <2>2. Follows("start", p[2], p[3])
    BY <1>1 DEF Follows
  <2> QED BY <1>1, <2>1, <2>2
<1> QED BY <1>1, <1>2, <1>3, <1>4, <1>5 DEF Planned

(* The wizard begins with a plan.                                          *)
LEMMA WizardPlanned ==
    ASSUME NEW p, p = <<"ensure", "remember">>
    PROVE  p \in Seq(Steps) /\ p # <<>> /\ Head(p) = "ensure" /\ Planned("wizard", p)
<1>1. Len(p) = 2 /\ p[1] = "ensure" /\ p[2] = "remember"
  BY DEF Reload
<1>2. p \in Seq(Steps)
  BY DEF Steps
<1>3. Head(p) = p[1] /\ p # <<>>
  BY <1>1, <1>2
<1>4. p[Len(p)] \in Ends
  BY <1>1 DEF Ends
<1>5. \A i \in 1..(Len(p) - 1) : Follows("wizard", p[i], p[i + 1])
  <2>1. Follows("wizard", p[1], p[2])
    BY <1>1 DEF Follows
  <2> QED BY <1>1, <2>1
<1> QED BY <1>1, <1>2, <1>3, <1>4, <1>5 DEF Planned

(* The end of a sign-in begins with a plan.                                *)
LEMMA CallbackPlanned ==
    ASSUME NEW p, p = <<"look", "take", "exchange", "get", "put">> \o Reload
    PROVE  p \in Seq(Steps) /\ p # <<>> /\ Head(p) = "look" /\ Planned("callback", p)
<1>1. Len(p) = 8 /\ p[1] = "look" /\ p[2] = "take" /\ p[3] = "exchange"
      /\ p[4] = "get" /\ p[5] = "put" /\ p[6] = "list" /\ p[7] = "swap" /\ p[8] = "repoint"
  BY DEF Reload
<1>2. p \in Seq(Steps)
  <2>1. <<"look", "take", "exchange", "get", "put">> \in Seq(Steps)
    BY DEF Steps
  <2>2. Reload \in Seq(Steps)
    BY ReloadPlanned
  <2> QED BY <2>1, <2>2, ConcatProperties
<1>3. Head(p) = p[1] /\ p # <<>>
  BY <1>1, <1>2
<1>4. p[Len(p)] \in Ends
  BY <1>1 DEF Ends
<1>5. \A i \in 1..(Len(p) - 1) : Follows("callback", p[i], p[i + 1])
  <2>1. Follows("callback", p[1], p[2])
    BY <1>1 DEF Follows
  <2>2. Follows("callback", p[2], p[3])
    BY <1>1 DEF Follows
  <2>3. Follows("callback", p[3], p[4])
    BY <1>1 DEF Follows
  <2>4. Follows("callback", p[4], p[5])
    BY <1>1 DEF Follows
  <2>5. Follows("callback", p[5], p[6])
    BY <1>1 DEF Follows
  <2>6. Follows("callback", p[6], p[7])
    BY <1>1 DEF Follows
  <2>7. Follows("callback", p[7], p[8])
    BY <1>1 DEF Follows
  <2> QED BY <1>1, <2>1, <2>2, <2>3, <2>4, <2>5, <2>6, <2>7
<1> QED BY <1>1, <1>2, <1>3, <1>4, <1>5 DEF Planned

(* A first account is made and loaded before the plan goes on.             *)
LEMMA CreatePlanned ==
    ASSUME NEW k, NEW t \in Seq(Steps), t # <<>>, Planned(k, t), Follows(k, "repoint", Head(t)),
           Follows(k, "create", "list"), NEW u, u = <<"create">> \o Reload \o t
    PROVE  u \in Seq(Steps) /\ u # <<>> /\ Head(u) = "create" /\ Planned(k, u)
<1>1. Reload \o t \in Seq(Steps) /\ Reload \o t # <<>> /\ Head(Reload \o t) = "list"
      /\ Planned(k, Reload \o t)
  BY ReloadThenPlanned
<1>2. "create" \in Steps /\ Reload \in Seq(Steps)
  BY ReloadPlanned DEF Steps
<1>3. u = <<"create">> \o (Reload \o t)
  <2>1. <<"create">> \in Seq(Steps)
    BY <1>2
  <2> QED BY <1>2, <2>1, ConcatAssociative
<1> QED BY <1>1, <1>2, <1>3, PairPlanned

-----------------------------------------------------------------------------
(* What one request does to the others *)

(* A request that has not begun keeps every invariant of a request, and    *)
(* holds no credentials.                                                   *)
LEMMA ClosedFits ==
    ASSUME Data
    PROVE  /\ Closed \in Local /\ Closed.todo = <<>> /\ Fits(Closed)
           /\ \A c : ~Carries(Closed, c)
<1>1. Nothing \in Maps(0..Legacy) /\ DOMAIN Nothing = {}
  BY EmptyMap
<1>2. 0 \in 0..NumAccounts /\ 0 \in 0..NumLinks
  BY AccountsAssumption
<1>3. Closed \in Local
  BY <1>1, <1>2 DEF Closed, Local
<1>4. Closed.todo = <<>> /\ Closed.acct = 0 /\ Closed.seen = NoRow /\ Closed.list = Nothing
  BY DEF Closed
<1>5. NoRow.creds = 0
  BY DEF NoRow
<1>6. Fits(Closed)
  BY <1>1, <1>4, <1>5 DEF Fits, Planned, Given
<1> QED BY <1>3, <1>4, <1>6 DEF Carries

(* What is known of a request stays true while accounts, links and spent   *)
(* codes only become more.                                                 *)
LEMMA FitsGrow ==
    ASSUME Data, Data', Grows, NEW l \in Local, Fits(l)
    PROVE  Fits(l)'
<1>1. Known \subseteq Known' /\ Given \subseteq Given'
  BY DEF Grows, Given
<1>2. /\ (l.todo = <<>> => l = Closed)' /\ Planned(l.op, l.todo)'
      /\ (l.acct \in {0} \cup Known /\ l.seen.creds \in Given)'
      /\ (DOMAIN l.list \subseteq Known /\ \A a \in DOMAIN l.list : l.list[a] \in Given)'
  BY <1>1 DEF Fits, Planned
<1>3. ASSUME l.todo # <<>>
      PROVE  /\ l.op # "none"
             /\ l.op \in {"add", "region", "market", "setup", "start"} => l.market \in Markets
     BY <1>3 DEF Fits
<1>4. ASSUME l.todo # <<>>, l.op = "callback"
      PROVE  /\ l.acct # 0 /\ l.link \in 0..Len(links')
             /\ l.link # 0 => links'[l.link] \in {l.acct, 0}
             /\ Now(l) \notin {"look", "take"} => l.link # 0
             /\ Now(l) # "look" => l.market \in Markets
             /\ Now(l) \in {"get", "put"} => l.link \in spent'
  <2>1. /\ l.acct # 0 /\ l.link \in 0..Len(links)
        /\ l.link # 0 => links[l.link] \in {l.acct, 0}
        /\ Now(l) \notin {"look", "take"} => l.link # 0
        /\ Now(l) # "look" => l.market \in Markets
        /\ Now(l) \in {"get", "put"} => l.link \in spent
    BY <1>4 DEF Fits
  <2>2. Len(links) \in Nat /\ Len(links') \in Nat
    BY DEF Data
  <2>3. l.link # 0 => links'[l.link] = links[l.link]
    BY <2>1, <2>2 DEF Grows
  <2>4. l.link \in 0..Len(links')
    BY <2>1, <2>2 DEF Grows
  <2> QED BY <2>1, <2>3, <2>4 DEF Grows
<1> QED BY <1>2, <1>3, <1>4 DEF Fits, Now

(* A step of one request, after which it fits, leaves every request        *)
(* fitting.                                                                *)
LEMMA AllFitMove ==
    ASSUME Data, Data', req \in [Requests -> Local], Grows, AllFit, NEW r \in Requests,
           NEW m \in Local, req' = [req EXCEPT ![r] = m], Fits(m)'
    PROVE  AllFit' /\ req' \in [Requests -> Local]
<1>1. ASSUME NEW q \in Requests PROVE Fits(req[q])'
  <2>1. CASE q = r
    <3>1. req'[q] = m
      BY <2>1
    <3> QED BY <3>1
  <2>2. CASE q # r
    <3>1. PICK l \in Local : l = req[q]
      OBVIOUS
    <3>2. Fits(l) /\ req'[q] = l
      BY <2>2, <3>1 DEF AllFit
    <3>3. Fits(l)'
      BY <3>2, FitsGrow
    <3> QED BY <3>2, <3>3
  <2> QED BY <2>1, <2>2
<1> QED BY <1>1 DEF AllFit

(* The credentials that a request carries are held by its account before   *)
(* it goes on, and no row is of a holder whose credentials were removed.   *)
LEMMA PairedMove ==
    ASSUME Data, Data', req \in [Requests -> Local], Grows, Paired, NEW r \in Requests,
           NEW m \in Local, req' = [req EXCEPT ![r] = m], spent' = spent,
           \A c \in spent : Carries(m, c) => Holder(m.acct, c),
           \A a \in DOMAIN rows' : rows'[a].creds \in spent => Holder(a, rows'[a].creds),
           \A c \in spent, a \in 0..NumAccounts :
              Holder(a, c) /\ c \in removed' => a \notin DOMAIN rows'
    PROVE  Paired'
<1>1. ASSUME NEW c \in spent, NEW a, Holder(a, c)'
      PROVE  Holder(a, c)
  <2>1. CASE a \in DOMAIN rows' /\ rows'[a].creds = c
    BY <2>1
  <2>2. CASE \E q \in Requests : req'[q].acct = a /\ Carries(req'[q], c)
    <3>1. PICK q \in Requests : req'[q].acct = a /\ Carries(req'[q], c)
      BY <2>2
    <3>2. CASE q = r
      <4>1. req'[q] = m
        BY <3>2
      <4> QED BY <3>1, <4>1
    <3>3. CASE q # r
      <4>1. req'[q] = req[q]
        BY <3>3
      <4> QED BY <3>1, <4>1 DEF Holder
    <3> QED BY <3>2, <3>3
  <2> QED BY <1>1, <2>1, <2>2 DEF Holder, Carries, Now
<1>2. ASSUME NEW c \in spent', NEW a \in 0..NumAccounts, Holder(a, c)'
      PROVE  /\ links'[c] \in {a, 0}
             /\ c \in removed' => a \notin DOMAIN rows'
             /\ \A b \in 0..NumAccounts : Holder(b, c)' => a = b
  <2>1. Holder(a, c) /\ c \in spent
    BY <1>1, <1>2
  <2>2. links'[c] = links[c]
    BY <2>1 DEF Grows, Data
  <2>3. \A b \in 0..NumAccounts : Holder(b, c)' => a = b
    <3> SUFFICES ASSUME NEW b \in 0..NumAccounts, Holder(b, c)' PROVE a = b
      OBVIOUS
    <3>1. Holder(b, c)
      BY <1>1, <2>1
    <3> QED BY <2>1, <3>1 DEF Paired
  <2> QED BY <2>1, <2>2, <2>3 DEF Paired
<1> QED BY <1>2 DEF Paired

(* A step of the one request in progress keeps Right when the request      *)
(* reports, after it, what Right asks of it.                               *)
LEMMA RightMove ==
    ASSUME Types, AllFit, Right, NEW r \in Requests, req[r].todo # <<>>,
           NEW m \in Local, m.todo = <<>> => m = Closed, req' = [req EXCEPT ![r] = m],
           disturbed' = disturbed,
           ~disturbed => RowsSigned' /\ OneUnasked' /\ Reports(m)'
    PROVE  Right'
<1> SUFFICES ASSUME ~disturbed PROVE Right'
  BY DEF Right
<1>1. req[r] # Closed
  BY DEF Closed
<1>2. \A q \in Requests \ {r} : req[q] = Closed
  BY <1>1 DEF Right
<1>3. \A q \in Requests : req'[q] = IF q = r THEN m ELSE Closed
  BY <1>2 DEF Types
<1>4. IdleNow' => m = Closed
  BY <1>3 DEF IdleNow
<1>5. RowsSigned' /\ OneUnasked' /\ Reports(m)'
  OBVIOUS
<1>6. \A q \in Requests : req'[q] # Closed => q = r /\ req'[q] = m
  BY <1>3
<1>7. ASSUME NEW q \in Requests, req'[q] # Closed PROVE Reports(req[q])'
  <2>1. req'[q] = m
    BY <1>6, <1>7
  <2> QED BY <1>5, <2>1
<1>8. IdleNow' => Reports(Closed)'
  BY <1>4, <1>5
<1> QED BY <1>5, <1>6, <1>7, <1>8 DEF Right

(* A request that begins keeps Right: beside another one the history is    *)
(* disturbed, alone it reports on what was settled.                        *)
LEMMA RightBegin ==
    ASSUME Types, AllFit, Right, NEW r \in Requests, req[r] = Closed,
           NEW m \in Local, req' = [req EXCEPT ![r] = m],
           disturbed' = (disturbed \/ ~IdleNow),
           UNCHANGED <<rows, clients, audible, signed, added>>,
           ~disturbed /\ IdleNow => Reports(m)
    PROVE  Right'
<1> SUFFICES ASSUME ~disturbed' PROVE Right'
  BY DEF Right
<1>1. ~disturbed /\ IdleNow /\ Reports(m)
  OBVIOUS
<1>2. \A q \in Requests : req'[q] = IF q = r THEN m ELSE Closed
  BY <1>1 DEF Types, IdleNow
<1>3. RowsSigned' /\ OneUnasked' /\ Reports(m)' /\ Reports(Closed)'
  <2>1. RowsSigned /\ OneUnasked /\ Reports(Closed)
    BY <1>1 DEF Right
  <2> QED BY <1>1, <2>1 DEF RowsSigned, OneUnasked, Reports, Creds, Pointed, Repoint, Soon, Now
<1>4. \A q \in Requests : req'[q] # Closed => q = r /\ req'[q] = m
  BY <1>2
<1>5. ASSUME NEW q \in Requests, req'[q] # Closed PROVE Reports(req[q])'
  <2>1. req'[q] = m
    BY <1>4, <1>5
  <2> QED BY <1>3, <2>1
<1> QED BY <1>3, <1>4, <1>5 DEF Right

(* The locals that a request goes on with.                                 *)
LEMMA NextLocal ==
    ASSUME NEW r \in Requests, NEW n \in Local, NEW t \in Seq(Steps), Then(r, t, n)
    PROVE  \E m \in Local :
              /\ req' = [req EXCEPT ![r] = m]
              /\ t = <<>> => m = Closed /\ m.todo = <<>>
              /\ t # <<>> => /\ m.todo = t /\ m.op = n.op /\ m.acct = n.acct
                             /\ m.market = n.market /\ m.link = n.link /\ m.code = n.code
                             /\ m.seen = n.seen /\ m.list = n.list
<1>1. CASE t = <<>>
  <2>1. Nothing \in Maps(0..Legacy)
    BY EmptyMap
  <2>2. Closed \in Local /\ Closed.todo = <<>>
    BY <2>1, AccountsAssumption DEF Closed, Local
  <2>3. req' = [req EXCEPT ![r] = Closed]
    BY <1>1 DEF Then
  <2> QED BY <1>1, <2>2, <2>3
<1>2. CASE t # <<>>
  <2>1. PICK m : m = [n EXCEPT !.todo = t]
    OBVIOUS
  <2>2. m \in Local /\ m.todo = t /\ m.op = n.op /\ m.acct = n.acct
        /\ m.market = n.market /\ m.link = n.link /\ m.code = n.code
        /\ m.seen = n.seen /\ m.list = n.list
    BY <2>1 DEF Local
  <2>3. req' = [req EXCEPT ![r] = m]
    BY <1>2, <2>1 DEF Then
  <2> QED BY <1>2, <2>2, <2>3
<1> QED BY <1>1, <1>2

(* What is known of a request at a step.                                   *)
LEMMA StepFacts ==
    ASSUME Inv, NEW r \in Requests, NEW l \in Local, l = req[r], l.todo # <<>>
    PROVE  /\ Fits(l) /\ l.op \in Ops /\ req[r].todo # <<>>
           /\ Tail(l.todo) \in Seq(Steps) /\ Planned(l.op, Tail(l.todo))
           /\ Tail(l.todo) = <<>> => Now(l) \in Ends
           /\ Tail(l.todo) # <<>> => Follows(l.op, Now(l), Head(Tail(l.todo)))
           /\ ~disturbed => /\ RowsSigned /\ OneUnasked /\ Reports(l)
                            /\ \A q \in Requests \ {r} : req[q] = Closed
<1>1. Fits(l)
  BY DEF Inv, AllFit
<1>2. l.todo \in Seq(Steps) /\ Planned(l.op, l.todo) /\ l.op \in Ops
  BY <1>1 DEF Fits, Local
<1>3. l # Closed
  BY DEF Closed
<1>4. ~disturbed => /\ RowsSigned /\ OneUnasked /\ Reports(l)
                    /\ \A q \in Requests \ {r} : req[q] = Closed
  BY <1>3 DEF Inv, Right
<1> QED BY <1>1, <1>2, <1>4, TailPlanned DEF Now

(* A step that reads, or writes the setting.                               *)
LEMMA Quiet ==
    ASSUME Inv, NEW r \in Requests, req[r].todo # <<>>,
           NEW m \in Local, m.todo = <<>> => m = Closed, req' = [req EXCEPT ![r] = m],
           UNCHANGED <<rows, file, clients, audible, pending, spent, links, added,
                       removed, signed, disturbed, budget>>,
           setting' \in Markets, Fits(m),
           \A c \in spent : Carries(m, c) => Holder(m.acct, c),
           ~disturbed => Reports(m)
    PROVE  Inv'
<1>1. Data /\ req \in [Requests -> Local] /\ Created /\ AllFit /\ Paired /\ Right
  BY DEF Inv, Types
<1>2. Data'
  BY <1>1 DEF Data, Known, Born
<1>3. Grows
  BY <1>1 DEF Grows, Known, Data
<1>4. Fits(m)'
  BY <1>1, <1>2, <1>3, FitsGrow
<1>5. AllFit' /\ req' \in [Requests -> Local]
  BY <1>1, <1>2, <1>3, <1>4, AllFitMove
<1>6. Paired'
  <2>1. \A a \in DOMAIN rows' : rows'[a].creds \in spent => Holder(a, rows'[a].creds)
    BY DEF Holder
  <2>2. \A c \in spent, a \in 0..NumAccounts :
           Holder(a, c) /\ c \in removed' => a \notin DOMAIN rows'
    BY <1>1 DEF Paired
  <2> QED BY <1>1, <1>2, <1>3, <2>1, <2>2, PairedMove
<1>7. Right'
  <2>1. ASSUME ~disturbed PROVE RowsSigned' /\ OneUnasked' /\ Reports(m)'
    <3>1. RowsSigned /\ OneUnasked
      BY <1>1, <2>1 DEF Right
    <3> QED BY <2>1, <3>1 DEF RowsSigned, OneUnasked, Reports, Creds, Pointed, Repoint, Soon, Now
  <2> QED BY <1>1, <2>1, RightMove DEF Types
<1>8. Created'
  BY <1>1 DEF Created, Known, Given
<1> QED BY <1>2, <1>5, <1>6, <1>7, <1>8 DEF Inv, Types

(* A request that ends early leaves nothing half done: it had not yet      *)
(* written what has to be loaded.                                          *)
LEMMA EndQuiet ==
    ASSUME Inv, NEW r \in Requests, NEW l \in Local, l = req[r], l.todo # <<>>, End(r),
           ~disturbed => clients = Creds /\ Pointed,
           UNCHANGED <<rows, setting, file, clients, audible, pending, spent, links, added,
                       removed, signed, disturbed, budget>>
    PROVE  Inv'
<1>1. Data
  BY DEF Inv, Types
<1>2. <<>> \in Seq(Steps) /\ Me(r) = l
  BY DEF Me
<1>3. PICK m \in Local : req' = [req EXCEPT ![r] = m] /\ m = Closed /\ m.todo = <<>>
  BY <1>2, NextLocal DEF End
<1>4. Fits(m) /\ \A c : ~Carries(m, c)
  BY <1>1, <1>3, ClosedFits
<1>5. ~disturbed => Reports(m)
  BY <1>3 DEF Reports
<1>6. setting' \in Markets
  BY <1>1 DEF Data
<1> QED BY <1>3, <1>4, <1>5, <1>6, Quiet

(* SetSetting.                                                             *)
LEMMA SetSettingKeeps ==
    ASSUME Inv, NEW r \in Requests, SetSetting(r)
    PROVE  Inv'
<1>1. PICK l \in Local : l = req[r] /\ l.todo # <<>> /\ Now(l) = "setting"
  BY DEF Inv, Types, SetSetting, At, Me, Now
<1>2. PICK t : t = Tail(l.todo)
  OBVIOUS
<1>3. /\ Fits(l) /\ l.op \in Ops /\ t \in Seq(Steps) /\ Planned(l.op, t)
      /\ t # <<>> /\ Follows(l.op, "setting", Head(t))
      /\ ~disturbed => Reports(l)
  BY <1>1, <1>2, StepFacts DEF Ends
<1>4. Then(r, t, l)
  BY <1>1, <1>2 DEF SetSetting, Done, Step, Tail1, Me
<1>5. PICK m \in Local :
         /\ req' = [req EXCEPT ![r] = m] /\ m.todo = t /\ m.op = l.op /\ m.acct = l.acct
         /\ m.market = l.market /\ m.link = l.link /\ m.seen = l.seen /\ m.list = l.list
  BY <1>3, <1>4, NextLocal
<1>6. Now(m) \in {"list", "ensure"} /\ l.op \in {"region", "start", "market", "setup"}
      /\ (Now(m) = "list" \/ l.op \in {"market", "setup"})
  BY <1>3, <1>5 DEF Follows, Now
<1>7. l.market \in Markets
  BY <1>1, <1>3, <1>6 DEF Fits
<1>8. setting' \in Markets
  BY <1>1, <1>7 DEF SetSetting, Inv, Types, Data, Me
<1>9. Fits(m)
  BY <1>1, <1>3, <1>5, <1>6, <1>7 DEF Fits
<1>10. \A c : ~Carries(m, c)
  BY <1>5, <1>6 DEF Carries
<1>11. ~disturbed => Reports(m)
  BY <1>1, <1>3, <1>5, <1>6 DEF Reports, Soon
<1> QED BY <1>1, <1>3, <1>5, <1>8, <1>9, <1>10, <1>11, Quiet DEF SetSetting

(* ListAccounts.                                                           *)
LEMMA ListAccountsKeeps ==
    ASSUME Inv, NEW r \in Requests, ListAccounts(r)
    PROVE  Inv'
<1>1. PICK l \in Local : l = req[r] /\ l.todo # <<>> /\ Now(l) = "list"
  BY DEF Inv, Types, ListAccounts, At, Me, Now
<1>2. PICK t : t = Tail(l.todo)
  OBVIOUS
<1>3. /\ Fits(l) /\ l.op \in Ops /\ t \in Seq(Steps) /\ Planned(l.op, t)
      /\ t # <<>> /\ Follows(l.op, "list", Head(t))
      /\ ~disturbed => Reports(l)
  BY <1>1, <1>2, StepFacts DEF Ends
<1>4. PICK n : n = [l EXCEPT !.list = Creds]
  OBVIOUS
<1>5. Creds \in Maps(0..Legacy) /\ DOMAIN Creds = DOMAIN rows
      /\ \A a \in DOMAIN Creds : Creds[a] \in Given
  <2>1. rows \in Maps(Row) /\ \A a \in DOMAIN rows : rows[a].creds \in Given
    BY DEF Inv, Types, Data, Created
  <2>2. DOMAIN rows \subseteq Ids /\ \A a \in DOMAIN rows : rows[a] \in Row
    BY <2>1, MapIs
  <2>3. Creds \in [DOMAIN rows -> 0..Legacy]
    BY <2>2 DEF Creds, Row
  <2>4. Creds \in Maps(0..Legacy)
    BY <2>2, <2>3, IsMap
  <2> QED BY <2>1, <2>4 DEF Creds
<1>6. n \in Local /\ n.todo = l.todo /\ n.op = l.op /\ n.acct = l.acct
      /\ n.market = l.market /\ n.link = l.link /\ n.seen = l.seen /\ n.list = Creds
  BY <1>4, <1>5 DEF Local
<1>7. Then(r, t, n)
  BY <1>1, <1>2, <1>4 DEF ListAccounts, Step, Tail1, Me, Creds
<1>8. PICK m \in Local :
         /\ req' = [req EXCEPT ![r] = m] /\ m.todo = t /\ m.op = l.op /\ m.acct = l.acct
         /\ m.market = l.market /\ m.link = l.link /\ m.seen = l.seen /\ m.list = Creds
  BY <1>3, <1>6, <1>7, NextLocal
<1>9. Now(m) = "swap"
  BY <1>3, <1>8 DEF Follows, Now
<1>10. DOMAIN rows \subseteq Known /\ setting \in Markets
  BY DEF Inv, Types, Data, Created
<1>11. Fits(m)
  BY <1>1, <1>3, <1>5, <1>8, <1>9, <1>10 DEF Fits
<1>12. \A c : ~Carries(m, c)
  BY <1>8, <1>9 DEF Carries
<1>13. Reports(m)
  BY <1>3, <1>8, <1>9 DEF Reports
<1> QED BY <1>1, <1>3, <1>8, <1>10, <1>11, <1>12, <1>13, Quiet DEF ListAccounts

(* LookRegion.                                                             *)
LEMMA LookRegionKeeps ==
    ASSUME Inv, NEW r \in Requests, LookRegion(r)
    PROVE  Inv'
<1>1. PICK l \in Local : l = req[r] /\ l.todo # <<>> /\ Now(l) = "look"
  BY DEF Inv, Types, LookRegion, At, Me, Now
<1>2. PICK t : t = Tail(l.todo)
  OBVIOUS
<1>3. /\ Fits(l) /\ l.op \in Ops /\ t \in Seq(Steps) /\ Planned(l.op, t)
      /\ t # <<>> /\ Follows(l.op, "look", Head(t))
      /\ ~disturbed => Reports(l)
  BY <1>1, <1>2, StepFacts DEF Ends
<1>4. PICK us \in Markets :
         Then(r, t, [l EXCEPT !.market = IF l.acct \in DOMAIN rows THEN rows[l.acct].market
                                         ELSE us])
  BY <1>1, <1>2 DEF LookRegion, Step, Tail1, Me
<1>5. PICK x : x = IF l.acct \in DOMAIN rows THEN rows[l.acct].market ELSE us
  OBVIOUS
<1>6. x \in Markets
  <2>1. rows \in Maps(Row)
    BY DEF Inv, Types, Data
  <2>2. \A a \in DOMAIN rows : rows[a] \in Row
    BY <2>1, MapIs
  <2> QED BY <1>5, <2>2 DEF Row
<1>7. PICK n : n = [l EXCEPT !.market = x]
  OBVIOUS
<1>8. n \in Local /\ n.todo = l.todo /\ n.op = l.op /\ n.acct = l.acct
      /\ n.market = x /\ n.link = l.link /\ n.seen = l.seen /\ n.list = l.list
  BY <1>6, <1>7 DEF Local
<1>9. Then(r, t, n)
  BY <1>4, <1>5, <1>7
<1>10. PICK m \in Local :
         /\ req' = [req EXCEPT ![r] = m] /\ m.todo = t /\ m.op = l.op /\ m.acct = l.acct
         /\ m.market = x /\ m.link = l.link /\ m.seen = l.seen /\ m.list = l.list
  BY <1>3, <1>8, <1>9, NextLocal
<1>11. Now(m) = "take" /\ l.op = "callback"
  BY <1>3, <1>10 DEF Follows, Now
<1>12. Fits(m)
  BY <1>1, <1>3, <1>6, <1>10, <1>11 DEF Fits
<1>13. \A c : ~Carries(m, c)
  BY <1>10, <1>11 DEF Carries
<1>14. ~disturbed => Reports(m)
  BY <1>1, <1>3, <1>10, <1>11 DEF Reports, Soon
<1>15. setting' \in Markets
  BY DEF LookRegion, Inv, Types, Data
<1> QED BY <1>1, <1>3, <1>10, <1>12, <1>13, <1>14, <1>15, Quiet DEF LookRegion

(* ensurePrimaryAccount.                                                   *)
LEMMA EnsureKeeps ==
    ASSUME Inv, NEW r \in Requests, ensurePrimaryAccount(r)
    PROVE  Inv'
<1>1. PICK l \in Local : l = req[r] /\ l.todo # <<>> /\ Now(l) = "ensure"
  BY DEF Inv, Types, ensurePrimaryAccount, At, Me, Now
<1>2. PICK t : t = Tail(l.todo)
  OBVIOUS
<1>3. /\ Fits(l) /\ l.op \in Ops /\ t \in Seq(Steps) /\ Planned(l.op, t)
      /\ t # <<>> /\ Follows(l.op, "ensure", Head(t))
      /\ ~disturbed => Reports(l)
  BY <1>1, <1>2, StepFacts DEF Ends
<1>4. /\ l.op \in {"market", "setup", "wizard"} /\ Head(t) \in {"get", "remember"}
      /\ Follows(l.op, "repoint", Head(t)) /\ Follows(l.op, "create", "list")
  BY <1>3 DEF Follows
<1>5. setting' \in Markets /\ Data /\ DOMAIN clients \subseteq Known
  BY DEF ensurePrimaryAccount, Inv, Types, Data, Created
<1>6. CASE PrimaryAccountID # 0
  <2>1. PICK a : a = PrimaryAccountID
    OBVIOUS
  <2>2. a \in 0..NumAccounts /\ a \in Known
    BY <1>5, <1>6, <2>1, PrimaryFact
  <2>3. PICK n : n = [l EXCEPT !.acct = a]
    OBVIOUS
  <2>4. n \in Local /\ n.todo = l.todo /\ n.op = l.op /\ n.acct = a
        /\ n.market = l.market /\ n.link = l.link /\ n.seen = l.seen /\ n.list = l.list
    BY <2>2, <2>3 DEF Local
  <2>5. Then(r, t, n)
    BY <1>1, <1>2, <1>6, <2>1, <2>3 DEF ensurePrimaryAccount, Step, Tail1, Me
  <2>6. PICK m \in Local :
          /\ req' = [req EXCEPT ![r] = m] /\ m.todo = t /\ m.op = l.op /\ m.acct = a
          /\ m.market = l.market /\ m.link = l.link /\ m.seen = l.seen /\ m.list = l.list
    BY <1>3, <2>4, <2>5, NextLocal
  <2>7. Now(m) \in {"get", "remember"}
    BY <1>4, <2>6 DEF Now
  <2>8. Fits(m)
    BY <1>1, <1>3, <1>4, <2>2, <2>6, <2>7 DEF Fits
  <2>9. \A c : ~Carries(m, c)
    BY <1>4, <2>6, <2>7 DEF Carries
  <2>10. ~disturbed => Reports(m)
    BY <1>1, <1>3, <1>4, <2>6, <2>7 DEF Reports, Soon
  <2> QED BY <1>1, <1>3, <1>5, <2>6, <2>8, <2>9, <2>10, Quiet DEF ensurePrimaryAccount
<1>7. CASE PrimaryAccountID = 0
  <2>1. PICK u : u = <<"create">> \o Reload \o t
    OBVIOUS
  <2>2. u \in Seq(Steps) /\ u # <<>> /\ Head(u) = "create" /\ Planned(l.op, u)
    BY <1>3, <1>4, <2>1, CreatePlanned
  <2>3. Then(r, u, l)
    BY <1>1, <1>2, <1>7, <2>1 DEF ensurePrimaryAccount, Tail1, Me
  <2>4. PICK m \in Local :
          /\ req' = [req EXCEPT ![r] = m] /\ m.todo = u /\ m.op = l.op /\ m.acct = l.acct
          /\ m.market = l.market /\ m.link = l.link /\ m.seen = l.seen /\ m.list = l.list
    BY <2>2, <2>3, NextLocal
  <2>5. Now(m) = "create"
    BY <2>2, <2>4 DEF Now
  <2>6. Fits(m)
    BY <1>1, <1>3, <1>4, <2>2, <2>4, <2>5 DEF Fits
  <2>7. \A c : ~Carries(m, c)
    BY <1>4, <2>4, <2>5 DEF Carries
  <2>8. DOMAIN clients = {}
    BY <1>5, <1>7, PrimaryFact
  <2>9. ~disturbed => DOMAIN rows = {}
    <3>1. ~disturbed => clients = Creds
      BY <1>1, <1>3, <1>4 DEF Reports, Soon
    <3> QED BY <2>8, <3>1 DEF Creds
  <2>10. ~disturbed => Reports(m)
    BY <1>1, <1>3, <1>4, <2>2, <2>4, <2>5, <2>9 DEF Reports, Soon
  <2> QED BY <1>1, <1>3, <1>5, <2>2, <2>4, <2>6, <2>7, <2>10, Quiet DEF ensurePrimaryAccount
<1> QED BY <1>6, <1>7

(* GetAudibleAccount.                                                      *)
LEMMA GetAudibleAccountKeeps ==
    ASSUME Inv, NEW r \in Requests, GetAudibleAccount(r)
    PROVE  Inv'
<1>1. PICK l \in Local : l = req[r] /\ l.todo # <<>> /\ Now(l) = "get"
  BY DEF Inv, Types, GetAudibleAccount, At, Me, Now
<1>2. PICK t : t = Tail(l.todo)
  OBVIOUS
<1>3. /\ Fits(l) /\ l.op \in Ops /\ t \in Seq(Steps) /\ Planned(l.op, t)
      /\ t # <<>> /\ Follows(l.op, "get", Head(t))
      /\ ~disturbed => Reports(l)
  BY <1>1, <1>2, StepFacts DEF Ends
<1>4. Head(t) = "put"
  BY <1>3 DEF Follows
<1>5. setting' \in Markets /\ Data
  BY DEF GetAudibleAccount, Inv, Types, Data
<1>6. ~disturbed => clients = Creds /\ Pointed
  BY <1>1, <1>3 DEF Reports, Soon
<1>7. CASE l.acct \in DOMAIN rows
  <2>1. PICK x : x = rows[l.acct]
    OBVIOUS
  <2>2. x \in Row /\ x.creds \in Given
    <3>1. rows \in Maps(Row)
      BY <1>5 DEF Data
    <3>2. \A a \in DOMAIN rows : rows[a] \in Row
      BY <3>1, MapIs
    <3> QED BY <1>7, <2>1, <3>2 DEF Inv, Created
  <2>3. PICK n : n = [l EXCEPT !.seen = x]
    OBVIOUS
  <2>4. n \in Local /\ n.todo = l.todo /\ n.op = l.op /\ n.acct = l.acct
        /\ n.market = l.market /\ n.link = l.link /\ n.seen = x /\ n.list = l.list
    BY <2>2, <2>3 DEF Local
  <2>5. Then(r, t, n)
    BY <1>1, <1>2, <1>7, <2>1, <2>3 DEF GetAudibleAccount, Step, Tail1, Me
  <2>6. PICK m \in Local :
          /\ req' = [req EXCEPT ![r] = m] /\ m.todo = t /\ m.op = l.op /\ m.acct = l.acct
          /\ m.market = l.market /\ m.link = l.link /\ m.seen = x /\ m.list = l.list
    BY <1>3, <2>4, <2>5, NextLocal
  <2>7. Now(m) = "put"
    BY <1>4, <2>6 DEF Now
  <2>9. Fits(m)
    BY <1>1, <1>3, <2>2, <2>6, <2>7 DEF Fits
  <2>10. ASSUME NEW c \in spent, Carries(m, c) PROVE Holder(m.acct, c)
    <3>1. CASE l.op = "callback"
      <4>1. l.link = c
        BY <2>6, <2>7, <2>10, <3>1 DEF Carries
      <4>2. Carries(l, c)
        BY <1>1, <3>1, <4>1 DEF Carries
      <4> QED BY <1>1, <2>6, <4>2 DEF Holder
    <3>2. CASE l.op # "callback"
      <4>1. x.creds = c
        BY <2>6, <2>7, <2>10, <3>2 DEF Carries
      <4> QED BY <1>7, <2>1, <2>6, <4>1 DEF Holder
    <3> QED BY <3>1, <3>2
  <2>11. ~disturbed => Reports(m)
    BY <1>3, <1>6, <1>7, <2>1, <2>6, <2>7 DEF Reports
  <2> QED BY <1>1, <1>3, <1>5, <2>6, <2>9, <2>10, <2>11, Quiet DEF GetAudibleAccount
<1>8. CASE l.acct \notin DOMAIN rows /\ l.op = "start"
  <2>1. PICK u : u = Tail(t)
    OBVIOUS
  <2>2. u \in Seq(Steps) /\ Planned("start", u) /\ u # <<>> /\ Follows("start", "put", Head(u))
    BY <1>3, <1>4, <1>8, <2>1, TailPlanned DEF Ends
  <2>3. Head(u) = "remember"
    BY <2>2 DEF Follows
  <2>4. Then(r, u, l)
    BY <1>1, <1>2, <1>8, <2>1 DEF GetAudibleAccount, Tail1, Me
  <2>5. PICK m \in Local :
          /\ req' = [req EXCEPT ![r] = m] /\ m.todo = u /\ m.op = l.op /\ m.acct = l.acct
          /\ m.market = l.market /\ m.link = l.link /\ m.seen = l.seen /\ m.list = l.list
    BY <2>2, <2>4, NextLocal
  <2>6. Now(m) = "remember"
    BY <2>3, <2>5 DEF Now
  <2>7. Fits(m)
    BY <1>1, <1>3, <1>8, <2>2, <2>5, <2>6 DEF Fits
  <2>8. \A c : ~Carries(m, c)
    BY <1>8, <2>5, <2>6 DEF Carries
  <2>9. ~disturbed => Reports(m)
    BY <1>6, <2>2, <2>5, <2>6 DEF Reports
  <2> QED BY <1>1, <1>3, <1>5, <2>2, <2>5, <2>7, <2>8, <2>9, Quiet DEF GetAudibleAccount
<1>9. CASE l.acct \notin DOMAIN rows /\ l.op # "start"
  <2>1. End(r)
    BY <1>1, <1>9 DEF GetAudibleAccount, End, Me
  <2> QED BY <1>1, <1>6, <2>1, EndQuiet DEF GetAudibleAccount
<1> QED BY <1>7, <1>8, <1>9

-----------------------------------------------------------------------------
(* The steps that write *)

(* A step of one request keeps the invariant when each part of it that the *)
(* step can disturb is shown to hold.                                      *)
LEMMA Advance ==
    ASSUME Inv, NEW r \in Requests, req[r].todo # <<>>,
           NEW m \in Local, m.todo = <<>> => m = Closed, req' = [req EXCEPT ![r] = m],
           disturbed' = disturbed, Data', Grows, Created', Fits(m)', Paired',
           ~disturbed => RowsSigned' /\ OneUnasked' /\ Reports(m)'
    PROVE  Inv'
<1>1. AllFit' /\ req' \in [Requests -> Local]
  BY AllFitMove DEF Inv, Types
<1>2. Right'
  BY RightMove DEF Inv, Types
<1> QED BY <1>1, <1>2 DEF Inv, Types

(* CreateAudibleAccount.                                                   *)
LEMMA CreateKeeps ==
    ASSUME Inv, NEW r \in Requests, CreateAudibleAccount(r)
    PROVE  Inv'
<1>1. PICK l \in Local : l = req[r] /\ l.todo # <<>> /\ Now(l) = "create"
  BY DEF Inv, Types, CreateAudibleAccount, At, Me, Now
<1>2. PICK t : t = Tail(l.todo)
  OBVIOUS
<1>3. /\ Fits(l) /\ l.op \in Ops /\ t \in Seq(Steps) /\ Planned(l.op, t)
      /\ t # <<>> /\ Follows(l.op, "create", Head(t))
      /\ ~disturbed => Reports(l) /\ RowsSigned /\ OneUnasked
  BY <1>1, <1>2, StepFacts DEF Ends
<1>4. /\ l.op \in {"add", "market", "setup", "wizard", "start"}
      /\ Head(t) = "list" \/ (Head(t) = "setting" /\ l.op = "start")
  BY <1>3 DEF Follows
<1>5. PICK id : id = Born + 1
  OBVIOUS
<1>6. Data /\ Created /\ Paired /\ req \in [Requests -> Local]
  BY DEF Inv, Types
<1>7. id \in Ids /\ id \in 0..NumAccounts /\ id # 0 /\ Known = 1..Born /\ id \notin Known
      /\ Born \in Nat /\ 1..(Born + 1) = Known \cup {id}
  BY <1>5, <1>6 DEF CreateAudibleAccount, Data, Ids
<1>8. PICK w : w = [creds |-> 0, market |-> IF l.op \in {"add", "start"} THEN l.market
                                           ELSE setting]
  OBVIOUS
<1>9. w \in Row /\ w.creds = 0
  <2>1. l.op \in {"add", "start"} => l.market \in Markets
    BY <1>1, <1>3 DEF Fits
  <2>2. 0 \in 0..Legacy /\ setting \in Markets
    BY <1>6, AccountsAssumption DEF Legacy, Data
  <2> QED BY <1>8, <2>1, <2>2 DEF Row
<1>10. rows' = With(rows, id, w) /\ signed' = With(signed, id, 0)
  BY <1>1, <1>5, <1>8 DEF CreateAudibleAccount, Me
<1>11. /\ rows' \in Maps(Row) /\ DOMAIN rows' = DOMAIN rows \cup {id} /\ rows'[id] = w
       /\ \A x \in DOMAIN rows \ {id} : rows'[x] = rows[x]
  <2>1. rows \in Maps(Row)
    BY <1>6 DEF Data
  <2>2. With(rows, id, w) \in Maps(Row)
    BY <1>7, <1>9, <2>1, WithMap
  <2> QED BY <1>10, <2>2 DEF With
<1>12. /\ signed' \in Maps(0..Legacy) /\ DOMAIN signed' = DOMAIN signed \cup {id}
       /\ signed'[id] = 0 /\ \A x \in DOMAIN signed \ {id} : signed'[x] = signed[x]
  <2>1. 0 \in 0..Legacy
    BY AccountsAssumption DEF Legacy
  <2>2. signed \in Maps(0..Legacy)
    BY <1>6 DEF Data
  <2>3. With(signed, id, 0) \in Maps(0..Legacy)
    BY <1>7, <2>1, <2>2, WithMap
  <2> QED BY <1>10, <2>3 DEF With
<1>13. Known' = 1..(Born + 1) /\ Born' = Born + 1
  <2>1. DOMAIN signed' = 1..(Born + 1)
    BY <1>7, <1>12 DEF Known
  <2>2. Cardinality(DOMAIN signed') = Born + 1
    BY <1>7, <2>1, Counted
  <2> QED BY <2>1, <2>2 DEF Known, Born
<1>14. added' \subseteq Ids /\ Born + 1 \in 0..NumAccounts
  BY <1>5, <1>6, <1>7 DEF CreateAudibleAccount, Data
<1>15. Data'
  BY <1>6, <1>11, <1>12, <1>13, <1>14 DEF Data, CreateAudibleAccount
<1>16. Grows
  BY <1>6, <1>7, <1>13 DEF Grows, CreateAudibleAccount, Data
<1>17. \A x \in DOMAIN rows : x # id /\ rows'[x] = rows[x] /\ x \in DOMAIN signed
                             /\ signed'[x] = signed[x]
  BY <1>6, <1>7, <1>11, <1>12 DEF Created, Known
<1>18. Created'
  <2>1. \A a \in DOMAIN rows' : rows'[a].creds \in Given'
    BY <1>6, <1>9, <1>11, <1>17 DEF Created, Given, CreateAudibleAccount
  <2>2. DOMAIN rows' \subseteq Known' /\ Known \subseteq Known'
    BY <1>6, <1>7, <1>11, <1>13 DEF Created
  <2> QED BY <1>6, <2>1, <2>2 DEF Created, Given, CreateAudibleAccount
<1>19. PICK n : n = [l EXCEPT !.acct = id]
  OBVIOUS
<1>20. n \in Local /\ n.todo = l.todo /\ n.op = l.op /\ n.acct = id
      /\ n.market = l.market /\ n.link = l.link /\ n.seen = l.seen /\ n.list = l.list
  BY <1>7, <1>19 DEF Local
<1>21. Then(r, t, n)
  BY <1>1, <1>2, <1>5, <1>19 DEF CreateAudibleAccount, Step, Tail1, Me
<1>22. PICK m \in Local :
         /\ req' = [req EXCEPT ![r] = m] /\ m.todo = t /\ m.op = l.op /\ m.acct = id
         /\ m.market = l.market /\ m.link = l.link /\ m.seen = l.seen /\ m.list = l.list
  BY <1>3, <1>20, <1>21, NextLocal
<1>23. Now(m) \in {"list", "setting"} /\ Soon(m)
  BY <1>4, <1>22 DEF Now, Soon
<1>24. Fits(m)'
  <2>1. m.acct \in Known' /\ Known \subseteq Known' /\ Given' = Given
    BY <1>7, <1>13, <1>22 DEF Given, CreateAudibleAccount
  <2>2. m.seen.creds \in Given /\ DOMAIN m.list \subseteq Known
        /\ \A a \in DOMAIN m.list : m.list[a] \in Given
    BY <1>3, <1>22 DEF Fits
  <2>3. m.op \in {"add", "region", "market", "setup", "start"} => m.market \in Markets
    BY <1>1, <1>3, <1>22 DEF Fits
  <2> QED BY <1>3, <1>4, <1>22, <1>23, <2>1, <2>2, <2>3 DEF Fits, Planned
<1>25. Paired'
  <2>1. \A c : ~Carries(m, c)
    BY <1>4, <1>22, <1>23 DEF Carries
  <2>2. \A a \in DOMAIN rows' : rows'[a].creds \in spent => Holder(a, rows'[a].creds)
    <3>1. 0 \notin spent
      BY <1>6 DEF Data
    <3> QED BY <1>9, <1>11, <1>17, <3>1 DEF Holder
  <2>3. ASSUME NEW c \in spent, NEW a \in 0..NumAccounts, Holder(a, c), c \in removed'
        PROVE  a \notin DOMAIN rows'
    <3>1. a \notin DOMAIN rows
      BY <1>6, <2>3 DEF Paired, CreateAudibleAccount
    <3>2. PICK q \in Requests : req[q].acct = a
      BY <2>3, <3>1 DEF Holder
    <3>3. a \in {0} \cup Known
      BY <3>2 DEF Inv, AllFit, Fits
    <3> QED BY <1>7, <1>11, <3>1, <3>3
  <2>4. spent' = spent
    BY DEF CreateAudibleAccount
  <2> QED BY <1>6, <1>15, <1>16, <1>22, <2>1, <2>2, <2>3, <2>4, PairedMove
<1>26. ASSUME ~disturbed PROVE RowsSigned' /\ OneUnasked' /\ Reports(m)'
  <2>1. RowsSigned'
    <3>1. RowsSigned
      BY <1>3, <1>26
    <3> QED BY <1>9, <1>11, <1>12, <1>17, <3>1 DEF RowsSigned
  <2>2. OneUnasked'
    <3>1. CASE l.op = "add"
      <4>1. added' = added \cup {id}
        BY <1>1, <1>5, <3>1 DEF CreateAudibleAccount, Me
      <4>2. PICK x \in 0..NumAccounts : DOMAIN rows \ added \subseteq {x}
        BY <1>3, <1>26 DEF OneUnasked
      <4>3. DOMAIN rows' \ added' \subseteq {x}
        BY <1>11, <4>1, <4>2
      <4> QED BY <4>3 DEF OneUnasked
    <3>2. CASE l.op # "add"
      <4>1. DOMAIN rows = {}
        BY <1>1, <1>3, <1>26, <3>2 DEF Reports
      <4>2. DOMAIN rows' \ added' \subseteq {id}
        BY <1>11, <4>1
      <4> QED BY <1>7, <4>2 DEF OneUnasked
    <3> QED BY <3>1, <3>2
  <2>3. Soon(m)' /\ Now(m)' = Now(m)
    BY <1>23 DEF Soon, Now
  <2>4. Reports(m)'
    BY <1>3, <1>22, <1>23, <2>3 DEF Reports
  <2> QED BY <2>1, <2>2, <2>4
<1>27. disturbed' = disturbed
  BY DEF CreateAudibleAccount
<1> QED BY <1>1, <1>3, <1>15, <1>16, <1>18, <1>22, <1>24, <1>25, <1>26, <1>27, Advance

(* DeleteAudibleAccount.                                                   *)
LEMMA DeleteKeeps ==
    ASSUME Inv, NEW r \in Requests, DeleteAudibleAccount(r)
    PROVE  Inv'
<1>1. PICK l \in Local : l = req[r] /\ l.todo # <<>> /\ Now(l) = "delete"
  BY DEF Inv, Types, DeleteAudibleAccount, At, Me, Now
<1>2. PICK t : t = Tail(l.todo)
  OBVIOUS
<1>3. /\ Fits(l) /\ l.op \in Ops /\ t \in Seq(Steps) /\ Planned(l.op, t)
      /\ t # <<>> /\ Follows(l.op, "delete", Head(t))
      /\ ~disturbed => Reports(l) /\ RowsSigned /\ OneUnasked
  BY <1>1, <1>2, StepFacts DEF Ends
<1>4. l.op = "remove" /\ Head(t) = "list"
  BY <1>3 DEF Follows
<1>5. PICK a0 : a0 = l.acct
  OBVIOUS
<1>6. Data /\ Created /\ Paired /\ req \in [Requests -> Local]
  BY DEF Inv, Types
<1>7. rows' = Forget(rows, a0)
  BY <1>1, <1>5 DEF DeleteAudibleAccount, Me
<1>8. /\ rows' \in Maps(Row) /\ DOMAIN rows' = DOMAIN rows \ {a0}
      /\ \A x \in DOMAIN rows' : rows'[x] = rows[x]
  BY <1>6, <1>7, ForgetMap DEF Data
<1>9. removed' = IF a0 \in DOMAIN rows THEN removed \cup ({rows[a0].creds} \ {0}) ELSE removed
  BY <1>1, <1>5 DEF DeleteAudibleAccount, Me
<1>10. removed' \subseteq {Legacy} \cup spent
  BY <1>6, <1>9 DEF Data, Created, Given
<1>11. Known' = Known /\ Born' = Born /\ Given' = Given
  BY DEF Known, Born, Given, DeleteAudibleAccount
<1>12. Data'
  BY <1>6, <1>8, <1>10, <1>11 DEF Data, DeleteAudibleAccount
<1>13. Grows
  BY <1>6, <1>11 DEF Grows, DeleteAudibleAccount, Data
<1>14. Created'
  BY <1>6, <1>8, <1>11 DEF Created, DeleteAudibleAccount
<1>15. Then(r, t, l)
  BY <1>1, <1>2 DEF DeleteAudibleAccount, Done, Step, Tail1, Me
<1>16. PICK m \in Local :
         /\ req' = [req EXCEPT ![r] = m] /\ m.todo = t /\ m.op = l.op /\ m.acct = l.acct
         /\ m.market = l.market /\ m.link = l.link /\ m.seen = l.seen /\ m.list = l.list
  BY <1>3, <1>15, NextLocal
<1>17. Now(m) = "list" /\ Soon(m)
  BY <1>4, <1>16 DEF Now, Soon
<1>18. Fits(m)
  BY <1>1, <1>3, <1>4, <1>16, <1>17 DEF Fits
<1>19. Fits(m)'
  BY <1>6, <1>12, <1>13, <1>18, FitsGrow
<1>20. Paired'
  <2>1. \A c : ~Carries(m, c)
    BY <1>4, <1>16, <1>17 DEF Carries
  <2>2. \A a \in DOMAIN rows' : rows'[a].creds \in spent => Holder(a, rows'[a].creds)
    BY <1>8 DEF Holder
  <2>3. ASSUME NEW c \in spent, NEW a \in 0..NumAccounts, Holder(a, c), c \in removed'
        PROVE  a \notin DOMAIN rows'
    <3>1. CASE c \in removed
      <4>1. a \notin DOMAIN rows
        BY <1>6, <2>3, <3>1 DEF Paired
      <4> QED BY <1>8, <4>1
    <3>2. CASE c \notin removed
      <4>1. a0 \in DOMAIN rows /\ rows[a0].creds = c
        BY <1>9, <2>3, <3>2
      <4>2. Holder(a0, c)
        BY <4>1 DEF Holder
      <4>3. a0 \in 0..NumAccounts
        BY <1>5 DEF Local
      <4>4. a = a0
        BY <1>6, <2>3, <4>2, <4>3 DEF Paired
      <4> QED BY <1>8, <4>4
    <3> QED BY <3>1, <3>2
  <2>4. spent' = spent
    BY DEF DeleteAudibleAccount
  <2> QED BY <1>6, <1>12, <1>13, <1>16, <2>1, <2>2, <2>3, <2>4, PairedMove
<1>21. ASSUME ~disturbed PROVE RowsSigned' /\ OneUnasked' /\ Reports(m)'
  <2>1. RowsSigned'
    BY <1>3, <1>8, <1>21 DEF RowsSigned, DeleteAudibleAccount
  <2>2. OneUnasked'
    <3>1. PICK x \in 0..NumAccounts : DOMAIN rows \ added \subseteq {x}
      BY <1>3, <1>21 DEF OneUnasked
    <3>2. DOMAIN rows' \ added' \subseteq {x}
      BY <1>8, <3>1 DEF DeleteAudibleAccount
    <3> QED BY <3>2 DEF OneUnasked
  <2>3. Soon(m)' /\ Now(m)' = Now(m)
    BY <1>17 DEF Soon, Now
  <2>4. Reports(m)'
    BY <1>3, <1>16, <1>17, <2>3 DEF Reports
  <2> QED BY <2>1, <2>2, <2>4
<1>22. disturbed' = disturbed
  BY DEF DeleteAudibleAccount
<1> QED BY <1>1, <1>3, <1>12, <1>13, <1>14, <1>16, <1>19, <1>20, <1>21, <1>22, Advance

(* UpdateAudibleAccount.                                                   *)
LEMMA UpdateKeeps ==
    ASSUME Inv, NEW r \in Requests, UpdateAudibleAccount(r)
    PROVE  Inv'
<1>1. PICK l \in Local : l = req[r] /\ l.todo # <<>> /\ Now(l) = "put"
  BY DEF Inv, Types, UpdateAudibleAccount, At, Me, Now
<1>2. PICK t : t = Tail(l.todo)
  OBVIOUS
<1>3. /\ Fits(l) /\ l.op \in Ops /\ t \in Seq(Steps) /\ Planned(l.op, t)
      /\ t # <<>> /\ Follows(l.op, "put", Head(t))
      /\ ~disturbed => Reports(l) /\ RowsSigned /\ OneUnasked
  BY <1>1, <1>2, StepFacts DEF Ends
<1>4. /\ l.op \in {"region", "market", "setup", "start", "callback"}
      /\ Head(t) \in {"setting", "remember", "list"}
      /\ l.op = "callback" => Head(t) = "list"
  BY <1>3 DEF Follows
<1>5. PICK a0 : a0 = l.acct
  OBVIOUS
<1>6. Data /\ Created /\ Paired /\ req \in [Requests -> Local]
  BY DEF Inv, Types
<1>7. PICK w : w = IF l.op = "callback" THEN [creds |-> l.link, market |-> l.market]
                   ELSE [l.seen EXCEPT !.market = l.market]
  OBVIOUS
<1>8. /\ w \in Row /\ w.creds \in Given
      /\ l.op = "callback" => w.creds = l.link /\ l.link \in spent /\ l.link \in 0..Legacy
                              /\ l.acct # 0
      /\ l.op # "callback" => w.creds = l.seen.creds
  <2>1. CASE l.op = "callback"
    <3>1. l.market \in Markets /\ l.link \in spent /\ l.link \in 0..Len(links) /\ l.acct # 0
      BY <1>1, <1>3, <2>1 DEF Fits
    <3>2. l.link \in 0..Legacy
      BY <1>6, <3>1, AccountsAssumption DEF Data, Legacy
    <3>3. w = [creds |-> l.link, market |-> l.market]
      BY <1>7, <2>1
    <3> QED BY <2>1, <3>1, <3>2, <3>3 DEF Row, Given
  <2>2. CASE l.op # "callback"
    <3>1. l.market \in Markets /\ l.seen.creds \in Given
      BY <1>1, <1>3, <1>4, <2>2 DEF Fits
    <3>2. l.seen \in Row \/ l.seen = [creds |-> 0, market |-> "none"]
      BY DEF Local, NoRow
    <3>3. w = [l.seen EXCEPT !.market = l.market]
      BY <1>7, <2>2
    <3>4. 0 \in 0..Legacy
      BY AccountsAssumption DEF Legacy
    <3> QED BY <2>2, <3>1, <3>2, <3>3, <3>4 DEF Row
  <2> QED BY <2>1, <2>2
<1>9. rows' = IF a0 \in DOMAIN rows THEN [rows EXCEPT ![a0] = w] ELSE rows
  BY <1>1, <1>5, <1>7 DEF UpdateAudibleAccount, Me
<1>10. signed' = IF l.op = "callback" THEN [signed EXCEPT ![a0] = l.link] ELSE signed
  BY <1>1, <1>5 DEF UpdateAudibleAccount, Me
<1>11. /\ rows' \in Maps(Row) /\ DOMAIN rows' = DOMAIN rows
       /\ \A x \in DOMAIN rows : rows'[x] = IF x = a0 THEN w ELSE rows[x]
  <2>1. rows \in Maps(Row)
    BY <1>6 DEF Data
  <2>2. CASE a0 \in DOMAIN rows
    <3>1. [rows EXCEPT ![a0] = w] \in Maps(Row)
      BY <1>8, <2>1, <2>2, SetMap
    <3> QED BY <1>9, <2>2, <3>1
  <2>3. CASE a0 \notin DOMAIN rows
    BY <1>9, <2>1, <2>3
  <2> QED BY <2>2, <2>3
<1>12. /\ signed' \in Maps(0..Legacy) /\ DOMAIN signed' = DOMAIN signed
       /\ \A x \in DOMAIN signed :
             signed'[x] = IF l.op = "callback" /\ x = a0 THEN l.link ELSE signed[x]
  <2>1. signed \in Maps(0..Legacy)
    BY <1>6 DEF Data
  <2>2. CASE l.op = "callback"
    <3>1. a0 \in DOMAIN signed
      BY <1>3, <1>5, <1>8, <2>2 DEF Fits, Known
    <3>2. [signed EXCEPT ![a0] = l.link] \in Maps(0..Legacy)
      BY <1>8, <2>1, <2>2, <3>1, SetMap
    <3> QED BY <1>10, <2>2, <3>2
  <2>3. CASE l.op # "callback"
    BY <1>10, <2>1, <2>3
  <2> QED BY <2>2, <2>3
<1>13. Known' = Known /\ Born' = Born /\ Given' = Given
  BY <1>12 DEF Known, Born, Given, UpdateAudibleAccount
<1>14. Data'
  BY <1>6, <1>11, <1>12, <1>13 DEF Data, UpdateAudibleAccount
<1>15. Grows
  BY <1>6, <1>13 DEF Grows, UpdateAudibleAccount, Data
<1>16. Created'
  <2>1. \A a \in DOMAIN rows' : rows'[a].creds \in Given'
    BY <1>6, <1>8, <1>11, <1>13 DEF Created
  <2> QED BY <1>6, <1>11, <1>13, <2>1 DEF Created, UpdateAudibleAccount
<1>17. Then(r, t, l)
  BY <1>1, <1>2 DEF UpdateAudibleAccount, Done, Step, Tail1, Me
<1>18. PICK m \in Local :
         /\ req' = [req EXCEPT ![r] = m] /\ m.todo = t /\ m.op = l.op /\ m.acct = l.acct
         /\ m.market = l.market /\ m.link = l.link /\ m.seen = l.seen /\ m.list = l.list
  BY <1>3, <1>17, NextLocal
<1>19. Now(m) \in {"setting", "remember", "list"} /\ (m.op = "callback" => Now(m) = "list")
  BY <1>4, <1>18 DEF Now
<1>20. Fits(m)
  BY <1>1, <1>3, <1>18, <1>19 DEF Fits
<1>21. Fits(m)'
  BY <1>6, <1>14, <1>15, <1>20, FitsGrow
<1>22. Paired'
  <2>1. \A c : ~Carries(m, c)
    BY <1>19 DEF Carries
  <2>2. ASSUME NEW a \in DOMAIN rows', rows'[a].creds \in spent
        PROVE  Holder(a, rows'[a].creds)
    <3>1. CASE a = a0
      <4>1. rows'[a] = w
        BY <1>11, <3>1
      <4>2. Carries(l, w.creds)
        BY <1>1, <1>8 DEF Carries
      <4>3. req[r].acct = a /\ Carries(req[r], w.creds)
        BY <1>1, <1>5, <3>1, <4>2
      <4> QED BY <4>1, <4>3 DEF Holder
    <3>2. CASE a # a0
      BY <1>11, <3>2 DEF Holder
    <3> QED BY <3>1, <3>2
  <2>3. \A c \in spent, a \in 0..NumAccounts :
           Holder(a, c) /\ c \in removed' => a \notin DOMAIN rows'
    BY <1>6, <1>11 DEF Paired, UpdateAudibleAccount
  <2>4. spent' = spent
    BY DEF UpdateAudibleAccount
  <2> QED BY <1>6, <1>14, <1>15, <1>18, <2>1, <2>2, <2>3, <2>4, PairedMove
<1>23. ASSUME ~disturbed PROVE RowsSigned' /\ OneUnasked' /\ Reports(m)'
  <2>1. DOMAIN rows \subseteq DOMAIN signed /\ RowsSigned /\ Reports(l)
    BY <1>3, <1>6, <1>23 DEF Created, Known
  <2>2. clients = Creds /\ Pointed
    BY <1>1, <2>1 DEF Reports, Soon
  <2>3. CASE l.op = "callback"
    <3>1. RowsSigned'
      BY <1>8, <1>11, <1>12, <2>1, <2>3 DEF RowsSigned
    <3>2. Soon(m)' /\ Now(m)' = Now(m)
      BY <1>18, <1>19, <2>3 DEF Soon, Now
    <3>3. Reports(m)'
      BY <1>3, <1>18, <1>19, <2>3, <3>2 DEF Reports
    <3> QED BY <1>3, <1>11, <1>23, <3>1, <3>3 DEF OneUnasked, UpdateAudibleAccount
  <2>4. CASE l.op # "callback"
    <3>1. a0 \in DOMAIN rows /\ w.creds = rows[a0].creds
      BY <1>1, <1>5, <1>8, <2>1, <2>4 DEF Reports
    <3>2. \A x \in DOMAIN rows : rows'[x].creds = rows[x].creds
      BY <1>11, <3>1
    <3>3. RowsSigned'
      BY <1>11, <1>12, <2>1, <2>4, <3>2 DEF RowsSigned
    <3>4. Creds' = Creds
      BY <1>11, <3>2 DEF Creds
    <3>5. Reports(m)'
      BY <1>3, <1>18, <1>19, <2>2, <3>4
         DEF Reports, Pointed, Repoint, Soon, Now, UpdateAudibleAccount
    <3> QED BY <1>3, <1>11, <1>23, <3>3, <3>5 DEF OneUnasked, UpdateAudibleAccount
  <2> QED BY <2>3, <2>4
<1>24. disturbed' = disturbed
  BY DEF UpdateAudibleAccount
<1> QED BY <1>1, <1>3, <1>14, <1>15, <1>16, <1>18, <1>21, <1>22, <1>23, <1>24, Advance

(* A step that writes no row, credentials or link, and after which the     *)
(* request carries nothing.                                                *)
LEMMA PairedQuiet ==
    ASSUME Data, Data', req \in [Requests -> Local], Grows, Paired, NEW r \in Requests,
           NEW m \in Local, req' = [req EXCEPT ![r] = m],
           UNCHANGED <<spent, rows, removed>>, \A c : ~Carries(m, c)
    PROVE  Paired'
<1>1. \A a \in DOMAIN rows' : rows'[a].creds \in spent => Holder(a, rows'[a].creds)
  BY DEF Holder
<1>2. \A c \in spent, a \in 0..NumAccounts :
         Holder(a, c) /\ c \in removed' => a \notin DOMAIN rows'
  BY DEF Paired
<1> QED BY <1>1, <1>2, PairedMove

(* SwapClients.                                                            *)
LEMMA SwapKeeps ==
    ASSUME Inv, NEW r \in Requests, SwapClients(r)
    PROVE  Inv'
<1>1. PICK l \in Local : l = req[r] /\ l.todo # <<>> /\ Now(l) = "swap"
  BY DEF Inv, Types, SwapClients, At, Me, Now
<1>2. PICK t : t = Tail(l.todo)
  OBVIOUS
<1>3. /\ Fits(l) /\ l.op \in Ops /\ t \in Seq(Steps) /\ Planned(l.op, t)
      /\ t # <<>> /\ Follows(l.op, "swap", Head(t))
      /\ ~disturbed => Reports(l) /\ RowsSigned /\ OneUnasked
  BY <1>1, <1>2, StepFacts DEF Ends
<1>4. Head(t) = "repoint"
  BY <1>3 DEF Follows
<1>5. Data /\ Created /\ Paired /\ req \in [Requests -> Local]
  BY DEF Inv, Types
<1>6. clients' = l.list /\ l.list \in Maps(0..Legacy)
  BY <1>1 DEF SwapClients, Me, Local
<1>7. Known' = Known /\ Born' = Born /\ Given' = Given
  BY DEF Known, Born, Given, SwapClients
<1>8. Data'
  BY <1>5, <1>6, <1>7 DEF Data, SwapClients
<1>9. Grows
  BY <1>5, <1>7 DEF Grows, SwapClients, Data
<1>10. Created'
  <2>1. DOMAIN clients' \subseteq Known /\ \A a \in DOMAIN clients' : clients'[a] \in Given
    BY <1>3, <1>6 DEF Fits
  <2> QED BY <1>5, <1>7, <2>1 DEF Created, SwapClients
<1>11. PICK n : n = [l EXCEPT !.list = Nothing]
  OBVIOUS
<1>12. Nothing \in Maps(0..Legacy) /\ DOMAIN Nothing = {}
  BY EmptyMap
<1>13. n \in Local /\ n.todo = l.todo /\ n.op = l.op /\ n.acct = l.acct
      /\ n.market = l.market /\ n.link = l.link /\ n.seen = l.seen /\ n.list = Nothing
  BY <1>11, <1>12 DEF Local
<1>14. Then(r, t, n)
  BY <1>1, <1>2, <1>11 DEF SwapClients, Step, Tail1, Me
<1>15. PICK m \in Local :
         /\ req' = [req EXCEPT ![r] = m] /\ m.todo = t /\ m.op = l.op /\ m.acct = l.acct
         /\ m.market = l.market /\ m.link = l.link /\ m.seen = l.seen /\ m.list = Nothing
  BY <1>3, <1>13, <1>14, NextLocal
<1>16. Now(m) = "repoint"
  BY <1>4, <1>15 DEF Now
<1>17. Fits(m)
  BY <1>1, <1>3, <1>12, <1>15, <1>16 DEF Fits
<1>18. Fits(m)'
  BY <1>5, <1>8, <1>9, <1>17, FitsGrow
<1>19. Paired'
  <2>1. \A c : ~Carries(m, c)
    BY <1>16 DEF Carries
  <2>2. UNCHANGED <<spent, rows, removed>>
    BY DEF SwapClients
  <2> QED BY <1>5, <1>8, <1>9, <1>15, <2>1, <2>2, PairedQuiet
<1>20. ASSUME ~disturbed PROVE RowsSigned' /\ OneUnasked' /\ Reports(m)'
  <2>1. Creds' = Creds /\ Now(m)' = Now(m)
    BY DEF Creds, SwapClients, Now
  <2>2. clients' = Creds'
    BY <1>1, <1>3, <1>6, <1>20, <2>1 DEF Reports
  <2>3. Reports(m)'
    BY <1>3, <1>15, <1>16, <2>1, <2>2 DEF Reports
  <2> QED BY <1>3, <1>20, <2>3 DEF RowsSigned, OneUnasked, SwapClients
<1>21. disturbed' = disturbed
  BY DEF SwapClients
<1> QED BY <1>1, <1>3, <1>8, <1>9, <1>10, <1>15, <1>18, <1>19, <1>20, <1>21, Advance

(* refreshPrimaryAudible.                                                  *)
LEMMA RepointKeeps ==
    ASSUME Inv, NEW r \in Requests, refreshPrimaryAudible(r)
    PROVE  Inv'
<1>1. PICK l \in Local : l = req[r] /\ l.todo # <<>> /\ Now(l) = "repoint"
  BY DEF Inv, Types, refreshPrimaryAudible, At, Me, Now
<1>2. PICK t : t = Tail(l.todo)
  OBVIOUS
<1>3. /\ Fits(l) /\ l.op \in Ops /\ t \in Seq(Steps) /\ Planned(l.op, t)
      /\ t # <<>> => Follows(l.op, "repoint", Head(t))
      /\ ~disturbed => Reports(l) /\ RowsSigned /\ OneUnasked
  BY <1>1, <1>2, StepFacts
<1>4. t # <<>> => Head(t) \in {"remember", "get"} /\ l.op # "callback"
  BY <1>3 DEF Follows
<1>5. Data /\ Created /\ Paired /\ req \in [Requests -> Local]
  BY DEF Inv, Types
<1>6. audible' = Repoint(clients, audible)
  BY DEF refreshPrimaryAudible
<1>7. audible' \in [acct : 0..NumAccounts, creds : 0..Legacy]
      /\ audible'.acct \in {0} \cup Known
  <2>1. CASE DOMAIN clients = {}
    BY <1>5, <1>6, <2>1 DEF Repoint, Data, Created
  <2>2. CASE DOMAIN clients # {}
    <3>1. clients \in Maps(0..Legacy) /\ DOMAIN clients \subseteq Known
      BY <1>5 DEF Data, Created
    <3>2. PrimaryAccountID \in DOMAIN clients /\ PrimaryAccountID \in 0..NumAccounts
      BY <1>5, <2>2, PrimaryFact
    <3>3. clients[PrimaryAccountID] \in 0..Legacy
      BY <3>1, <3>2, MapIs
    <3>4. audible' = [acct |-> PrimaryAccountID, creds |-> clients[PrimaryAccountID]]
      BY <1>6, <2>2 DEF Repoint, PrimaryAccountID
    <3> QED BY <3>1, <3>2, <3>3, <3>4
  <2> QED BY <2>1, <2>2
<1>8. Known' = Known /\ Born' = Born /\ Given' = Given
  BY DEF Known, Born, Given, refreshPrimaryAudible
<1>9. Data'
  BY <1>5, <1>7, <1>8 DEF Data, refreshPrimaryAudible
<1>10. Grows
  BY <1>5, <1>8 DEF Grows, refreshPrimaryAudible, Data
<1>11. Created'
  BY <1>5, <1>7, <1>8 DEF Created, refreshPrimaryAudible
<1>12. Then(r, t, l)
  BY <1>1, <1>2 DEF refreshPrimaryAudible, Done, Step, Tail1, Me
<1>13. PICK m \in Local :
         /\ req' = [req EXCEPT ![r] = m]
         /\ t = <<>> => m = Closed /\ m.todo = <<>>
         /\ t # <<>> =>
              /\ m.todo = t /\ m.op = l.op /\ m.acct = l.acct
              /\ m.market = l.market /\ m.link = l.link /\ m.seen = l.seen /\ m.list = l.list
  BY <1>3, <1>12, NextLocal
<1>14. (m.todo = <<>> => m = Closed)
       /\ (m.todo # <<>> => Now(m) \in {"remember", "get"} /\ m.op # "callback")
  BY <1>4, <1>13 DEF Now
<1>15. Fits(m)
  <2>1. CASE t = <<>>
    BY <1>5, <1>13, <2>1, ClosedFits
  <2>2. CASE t # <<>>
    BY <1>1, <1>3, <1>4, <1>13, <1>14, <2>2 DEF Fits
  <2> QED BY <2>1, <2>2
<1>16. Fits(m)'
  BY <1>5, <1>9, <1>10, <1>15, FitsGrow
<1>17. Paired'
  <2>1. \A c : ~Carries(m, c)
    BY <1>14 DEF Carries
  <2>2. UNCHANGED <<spent, rows, removed>>
    BY DEF refreshPrimaryAudible
  <2> QED BY <1>5, <1>9, <1>10, <1>13, <2>1, <2>2, PairedQuiet
<1>18. ASSUME ~disturbed PROVE RowsSigned' /\ OneUnasked' /\ Reports(m)'
  <2>1. Creds' = Creds /\ clients' = clients /\ Now(m)' = Now(m)
    BY DEF Creds, refreshPrimaryAudible, Now
  <2>2. clients' = Creds'
    BY <1>1, <1>3, <1>18, <2>1 DEF Reports, Soon
  <2>3. Pointed'
    <3>1. audible' = Repoint(clients, audible')
      BY <1>6 DEF Repoint
    <3> QED BY <2>1, <3>1 DEF Pointed, Repoint
  <2>4. Reports(m)'
    BY <1>14, <2>1, <2>2, <2>3 DEF Reports
  <2> QED BY <1>3, <1>18, <2>4 DEF RowsSigned, OneUnasked, refreshPrimaryAudible
<1>19. disturbed' = disturbed
  BY DEF refreshPrimaryAudible
<1> QED BY <1>1, <1>9, <1>10, <1>11, <1>13, <1>14, <1>16, <1>17, <1>18, <1>19, Advance

(* rememberPendingAuth, the last step of what shows a link.                *)
LEMMA RememberKeeps ==
    ASSUME Inv, NEW r \in Requests, rememberPendingAuth(r)
    PROVE  Inv'
<1>1. PICK l \in Local : l = req[r] /\ l.todo # <<>> /\ Now(l) = "remember"
  BY DEF Inv, Types, rememberPendingAuth, At, Me, Now
<1>2. PICK t : t = Tail(l.todo)
  OBVIOUS
<1>3. /\ Fits(l) /\ t \in Seq(Steps)
      /\ t # <<>> => Follows(l.op, "remember", Head(t))
      /\ ~disturbed => Reports(l) /\ RowsSigned /\ OneUnasked
  BY <1>1, <1>2, StepFacts
<1>4. t = <<>>
  BY <1>3 DEF Follows
<1>5. Data /\ Created /\ Paired /\ req \in [Requests -> Local]
  BY DEF Inv, Types
<1>6. PICK a : a = l.acct
  OBVIOUS
<1>7. PICK n : n = Len(links) + 1
  OBVIOUS
<1>8. /\ a \in 0..NumAccounts /\ a \in {0} \cup Known
      /\ links \in Seq(0..NumAccounts) /\ n \in 1..NumLinks
  BY <1>3, <1>5, <1>6, <1>7 DEF Local, Fits, Data, rememberPendingAuth
<1>9. links' = Append(links, a) /\ pending' = IF a = 0 THEN pending ELSE With(pending, a, n)
  BY <1>1, <1>6, <1>7 DEF rememberPendingAuth, Me
<1>10. /\ links' \in Seq(0..NumAccounts) /\ Len(links') = n /\ links'[n] = a
       /\ \A i \in 1..Len(links) : links'[i] = links[i]
  BY <1>7, <1>8, <1>9
<1>11. Known' = Known /\ Born' = Born /\ Given' = Given
  BY DEF Known, Born, Given, rememberPendingAuth
<1>12. pending' \in Maps(1..NumLinks)
  <2>1. pending \in Maps(1..NumLinks)
    BY <1>5 DEF Data
  <2>2. CASE a = 0
    BY <1>9, <2>1, <2>2
  <2>3. CASE a # 0
    <3>1. a \in Ids
      BY <1>8, <2>3 DEF Ids
    <3>2. With(pending, a, n) \in Maps(1..NumLinks)
      BY <1>8, <2>1, <3>1, WithMap
    <3> QED BY <1>9, <2>3, <3>2
  <2> QED BY <2>2, <2>3
<1>13. spent' \subseteq 1..Len(links')
  <2>1. spent' \subseteq 1..Len(links) /\ Len(links) \in Nat
    BY <1>5 DEF Data, rememberPendingAuth
  <2> QED BY <1>7, <1>10, <2>1
<1>14. Data'
  BY <1>5, <1>8, <1>10, <1>11, <1>12, <1>13 DEF Data, rememberPendingAuth
<1>15. Grows
  BY <1>5, <1>7, <1>8, <1>10, <1>11 DEF Grows, rememberPendingAuth
<1>16. Created'
  <2>1. ASSUME NEW i \in 1..Len(links') PROVE links'[i] \in {0} \cup Known
    <3>1. CASE i = n
      BY <1>8, <1>10, <3>1
    <3>2. CASE i # n
      <4>1. i \in 1..Len(links)
        BY <1>7, <1>8, <1>10, <3>2
      <4> QED BY <1>5, <1>10, <4>1 DEF Created
    <3> QED BY <3>1, <3>2
  <2>2. ASSUME NEW b \in DOMAIN pending'
        PROVE  b \in Known /\ pending'[b] \in 1..Len(links') /\ links'[pending'[b]] = b
    <3>1. CASE b = a /\ a # 0
      <4>1. pending'[b] = n
        BY <1>9, <3>1 DEF With
      <4> QED BY <1>8, <1>10, <3>1, <4>1
    <3>2. CASE ~(b = a /\ a # 0)
      <4>1. b \in DOMAIN pending /\ pending'[b] = pending[b]
        BY <1>9, <3>2 DEF With
      <4>2. b \in Known /\ pending[b] \in 1..Len(links) /\ links[pending[b]] = b
        BY <1>5, <4>1 DEF Created
      <4>3. pending[b] \in 1..Len(links')
        BY <1>7, <1>8, <1>10, <4>2
      <4> QED BY <1>10, <4>1, <4>2, <4>3
    <3> QED BY <3>1, <3>2
  <2> QED BY <1>5, <1>11, <2>1, <2>2 DEF Created, rememberPendingAuth
<1>17. Then(r, t, l)
  BY <1>1, <1>2 DEF rememberPendingAuth, Done, Step, Tail1, Me
<1>18. PICK m \in Local : req' = [req EXCEPT ![r] = m] /\ m = Closed /\ m.todo = <<>>
  BY <1>3, <1>4, <1>17, NextLocal
<1>19. Fits(m) /\ \A c : ~Carries(m, c)
  BY <1>5, <1>18, ClosedFits
<1>20. Fits(m)'
  BY <1>5, <1>14, <1>15, <1>19, FitsGrow
<1>21. Paired'
  <2>1. UNCHANGED <<spent, rows, removed>>
    BY DEF rememberPendingAuth
  <2> QED BY <1>5, <1>14, <1>15, <1>18, <1>19, <2>1, PairedQuiet
<1>22. ASSUME ~disturbed PROVE RowsSigned' /\ OneUnasked' /\ Reports(m)'
  <2>1. clients = Creds /\ Pointed
    BY <1>1, <1>3, <1>22 DEF Reports, Soon
  <2>2. Reports(m)'
    BY <1>18, <2>1 DEF Reports, Creds, Pointed, Repoint, rememberPendingAuth
  <2> QED BY <1>3, <1>22, <2>2 DEF RowsSigned, OneUnasked, rememberPendingAuth
<1>23. disturbed' = disturbed
  BY DEF rememberPendingAuth
<1> QED BY <1>1, <1>14, <1>15, <1>16, <1>18, <1>20, <1>21, <1>22, <1>23, Advance

(* registrationForCallback.                                                *)
LEMMA TakeKeeps ==
    ASSUME Inv, NEW r \in Requests, registrationForCallback(r)
    PROVE  Inv'
<1>1. PICK l \in Local : l = req[r] /\ l.todo # <<>> /\ Now(l) = "take"
  BY DEF Inv, Types, registrationForCallback, At, Me, Now
<1>2. PICK t : t = Tail(l.todo)
  OBVIOUS
<1>3. /\ Fits(l) /\ l.op \in Ops /\ t \in Seq(Steps) /\ Planned(l.op, t)
      /\ t # <<>> /\ Follows(l.op, "take", Head(t))
      /\ ~disturbed => Reports(l) /\ RowsSigned /\ OneUnasked
  BY <1>1, <1>2, StepFacts DEF Ends
<1>4. l.op = "callback" /\ Head(t) = "exchange"
  BY <1>3 DEF Follows
<1>5. Data /\ Created /\ Paired /\ req \in [Requests -> Local]
  BY DEF Inv, Types
<1>6. ~disturbed => clients = Creds /\ Pointed
  BY <1>1, <1>3 DEF Reports, Soon
<1>7. PICK a : a = l.acct
  OBVIOUS
<1>8. CASE End(r) /\ UNCHANGED pending
  BY <1>1, <1>6, <1>8, EndQuiet DEF registrationForCallback
<1>9. CASE a \notin DOMAIN pending /\ l.link # 0 /\ Done(r) /\ UNCHANGED pending
  <2>1. Then(r, t, l)
    BY <1>1, <1>2, <1>9 DEF Done, Step, Tail1, Me
  <2>2. PICK m \in Local :
          /\ req' = [req EXCEPT ![r] = m] /\ m.todo = t /\ m.op = l.op /\ m.acct = l.acct
          /\ m.market = l.market /\ m.link = l.link /\ m.seen = l.seen /\ m.list = l.list
    BY <1>3, <2>1, NextLocal
  <2>3. Now(m) = "exchange"
    BY <1>4, <2>2 DEF Now
  <2>4. Fits(m)
    BY <1>1, <1>3, <1>4, <1>9, <2>2, <2>3 DEF Fits
  <2>5. \A c : ~Carries(m, c)
    BY <2>3 DEF Carries
  <2>6. ~disturbed => Reports(m)
    BY <1>3, <1>4, <1>6, <2>2, <2>3 DEF Reports
  <2>7. setting' \in Markets
    BY <1>5 DEF registrationForCallback, Data
  <2> QED BY <1>1, <1>3, <1>9, <2>2, <2>4, <2>5, <2>6, <2>7, Quiet DEF registrationForCallback
<1>10. CASE /\ a \in DOMAIN pending /\ pending' = Forget(pending, a)
            /\ Step(r, [l EXCEPT !.link = pending[a]])
  <2>1. PICK x : x = pending[a]
    OBVIOUS
  <2>2. x \in 1..Len(links) /\ links[x] = a /\ Len(links) \in Nat /\ Len(links) <= NumLinks
    BY <1>5, <1>10, <2>1 DEF Created, Data
  <2>3. PICK n : n = [l EXCEPT !.link = x]
    OBVIOUS
  <2>4. x \in 0..NumLinks /\ x # 0 /\ x \in 0..Len(links)
    BY <2>2, AccountsAssumption
  <2>5. n \in Local /\ n.todo = l.todo /\ n.op = l.op /\ n.acct = l.acct
        /\ n.market = l.market /\ n.link = x /\ n.seen = l.seen /\ n.list = l.list
    BY <2>3, <2>4 DEF Local
  <2>6. Then(r, t, n)
    BY <1>1, <1>2, <1>10, <2>1, <2>3 DEF Step, Tail1, Me
  <2>7. PICK m \in Local :
          /\ req' = [req EXCEPT ![r] = m] /\ m.todo = t /\ m.op = l.op /\ m.acct = l.acct
          /\ m.market = l.market /\ m.link = x /\ m.seen = l.seen /\ m.list = l.list
    BY <1>3, <2>5, <2>6, NextLocal
  <2>8. Now(m) = "exchange"
    BY <1>4, <2>7 DEF Now
  <2>9. Fits(m)
    BY <1>1, <1>3, <1>4, <1>7, <2>2, <2>4, <2>7, <2>8 DEF Fits
  <2>10. Known' = Known /\ Born' = Born /\ Given' = Given
    BY DEF Known, Born, Given, registrationForCallback
  <2>11. /\ pending' \in Maps(1..NumLinks) /\ DOMAIN pending' \subseteq DOMAIN pending
         /\ \A b \in DOMAIN pending' : pending'[b] = pending[b]
    <3>1. pending \in Maps(1..NumLinks)
      BY <1>5 DEF Data
    <3>2. Forget(pending, a) \in Maps(1..NumLinks)
      BY <3>1, ForgetMap
    <3> QED BY <1>10, <3>2 DEF Forget
  <2>12. Data'
    BY <1>5, <2>10, <2>11 DEF Data, registrationForCallback
  <2>13. Grows
    BY <1>5, <2>10 DEF Grows, registrationForCallback, Data
  <2>14. Created'
    BY <1>5, <2>10, <2>11 DEF Created, registrationForCallback
  <2>15. Fits(m)'
    BY <1>5, <2>9, <2>12, <2>13, FitsGrow
  <2>16. Paired'
    <3>1. \A c : ~Carries(m, c)
      BY <2>8 DEF Carries
    <3>2. UNCHANGED <<spent, rows, removed>>
      BY DEF registrationForCallback
    <3> QED BY <1>5, <2>7, <2>12, <2>13, <3>1, <3>2, PairedQuiet
  <2>17. ASSUME ~disturbed PROVE RowsSigned' /\ OneUnasked' /\ Reports(m)'
    <3>1. Reports(m)'
      BY <1>3, <1>4, <1>6, <2>7, <2>8, <2>17
         DEF Reports, Creds, Pointed, Repoint, Now, registrationForCallback
    <3> QED BY <1>3, <2>17, <3>1 DEF RowsSigned, OneUnasked, registrationForCallback
  <2>18. disturbed' = disturbed
    BY DEF registrationForCallback
  <2> QED BY <1>1, <1>3, <2>7, <2>12, <2>13, <2>14, <2>15, <2>16, <2>17, <2>18, Advance
<1>11. \/ End(r) /\ UNCHANGED pending
       \/ a \notin DOMAIN pending /\ l.link # 0 /\ Done(r) /\ UNCHANGED pending
       \/ /\ a \in DOMAIN pending /\ pending' = Forget(pending, a)
          /\ Step(r, [l EXCEPT !.link = pending[a]])
  BY <1>1, <1>7 DEF registrationForCallback, Me
<1> QED BY <1>8, <1>9, <1>10, <1>11

(* Authenticate: the code of a link is taken once, so nobody holds its     *)
(* credentials yet.                                                        *)
LEMMA AuthenticateKeeps ==
    ASSUME Inv, NEW r \in Requests, Authenticate(r)
    PROVE  Inv'
<1>1. PICK l \in Local : l = req[r] /\ l.todo # <<>> /\ Now(l) = "exchange"
  BY DEF Inv, Types, Authenticate, At, Me, Now
<1>2. PICK t : t = Tail(l.todo)
  OBVIOUS
<1>3. /\ Fits(l) /\ l.op \in Ops /\ t \in Seq(Steps) /\ Planned(l.op, t)
      /\ t # <<>> /\ Follows(l.op, "exchange", Head(t))
      /\ ~disturbed => Reports(l) /\ RowsSigned /\ OneUnasked
  BY <1>1, <1>2, StepFacts DEF Ends
<1>4. l.op = "callback" /\ Head(t) = "get"
  BY <1>3 DEF Follows
<1>5. Data /\ Created /\ AllFit /\ Paired /\ req \in [Requests -> Local]
  BY DEF Inv, Types
<1>6. ~disturbed => clients = Creds /\ Pointed
  BY <1>1, <1>3 DEF Reports, Soon
<1>7. CASE End(r) /\ UNCHANGED spent
  BY <1>1, <1>6, <1>7, EndQuiet DEF Authenticate
<1>8. CASE l.link \notin spent /\ spent' = spent \cup {l.link} /\ Done(r)
  <2>1. PICK f : f = l.link
    OBVIOUS
  <2>2. f \in 1..Len(links) /\ links[f] \in {l.acct, 0} /\ f \notin {0, Legacy} /\ f \notin Given
    <3>1. f # 0 /\ f \in 0..Len(links) /\ links[f] \in {l.acct, 0}
      BY <1>1, <1>3, <1>4, <2>1 DEF Fits
    <3>2. Len(links) \in Nat /\ Len(links) <= NumLinks
      BY <1>5 DEF Data
    <3>3. f # Legacy
      BY <3>1, <3>2, AccountsAssumption DEF Legacy
    <3> QED BY <1>8, <2>1, <3>1, <3>2, <3>3 DEF Given
  <2>3. Then(r, t, l)
    BY <1>1, <1>2, <1>8 DEF Done, Step, Tail1, Me
  <2>4. PICK m \in Local :
          /\ req' = [req EXCEPT ![r] = m] /\ m.todo = t /\ m.op = l.op /\ m.acct = l.acct
          /\ m.market = l.market /\ m.link = l.link /\ m.seen = l.seen /\ m.list = l.list
    BY <1>3, <2>3, NextLocal
  <2>5. Now(m) = "get"
    BY <1>4, <2>4 DEF Now
  <2>6. Known' = Known /\ Born' = Born /\ Given \subseteq Given' /\ spent' = spent \cup {f}
    BY <1>8, <2>1 DEF Known, Born, Given, Authenticate
  <2>7. Data'
    BY <1>5, <2>2, <2>6 DEF Data, Authenticate
  <2>8. Grows
    BY <1>5, <2>6 DEF Grows, Authenticate, Data
  <2>9. Created'
    BY <1>5, <2>6 DEF Created, Authenticate
  <2>10. Fits(m)'
    <3>1. /\ m.acct \in {0} \cup Known' /\ m.seen.creds \in Given'
          /\ DOMAIN m.list \subseteq Known' /\ \A a \in DOMAIN m.list : m.list[a] \in Given'
      BY <1>3, <2>4, <2>6 DEF Fits
    <3>2. m.acct # 0 /\ m.market \in Markets /\ Now(m)' = "get"
      BY <1>1, <1>3, <1>4, <2>4, <2>5 DEF Fits, Now
    <3>3. m.link = f /\ f # 0 /\ f \in 0..Len(links') /\ f \in spent' /\ links'[f] \in {m.acct, 0}
      BY <2>1, <2>2, <2>4, <2>6 DEF Authenticate
    <3> QED BY <1>3, <1>4, <2>4, <3>1, <3>2, <3>3 DEF Fits, Planned
  <2>11. Paired'
    <3>1. ASSUME NEW c \in spent, NEW a, Holder(a, c)'
          PROVE  Holder(a, c)
      <4>1. CASE a \in DOMAIN rows' /\ rows'[a].creds = c
        BY <4>1 DEF Holder, Authenticate
      <4>2. CASE \E q \in Requests : req'[q].acct = a /\ Carries(req'[q], c)
        <5>1. PICK q \in Requests : req'[q].acct = a /\ Carries(req'[q], c)
          BY <4>2
        <5>2. CASE q = r
          <6>1. req'[q] = m
            BY <1>5, <2>4, <5>2
          <6>2. Carries(m, c)
            BY <5>1, <6>1
          <6>3. m.link = c
            BY <1>4, <2>4, <6>2 DEF Carries
          <6> QED BY <1>8, <2>4, <3>1, <6>3
        <5>3. CASE q # r
          <6>1. req'[q] = req[q]
            BY <1>5, <2>4, <5>3
          <6> QED BY <5>1, <6>1 DEF Holder
        <5> QED BY <5>2, <5>3
      <4> QED BY <3>1, <4>1, <4>2 DEF Holder, Carries, Now
    <3>2. ASSUME NEW a, Holder(a, f)'
          PROVE  a = l.acct
      <4>1. CASE a \in DOMAIN rows' /\ rows'[a].creds = f
        <5>1. a \in DOMAIN rows /\ rows[a].creds = f
          BY <4>1 DEF Authenticate
        <5> QED BY <1>5, <2>2, <5>1 DEF Created
      <4>2. CASE \E q \in Requests : req'[q].acct = a /\ Carries(req'[q], f)
        <5>1. PICK q \in Requests : req'[q].acct = a /\ Carries(req'[q], f)
          BY <4>2
        <5>2. CASE q = r
          BY <1>5, <2>4, <5>1, <5>2
        <5>3. CASE q # r
          <6>1. PICK k \in Local : k = req[q]
            BY <1>5
          <6>2. req'[q] = k /\ Fits(k)
            BY <1>5, <2>4, <5>3, <6>1 DEF AllFit
          <6>3. Carries(k, f)
            BY <5>1, <6>2
          <6>4. k.todo # <<>> /\ k.seen.creds \in Given
            BY <6>2, <6>3 DEF Fits, Carries
          <6>5. k.op = "callback" /\ Now(k) \in {"get", "put"} /\ k.link = f
            BY <2>2, <6>3, <6>4 DEF Carries
          <6>6. f \in spent
            BY <6>2, <6>4, <6>5 DEF Fits
          <6> QED BY <2>2, <6>6 DEF Given
        <5> QED BY <5>2, <5>3
      <4> QED BY <3>2, <4>1, <4>2 DEF Holder, Carries, Now
    <3>3. ASSUME NEW c \in spent', NEW a \in 0..NumAccounts, Holder(a, c)'
          PROVE  /\ links'[c] \in {a, 0}
                 /\ c \in removed' => a \notin DOMAIN rows'
                 /\ \A b \in 0..NumAccounts : Holder(b, c)' => a = b
      <4>1. CASE c \in spent
        <5>1. Holder(a, c)
          BY <3>1, <3>3, <4>1
        <5>2. \A b \in 0..NumAccounts : Holder(b, c)' => a = b
          <6> SUFFICES ASSUME NEW b \in 0..NumAccounts, Holder(b, c)' PROVE a = b
            OBVIOUS
          <6>1. Holder(b, c)
            BY <3>1, <4>1
          <6> QED BY <1>5, <4>1, <5>1, <6>1 DEF Paired
        <5> QED BY <1>5, <4>1, <5>1, <5>2 DEF Paired, Authenticate
      <4>2. CASE c \notin spent
        <5>1. c = f
          BY <2>6, <3>3, <4>2
        <5>2. a = l.acct
          BY <3>2, <3>3, <5>1
        <5>3. c \notin removed'
          BY <1>5, <2>2, <5>1 DEF Data, Given, Authenticate
        <5>4. \A b \in 0..NumAccounts : Holder(b, c)' => a = b
          BY <3>2, <5>1, <5>2
        <5> QED BY <2>2, <5>1, <5>2, <5>3, <5>4 DEF Authenticate
      <4> QED BY <4>1, <4>2
    <3> QED BY <3>3 DEF Paired
  <2>12. ASSUME ~disturbed PROVE RowsSigned' /\ OneUnasked' /\ Reports(m)'
    <3>1. Reports(m)'
      BY <1>3, <1>4, <1>6, <2>4, <2>5, <2>12
         DEF Reports, Creds, Pointed, Repoint, Now, Authenticate
    <3> QED BY <1>3, <2>12, <3>1 DEF RowsSigned, OneUnasked, Authenticate
  <2>13. disturbed' = disturbed
    BY DEF Authenticate
  <2> QED BY <1>1, <1>3, <2>4, <2>7, <2>8, <2>9, <2>10, <2>11, <2>12, <2>13, Advance
<1> QED BY <1>1, <1>7, <1>8 DEF Authenticate, Me

-----------------------------------------------------------------------------
(* A step that fails, and a restart *)

(* Spending from the budget leaves a budget.                               *)
LEMMA BudgetKept ==
    ASSUME Data, NEW k \in Events \ {"any"}, Spend(k)
    PROVE  budget' \in [Events -> Nat]
<1>1. budget \in [Events -> Nat] /\ "any" \in Events
  BY DEF Data, Events
<1>2. budget[k] \in Nat \ {0} /\ budget["any"] \in Nat \ {0}
  BY <1>1 DEF Spend
<1>3. budget' = [budget EXCEPT ![k] = budget[k] - 1, !["any"] = budget["any"] - 1]
  BY DEF Spend
<1> QED BY <1>1, <1>2, <1>3

(* StepFails: a step on the database fails, and the history is disturbed.  *)
LEMMA FailsKeeps ==
    ASSUME Inv, NEW r \in Requests, StepFails(r)
    PROVE  Inv'
<1>1. PICK l \in Local : l = req[r] /\ l.todo # <<>>
                         /\ Now(l) \in {"create", "delete", "put", "setting", "list"}
  BY DEF Inv, Types, StepFails, Me, Now
<1>2. PICK t : t = Tail(l.todo)
  OBVIOUS
<1>3. /\ Fits(l) /\ l.op \in Ops /\ t \in Seq(Steps) /\ Planned(l.op, t)
      /\ t # <<>> /\ Follows(l.op, Now(l), Head(t))
  BY <1>1, <1>2, StepFacts DEF Ends
<1>4. Data /\ Created /\ AllFit /\ Paired /\ req \in [Requests -> Local]
  BY DEF Inv, Types
<1>5. PICK u : u = CASE Now(l) = "list" -> Tail(t)
                     [] Now(l) = "put" /\ l.op \in {"start", "market", "setup"} -> t
                     [] Now(l) = "setting" /\ l.op # "market" -> t
                     [] Now(l) = "create" /\ l.op = "wizard" -> <<"remember">>
                     [] OTHER -> <<>>
  OBVIOUS
<1>6. Then(r, u, l) /\ disturbed' = TRUE
  BY <1>1, <1>2, <1>5 DEF StepFails, Tail1, Me, Now
<1>7. /\ u \in Seq(Steps) /\ Planned(l.op, u)
      /\ u # <<>> =>
            /\ l.op # "none" /\ Head(u) \in {"repoint", "remember", "list", "ensure"}
            /\ l.op = "callback" => Head(u) = "repoint" /\ Now(l) = "list"
  <2>1. CASE Now(l) = "list"
    <3>1. u = Tail(t) /\ Head(t) = "swap"
      BY <1>3, <1>5, <2>1 DEF Follows
    <3>2. u \in Seq(Steps) /\ Planned(l.op, u) /\ u # <<>> /\ Follows(l.op, "swap", Head(u))
      BY <1>3, <3>1, TailPlanned DEF Ends
    <3> QED BY <1>3, <2>1, <3>2 DEF Follows, Ops
  <2>2. CASE Now(l) = "put" /\ l.op \in {"start", "market", "setup"}
    <3>1. u = t
      BY <1>5, <2>2
    <3> QED BY <1>3, <2>2, <3>1 DEF Follows
  <2>3. CASE Now(l) = "setting" /\ l.op # "market"
    <3>1. u = t
      BY <1>5, <2>3
    <3> QED BY <1>3, <2>3, <3>1 DEF Follows, Ops
  <2>4. CASE Now(l) = "create" /\ l.op = "wizard"
    <3>1. u = <<"remember">>
      BY <1>5, <2>4
    <3> QED BY <2>4, <3>1, RememberPlanned
  <2>5. CASE /\ Now(l) # "list" /\ (Now(l) = "put" => l.op \notin {"start", "market", "setup"})
             /\ Now(l) = "setting" => l.op = "market"
             /\ Now(l) = "create" => l.op # "wizard"
    <3>1. u = <<>>
      BY <1>5, <2>5
    <3> QED BY <3>1 DEF Planned
  <2> QED BY <2>1, <2>2, <2>3, <2>4, <2>5
<1>8. PICK m \in Local :
         /\ req' = [req EXCEPT ![r] = m]
         /\ u = <<>> => m = Closed /\ m.todo = <<>>
         /\ u # <<>> =>
              /\ m.todo = u /\ m.op = l.op /\ m.acct = l.acct
              /\ m.market = l.market /\ m.link = l.link /\ m.seen = l.seen /\ m.list = l.list
  BY <1>6, <1>7, NextLocal
<1>9. (m.todo = <<>> => m = Closed)
      /\ (m.todo # <<>> => Now(m) \in {"repoint", "remember", "list", "ensure"})
  BY <1>7, <1>8 DEF Now
<1>10. Fits(m)
  <2>1. CASE u = <<>>
    BY <1>4, <1>8, <2>1, ClosedFits
  <2>2. CASE u # <<>>
    BY <1>1, <1>3, <1>7, <1>8, <1>9, <2>2 DEF Fits
  <2> QED BY <2>1, <2>2
<1>11. Known' = Known /\ Born' = Born /\ Given' = Given
  BY DEF Known, Born, Given, StepFails
<1>12. Data'
  <2>1. budget' \in [Events -> Nat]
    BY <1>4, BudgetKept DEF StepFails, Events
  <2> QED BY <1>4, <1>6, <1>11, <2>1 DEF Data, StepFails
<1>13. Grows
  BY <1>4, <1>11 DEF Grows, StepFails, Data
<1>14. Created'
  BY <1>4, <1>11 DEF Created, StepFails
<1>15. Fits(m)'
  BY <1>4, <1>10, <1>12, <1>13, FitsGrow
<1>16. AllFit' /\ req' \in [Requests -> Local]
  BY <1>4, <1>8, <1>12, <1>13, <1>15, AllFitMove
<1>17. Paired'
  <2>1. \A c : ~Carries(m, c)
    BY <1>9 DEF Carries
  <2>2. UNCHANGED <<spent, rows, removed>>
    BY DEF StepFails
  <2> QED BY <1>4, <1>8, <1>12, <1>13, <2>1, <2>2, PairedQuiet
<1>18. Right'
  BY <1>6 DEF Right
<1> QED BY <1>12, <1>14, <1>16, <1>17, <1>18 DEF Inv, Types

(* Boot.                                                                   *)
LEMMA BootKeeps ==
    ASSUME Inv, Boot
    PROVE  Inv'
<1>1. Data /\ Created /\ AllFit /\ Paired /\ Right /\ req \in [Requests -> Local]
  BY DEF Inv, Types
<1>2. /\ rows' \in Maps(Row) /\ signed' \in Maps(0..Legacy)
      /\ DOMAIN rows' \subseteq DOMAIN signed' /\ added \subseteq Ids
      /\ Born' \in 0..NumAccounts /\ Known' = 1..Born' /\ Known \subseteq Known'
      /\ \A a \in DOMAIN rows' :
            \/ a \in DOMAIN rows /\ rows'[a] = rows[a] /\ signed'[a] = signed[a]
            \/ DOMAIN rows' = {a} /\ a \in 1..NumAccounts /\ a \notin Known
               /\ rows'[a].creds = Legacy /\ signed'[a] = Legacy
  <2>1. rows \in Maps(Row) /\ signed \in Maps(0..Legacy) /\ DOMAIN rows \subseteq DOMAIN signed
        /\ added \subseteq Ids /\ Born \in 0..NumAccounts /\ Known = 1..Born /\ setting \in Markets
    BY <1>1 DEF Data, Created, Known
  <2>2. CASE Synthesizes
    <3>1. PICK id : id = Born + 1
      OBVIOUS
    <3>2. id \in Ids /\ id \notin Known /\ Born \in Nat /\ 1..(Born + 1) = Known \cup {id}
          /\ Born + 1 \in 0..NumAccounts
      BY <2>1, <2>2, <3>1, AccountsAssumption DEF Synthesizes, Ids
    <3>3. PICK w : w = [creds |-> Legacy, market |-> setting]
      OBVIOUS
    <3>4. w \in Row /\ w.creds = Legacy /\ Legacy \in 0..Legacy
      BY <2>1, <3>3, AccountsAssumption DEF Row, Legacy
    <3>5. rows' = With(rows, id, w) /\ signed' = With(signed, id, Legacy)
      BY <2>2, <3>1, <3>3 DEF Boot
    <3>6. With(rows, id, w) \in Maps(Row) /\ With(signed, id, Legacy) \in Maps(0..Legacy)
      <4>1. With(rows, id, w) \in Maps(Row)
        BY <2>1, <3>2, <3>4, WithMap
      <4>2. With(signed, id, Legacy) \in Maps(0..Legacy)
        BY <2>1, <3>2, <3>4, WithMap
      <4> QED BY <4>1, <4>2
    <3>7. DOMAIN rows' = {id} /\ rows'[id] = w
      BY <2>2, <3>5 DEF With, Synthesizes
    <3>8. DOMAIN signed' = 1..(Born + 1) /\ signed'[id] = Legacy
      BY <3>2, <3>5 DEF With, Known
    <3>9. Cardinality(DOMAIN signed') = Born + 1
      BY <3>2, <3>8, Counted
    <3>10. Born' = Born + 1 /\ Known' = 1..(Born + 1)
      BY <3>8, <3>9 DEF Born, Known
    <3>11. id \in 1..NumAccounts
      BY <3>2 DEF Ids
    <3> QED BY <2>1, <3>2, <3>4, <3>5, <3>6, <3>7, <3>8, <3>10, <3>11 DEF Known
  <2>3. CASE ~Synthesizes
    <3>1. rows' = rows /\ signed' = signed
      BY <2>3 DEF Boot
    <3>2. Born' = Born /\ Known' = Known
      BY <3>1 DEF Born, Known
    <3> QED BY <2>1, <3>1, <3>2
  <2> QED BY <2>2, <2>3
<1>3. clients' = Creds' /\ audible' = Repoint(clients', NoClient)
  BY DEF Boot, Creds
<1>4. /\ clients' \in Maps(0..Legacy) /\ DOMAIN clients' = DOMAIN rows'
      /\ \A a \in DOMAIN clients' : clients'[a] = rows'[a].creds
  <2>1. DOMAIN rows' \subseteq Ids /\ \A a \in DOMAIN rows' : rows'[a] \in Row
    BY <1>2, MapIs
  <2>2. Creds' \in [DOMAIN rows' -> 0..Legacy]
    BY <2>1 DEF Creds, Row
  <2>3. Creds' \in Maps(0..Legacy)
    BY <2>1, <2>2, IsMap
  <2> QED BY <1>3, <2>3 DEF Creds
<1>5. audible' \in [acct : 0..NumAccounts, creds : 0..Legacy]
      /\ audible'.acct \in {0} \cup DOMAIN clients'
  <2>1. CASE DOMAIN clients' = {}
    <3>1. audible' = [acct |-> 0, creds |-> 0]
      BY <1>3, <2>1 DEF Repoint, NoClient
    <3> QED BY <3>1, AccountsAssumption DEF Legacy
  <2>2. CASE DOMAIN clients' # {}
    <3>1. DOMAIN clients' \subseteq Ids /\ Ids \subseteq Nat /\ Ids \subseteq 0..NumAccounts
      BY <1>4, MapIs, AccountsAssumption DEF Ids
    <3>2. PICK p : p = Primary(DOMAIN clients')
      OBVIOUS
    <3>3. p \in DOMAIN clients'
      BY <2>2, <3>1, <3>2, LeastIn
    <3>4. clients'[p] \in 0..Legacy
      BY <1>4, <3>3, MapIs
    <3>5. audible' = [acct |-> p, creds |-> clients'[p]]
      BY <1>3, <2>2, <3>2 DEF Repoint
    <3> QED BY <3>1, <3>3, <3>4, <3>5
  <2> QED BY <2>1, <2>2
<1>6. /\ pending' = Nothing /\ pending' \in Maps(1..NumLinks) /\ DOMAIN pending' = {}
  <2>1. pending' = Nothing
    BY DEF Boot
  <2> QED BY <2>1, EmptyMap
<1>7. disturbed' = (disturbed \/ ~IdleNow) /\ disturbed' \in BOOLEAN
  BY <1>1 DEF Boot, Data
<1>8. Data'
  <2>1. budget' \in [Events -> Nat]
    BY <1>1, BudgetKept DEF Boot, Events
  <2> QED BY <1>1, <1>2, <1>4, <1>5, <1>6, <1>7, <2>1 DEF Data, Boot
<1>9. Given' = Given /\ spent' = spent /\ links' = links /\ removed' = removed /\ added' = added
  BY DEF Given, Boot
<1>10. Created'
  <2>1. \A a \in DOMAIN rows' : rows'[a].creds \in Given
    BY <1>1, <1>2 DEF Created, Given
  <2> QED BY <1>1, <1>2, <1>4, <1>5, <1>6, <1>9, <2>1 DEF Created, Known
<1>11. req' = [q \in Requests |-> Closed]
  BY DEF Boot
<1>12. req' \in [Requests -> Local] /\ \A q \in Requests : req'[q] = Closed
  BY <1>1, <1>11, ClosedFits
<1>13. Grows
  BY <1>1, <1>2, <1>9 DEF Grows, Data
<1>14. AllFit'
  <2>1. Fits(Closed)'
    BY <1>1, <1>8, <1>13, ClosedFits, FitsGrow
  <2> QED BY <1>12, <2>1 DEF AllFit
<1>15. Paired'
  <2>1. ASSUME NEW c \in spent, NEW a, Holder(a, c)'
        PROVE  a \in DOMAIN rows' /\ a \in DOMAIN rows /\ rows[a].creds = c
    <3>1. \A q \in Requests : ~Carries(req'[q], c)
      BY <1>1, <1>12, ClosedFits
    <3>2. a \in DOMAIN rows' /\ rows'[a].creds = c
      BY <2>1, <3>1 DEF Holder, Carries, Now
    <3>3. c # Legacy
      BY <1>1, AccountsAssumption DEF Data, Legacy
    <3> QED BY <1>2, <3>2, <3>3
  <2>2. ASSUME NEW c \in spent', NEW a \in 0..NumAccounts, Holder(a, c)'
        PROVE  /\ links'[c] \in {a, 0}
               /\ c \in removed' => a \notin DOMAIN rows'
               /\ \A b \in 0..NumAccounts : Holder(b, c)' => a = b
    <3>1. c \in spent /\ Holder(a, c) /\ a \in DOMAIN rows
      BY <1>9, <2>1, <2>2 DEF Holder
    <3>2. links[c] \in {a, 0} /\ c \notin removed
      BY <1>1, <3>1 DEF Paired
    <3>3. \A b \in 0..NumAccounts : Holder(b, c)' => a = b
      <4> SUFFICES ASSUME NEW b \in 0..NumAccounts, Holder(b, c)' PROVE a = b
        OBVIOUS
      <4>1. Holder(b, c)
        BY <2>1, <3>1 DEF Holder
      <4> QED BY <1>1, <3>1, <4>1 DEF Paired
    <3> QED BY <1>9, <3>2, <3>3
  <2> QED BY <2>2 DEF Paired
<1>16. Right'
  <2> SUFFICES ASSUME ~disturbed' PROVE Right'
    BY DEF Right
  <2>1. RowsSigned /\ OneUnasked
    BY <1>1, <1>7 DEF Right
  <2>2. RowsSigned'
    BY <1>2, <2>1 DEF RowsSigned
  <2>3. OneUnasked'
    <3>1. CASE DOMAIN rows' \subseteq DOMAIN rows
      <4>1. PICK x \in 0..NumAccounts : DOMAIN rows \ added \subseteq {x}
        BY <2>1 DEF OneUnasked
      <4>2. DOMAIN rows' \ added' \subseteq {x}
        BY <1>9, <3>1, <4>1
      <4> QED BY <4>2 DEF OneUnasked
    <3>2. CASE ~(DOMAIN rows' \subseteq DOMAIN rows)
      <4>1. PICK a : a \in 1..NumAccounts /\ DOMAIN rows' = {a}
        BY <1>2, <3>2
      <4>2. a \in 0..NumAccounts /\ DOMAIN rows' \ added' \subseteq {a}
        BY <4>1, AccountsAssumption
      <4> QED BY <4>2 DEF OneUnasked
    <3> QED BY <3>1, <3>2
  <2>4. Pointed'
    BY <1>3 DEF Pointed, Repoint
  <2>5. Reports(Closed)'
    BY <1>1, <1>3, <2>4, ClosedFits DEF Reports
  <2> QED BY <1>12, <2>2, <2>3, <2>5 DEF Right
<1> QED BY <1>8, <1>10, <1>12, <1>14, <1>15, <1>16 DEF Inv, Types

-----------------------------------------------------------------------------
(* A request begins *)

(* A request that begins with a plan keeps the invariant.                  *)
LEMMA BeginKeeps ==
    ASSUME Inv, NEW r \in Requests, NEW k \in Ops, NEW p \in Seq(Steps), NEW n \in Local,
           Begin(r, k, p, n), Planned(k, p),
           UNCHANGED <<rows, setting, file, clients, audible, pending, spent, links,
                       added, removed, signed>>,
           n.seen = NoRow, n.list = Nothing, n.acct \in {0} \cup Known,
           k \in {"add", "region", "market", "setup", "start"} => n.market \in Markets,
           p # <<>> => Head(p) \in {"create", "delete", "get", "setting", "ensure", "look"},
           k = "callback" /\ p # <<>> =>
              /\ Head(p) = "look" /\ n.acct # 0 /\ n.link \in 0..Len(links)
              /\ n.link # 0 => links[n.link] \in {n.acct, 0},
           p # <<>> /\ Head(p) = "create" /\ k # "add" => DOMAIN clients = {}
    PROVE  Inv'
<1>1. Data /\ Created /\ AllFit /\ Paired /\ Right /\ req \in [Requests -> Local]
  BY DEF Inv, Types
<1>2. PICK m \in Local :
         /\ req' = [req EXCEPT ![r] = m]
         /\ p = <<>> => m = Closed /\ m.todo = <<>>
         /\ p # <<>> =>
              /\ m.todo = p /\ m.op = k /\ m.acct = n.acct /\ m.market = n.market
              /\ m.link = n.link /\ m.seen = NoRow /\ m.list = Nothing
  <2>1. CASE p = <<>>
    <3>1. req' = [req EXCEPT ![r] = Closed]
      BY <2>1 DEF Begin
    <3> QED BY <1>1, <2>1, <3>1, ClosedFits
  <2>2. CASE p # <<>>
    <3>1. PICK m : m = [n EXCEPT !.op = k, !.todo = p]
      OBVIOUS
    <3>2. /\ m \in Local /\ m.todo = p /\ m.op = k /\ m.acct = n.acct
          /\ m.market = n.market /\ m.link = n.link /\ m.seen = n.seen /\ m.list = n.list
      BY <3>1 DEF Local
    <3>3. req' = [req EXCEPT ![r] = m]
      BY <2>2, <3>1 DEF Begin
    <3> QED BY <2>2, <3>2, <3>3
  <2> QED BY <2>1, <2>2
<1>3. p # <<>> => Now(m) = Head(p)
  BY <1>2 DEF Now
<1>4. Fits(m)
  <2>1. CASE p = <<>>
    BY <1>1, <1>2, <2>1, ClosedFits
  <2>2. CASE p # <<>>
    <3>1. DOMAIN Nothing = {} /\ NoRow.creds \in Given /\ k # "none"
      BY EmptyMap DEF NoRow, Given, Ops
    <3> QED BY <1>2, <1>3, <2>2, <3>1 DEF Fits
  <2> QED BY <2>1, <2>2
<1>5. Known' = Known /\ Born' = Born /\ Given' = Given
  BY DEF Known, Born, Given
<1>6. disturbed' = (disturbed \/ ~IdleNow) /\ disturbed' \in BOOLEAN /\ req[r] = Closed
  BY <1>1 DEF Begin, Data
<1>7. Data'
  <2>1. budget' \in [Events -> Nat]
    <3>1. k \in Events \ {"any"}
      BY DEF Ops, Events
    <3> QED BY <1>1, <3>1, BudgetKept DEF Begin
  <2> QED BY <1>1, <1>5, <1>6, <2>1 DEF Data
<1>8. Grows
  BY <1>1, <1>5 DEF Grows, Data
<1>9. Fits(m)'
  BY <1>1, <1>4, <1>7, <1>8, FitsGrow
<1>10. AllFit' /\ req' \in [Requests -> Local]
  BY <1>1, <1>2, <1>7, <1>8, <1>9, AllFitMove
<1>11. Created'
  BY <1>1, <1>5 DEF Created
<1>12. Paired'
  <2>1. \A c : ~Carries(m, c)
    BY <1>2, <1>3 DEF Carries
  <2> QED BY <1>1, <1>2, <1>7, <1>8, <2>1, PairedQuiet
<1>13. Right'
  <2>1. ASSUME ~disturbed, IdleNow PROVE Reports(m)
    <3>1. Reports(Closed)
      BY <1>1, <2>1 DEF Right
    <3>2. clients = Creds /\ Pointed
      BY <1>1, <3>1, ClosedFits DEF Reports
    <3>3. DOMAIN clients = {} => DOMAIN rows = {}
      BY <3>2 DEF Creds
    <3> QED BY <1>2, <1>3, <3>2, <3>3 DEF Reports
  <2> QED BY <1>1, <1>2, <1>6, <2>1, RightBegin DEF Types
<1> QED BY <1>7, <1>10, <1>11, <1>12, <1>13 DEF Inv, Types

(* Every request begins with a plan, the forms of the accounts page, of    *)
(* the settings and of the wizard and the return of a sign-in.             *)
LEMMA RequestKeeps ==
    ASSUME Inv, NEW r \in Requests, Request(r)
    PROVE  Inv'
<1>1. Data /\ Created /\ Closed \in Local /\ Born \in 0..NumAccounts /\ Known = 1..Born
      /\ setting \in Markets
  BY ClosedFits DEF Inv, Types, Data
<1>2. /\ Closed.seen = NoRow /\ Closed.list = Nothing /\ Closed.acct = 0
      /\ 0 \in 0..NumAccounts
  BY AccountsAssumption DEF Closed
<1>3. \A a \in 0..Born : /\ resolveAccountID(a) \in 0..NumAccounts
                         /\ resolveAccountID(a) \in {0} \cup Known
                         /\ resolveAccountID(a) = 0 => DOMAIN clients = {}
  <2>1. SUFFICES ASSUME NEW a \in 0..Born
                 PROVE  /\ resolveAccountID(a) \in 0..NumAccounts
                        /\ resolveAccountID(a) \in {0} \cup Known
                        /\ resolveAccountID(a) = 0 => DOMAIN clients = {}
    OBVIOUS
  <2>2. /\ PrimaryAccountID \in 0..NumAccounts
        /\ PrimaryAccountID \in {0} \cup DOMAIN clients
        /\ PrimaryAccountID = 0 <=> DOMAIN clients = {}
    BY <1>1, PrimaryFact
  <2>3. DOMAIN clients \subseteq Known
    BY <1>1 DEF Created
  <2>4. a # 0 => a \in Known /\ a \in 0..NumAccounts
    <3>1. Born \in Nat /\ Born <= NumAccounts /\ NumAccounts \in Nat
      BY <1>1, AccountsAssumption
    <3>2. a \in Nat /\ a <= Born
      BY <3>1
    <3> QED BY <1>1, <3>1, <3>2
  <2>5. CASE a = 0
    BY <2>2, <2>3, <2>5 DEF resolveAccountID
  <2>6. CASE a # 0
    BY <2>4, <2>6 DEF resolveAccountID
  <2> QED BY <2>5, <2>6
<1>4. CASE handleAccountAdd(r)
  <2>1. PICK m, p, n :
           /\ m \in Markets
           /\ p = <<"create">> \o Reload \o <<"remember">> /\ n = [Closed EXCEPT !.market = m]
           /\ Begin(r, "add", p, n)
    BY <1>4 DEF handleAccountAdd
  <2>2. /\ n \in Local /\ n.seen = NoRow /\ n.list = Nothing /\ n.acct = 0 /\ n.market = m
    BY <1>1, <1>2, <2>1 DEF Local
  <2>3. p \in Seq(Steps) /\ Head(p) = "create" /\ Planned("add", p)
    BY <2>1, AddPlanned
  <2>4. "add" \in Ops
    BY DEF Ops
  <2> QED BY <1>4, <2>1, <2>2, <2>3, <2>4, BeginKeeps DEF handleAccountAdd
<1>5. CASE handleAccountRemove(r)
  <2>1. PICK a, p, n :
           /\ a \in Ids
           /\ a <= Born /\ p = <<"delete">> \o Reload /\ n = [Closed EXCEPT !.acct = a]
           /\ Begin(r, "remove", p, n)
    BY <1>5 DEF handleAccountRemove
  <2>2. a \in 0..NumAccounts /\ a \in Known
    BY <1>1, <2>1 DEF Ids
  <2>3. /\ n \in Local /\ n.seen = NoRow /\ n.list = Nothing /\ n.acct = a
    BY <1>1, <1>2, <2>1, <2>2 DEF Local
  <2>4. p \in Seq(Steps) /\ Head(p) = "delete" /\ Planned("remove", p)
    BY <2>1, RemovePlanned
  <2>5. "remove" \in Ops
    BY DEF Ops
  <2> QED BY <1>5, <2>1, <2>2, <2>3, <2>4, <2>5, BeginKeeps DEF handleAccountRemove
<1>6. CASE handleAccountRegion(r)
  <2>1. PICK a, m, id, p, n :
           /\ a \in 0..Born /\ m \in Markets
           /\ id = resolveAccountID(a)
           /\ p = (IF id = 0 THEN <<>> ELSE <<"get", "put", "setting">> \o Reload)
           /\ n = [Closed EXCEPT !.acct = id, !.market = m]
           /\ Begin(r, "region", p, n)
    BY <1>6 DEF handleAccountRegion
  <2>2. id \in 0..NumAccounts /\ id \in {0} \cup Known
    BY <1>3, <2>1
  <2>3. /\ n \in Local /\ n.seen = NoRow /\ n.list = Nothing /\ n.acct = id /\ n.market = m
    BY <1>1, <1>2, <2>1, <2>2 DEF Local
  <2>4. p \in Seq(Steps) /\ Planned("region", p) /\ (p # <<>> => Head(p) = "get")
    <3>1. CASE id = 0
      BY <2>1, <3>1 DEF Planned
    <3>2. CASE id # 0
      <4>1. p = <<"get", "put", "setting">> \o Reload
        BY <2>1, <3>2
      <4> QED BY <4>1, RegionPlanned
    <3> QED BY <3>1, <3>2
  <2>5. "region" \in Ops
    BY DEF Ops
  <2> QED BY <1>6, <2>1, <2>2, <2>3, <2>4, <2>5, BeginKeeps DEF handleAccountRegion
<1>7. ASSUME NEW k \in {"market", "setup"}, SelectRegion(r, k)
      PROVE  Inv'
  <2>1. PICK m, p, n :
           /\ m \in Markets
           /\ p = <<"setting", "ensure", "get", "put">> \o Reload
           /\ n = [Closed EXCEPT !.market = m]
           /\ Begin(r, k, p, n)
    BY <1>7 DEF SelectRegion
  <2>2. /\ n \in Local /\ n.seen = NoRow /\ n.list = Nothing /\ n.acct = 0 /\ n.market = m
    BY <1>1, <1>2, <2>1 DEF Local
  <2>3. p \in Seq(Steps) /\ Head(p) = "setting" /\ Planned(k, p)
    BY <2>1, MarketPlanned
  <2>4. k \in Ops
    BY DEF Ops
  <2> QED BY <1>7, <2>1, <2>2, <2>3, <2>4, BeginKeeps DEF SelectRegion
<1>8. CASE handleAuthStart(r)
  <2>1. PICK a, m, id, p, n :
           /\ a \in 0..Born /\ m \in Markets \cup {setting}
           /\ id = resolveAccountID(a)
           /\ p = (IF id = 0 THEN <<"create", "setting">> \o Reload \o <<"remember">>
                             ELSE <<"get", "put", "remember">>)
           /\ n = [Closed EXCEPT !.acct = id, !.market = m]
           /\ Begin(r, "start", p, n)
    BY <1>8 DEF handleAuthStart
  <2>2. id \in 0..NumAccounts /\ id \in {0} \cup Known /\ (id = 0 => DOMAIN clients = {})
        /\ m \in Markets
    BY <1>1, <1>3, <2>1
  <2>3. /\ n \in Local /\ n.seen = NoRow /\ n.list = Nothing /\ n.acct = id /\ n.market = m
    BY <1>1, <1>2, <2>1, <2>2 DEF Local
  <2>4. /\ p \in Seq(Steps) /\ Planned("start", p) /\ Head(p) \in {"create", "get"}
        /\ Head(p) = "create" => id = 0
    <3>1. CASE id = 0
      <4>1. p = <<"create", "setting">> \o Reload \o <<"remember">>
        BY <2>1, <3>1
      <4> QED BY <3>1, <4>1, FirstStartPlanned
    <3>2. CASE id # 0
      <4>1. p = <<"get", "put", "remember">>
        BY <2>1, <3>2
      <4>2. p \in Seq(Steps) /\ Planned("start", p) /\ Head(p) = "get"
        BY <4>1, StartPlanned
      <4> QED BY <4>2
    <3> QED BY <3>1, <3>2
  <2>5. "start" \in Ops
    BY DEF Ops
  <2> QED BY <1>8, <2>1, <2>2, <2>3, <2>4, <2>5, BeginKeeps DEF handleAuthStart
<1>9. CASE renderSetup(r)
  <2>1. PICK p : /\ p = (IF IsAuthenticated THEN <<>> ELSE <<"ensure", "remember">>)
                 /\ Begin(r, "wizard", p, Closed)
    BY <1>9 DEF renderSetup
  <2>2. p \in Seq(Steps) /\ Planned("wizard", p) /\ (p # <<>> => Head(p) = "ensure")
    <3>1. CASE IsAuthenticated
      BY <2>1, <3>1 DEF Planned
    <3>2. CASE ~IsAuthenticated
      <4>1. p = <<"ensure", "remember">>
        BY <2>1, <3>2
      <4> QED BY <4>1, WizardPlanned
    <3> QED BY <3>1, <3>2
  <2>3. "wizard" \in Ops
    BY DEF Ops
  <2> QED BY <1>1, <1>2, <1>9, <2>1, <2>2, <2>3, BeginKeeps DEF renderSetup
<1>10. CASE handleAuthCallback(r)
  <2>1. PICK f, c, id, p, n :
           /\ f \in 0..Len(links) /\ c \in 1..Len(links)
           /\ id = resolveAccountID(IF f = 0 THEN 0 ELSE links[f])
           /\ p = (IF id = 0 THEN <<>>
                   ELSE <<"look", "take", "exchange", "get", "put">> \o Reload)
           /\ n = [Closed EXCEPT !.acct = id, !.link = f, !.code = c]
           /\ Begin(r, "callback", p, n)
    BY <1>10 DEF handleAuthCallback
  <2>2. /\ f \in 0..NumLinks /\ c \in 0..NumLinks
        /\ f # 0 => f \in 1..Len(links) /\ links[f] \in 0..Born
    <3>1. Len(links) \in Nat /\ Len(links) <= NumLinks
      BY <1>1 DEF Data
    <3>2. f # 0 => f \in 1..Len(links)
      BY <2>1, <3>1
    <3>3. f # 0 => links[f] \in {0} \cup Known
      BY <1>1, <3>2 DEF Created
    <3> QED BY <1>1, <2>1, <3>1, <3>2, <3>3, AccountsAssumption
  <2>3. /\ id \in 0..NumAccounts /\ id \in {0} \cup Known
        /\ f # 0 => links[f] \in {id, 0}
    <3>1. CASE f = 0
      <4>1. 0 \in 0..Born
        BY <1>1
      <4> QED BY <1>3, <2>1, <3>1, <4>1
    <3>2. CASE f # 0
      <4>1. links[f] \in 0..Born /\ id = resolveAccountID(links[f])
        BY <2>1, <2>2, <3>2
      <4>2. links[f] # 0 => id = links[f]
        BY <4>1 DEF resolveAccountID
      <4> QED BY <1>3, <4>1, <4>2
    <3> QED BY <3>1, <3>2
  <2>4. /\ n \in Local /\ n.seen = NoRow /\ n.list = Nothing /\ n.acct = id /\ n.link = f
    BY <1>1, <1>2, <2>1, <2>2, <2>3 DEF Local
  <2>5. /\ p \in Seq(Steps) /\ Planned("callback", p)
        /\ p # <<>> => Head(p) = "look" /\ id # 0
    <3>1. CASE id = 0
      BY <2>1, <3>1 DEF Planned
    <3>2. CASE id # 0
      <4>1. p = <<"look", "take", "exchange", "get", "put">> \o Reload
        BY <2>1, <3>2
      <4> QED BY <3>2, <4>1, CallbackPlanned
    <3> QED BY <3>1, <3>2
  <2>6. "callback" \in Ops
    BY DEF Ops
  <2> QED BY <1>10, <2>1, <2>3, <2>4, <2>5, <2>6, BeginKeeps DEF handleAuthCallback
<1> QED BY <1>4, <1>5, <1>6, <1>7, <1>8, <1>9, <1>10
        DEF Request, handleAudibleMarketplaceSelect, handleSetupMarketplace

-----------------------------------------------------------------------------
(* The theorems *)

(* The first start of this version, after an older one or none, satisfies  *)
(* the invariant.                                                          *)
LEMMA InvInit ==
    ASSUME Init
    PROVE  Inv
<1>1. 0 \in 0..Legacy /\ Legacy \in 0..Legacy /\ Legacy # 0 /\ 1 \in Ids /\ Ids = 1..NumAccounts
      /\ 0 \in 0..NumAccounts /\ 1 \in 0..NumAccounts
  BY AccountsAssumption DEF Legacy, Ids
<1>2. PICK D : D = IF file THEN {1} ELSE {}
  OBVIOUS
<1>3. /\ rows \in Maps(Row) /\ DOMAIN rows = D /\ \A a \in D : rows[a].creds = Legacy
  <2>1. CASE file
    <3>1. PICK w : w = [creds |-> Legacy, market |-> setting]
      OBVIOUS
    <3>2. w \in Row /\ w.creds = Legacy
      BY <1>1, <3>1 DEF Init, Row
    <3>3. rows = With(Nothing, 1, w)
      BY <2>1, <3>1 DEF Init
    <3>4. Nothing \in Maps(Row) /\ DOMAIN Nothing = {}
      BY EmptyMap
    <3>5. With(Nothing, 1, w) \in Maps(Row)
      BY <1>1, <3>2, <3>4, WithMap
    <3> QED BY <1>2, <2>1, <3>2, <3>3, <3>4, <3>5 DEF With
  <2>2. CASE ~file
    <3>1. rows = Nothing
      BY <2>2 DEF Init
    <3> QED BY <1>2, <2>2, <3>1, EmptyMap
  <2> QED BY <2>1, <2>2
<1>4. /\ clients \in Maps(0..Legacy) /\ DOMAIN clients = D /\ signed = clients
      /\ \A a \in D : clients[a] = Legacy
  <2>1. clients = [a \in D |-> Legacy] /\ signed = clients /\ D \subseteq Ids
    BY <1>1, <1>2, <1>3 DEF Init
  <2>2. clients \in [D -> 0..Legacy]
    BY <1>1, <2>1
  <2>3. clients \in Maps(0..Legacy)
    BY <2>1, <2>2, IsMap
  <2> QED BY <2>1, <2>3
<1>5. Born \in 0..NumAccounts /\ Known = 1..Born /\ Known = D
  <2>1. CASE file
    <3>1. D = 1..1
      BY <1>2, <2>1
    <3>2. Cardinality(1..1) = 1
      BY Counted
    <3> QED BY <1>1, <1>4, <3>1, <3>2 DEF Born, Known
  <2>2. CASE ~file
    <3>1. D = 1..0
      BY <1>2, <2>2
    <3>2. Cardinality(1..0) = 0
      BY Counted
    <3> QED BY <1>1, <1>4, <3>1, <3>2 DEF Born, Known
  <2> QED BY <2>1, <2>2 DEF Init
<1>6. audible \in [acct : 0..NumAccounts, creds : 0..Legacy] /\ audible.acct \in {0} \cup D
  <2>1. audible = Repoint(clients, NoClient)
    BY DEF Init
  <2>2. CASE D = {}
    <3>1. audible = [acct |-> 0, creds |-> 0]
      BY <1>4, <2>1, <2>2 DEF Repoint, NoClient
    <3> QED BY <1>1, <3>1
  <2>3. CASE D # {}
    <3>1. PICK p : p = Primary(DOMAIN clients)
      OBVIOUS
    <3>2. D = {1} /\ D \subseteq Nat
      BY <1>2, <2>3
    <3>3. p \in D
      BY <1>4, <2>3, <3>1, <3>2, LeastIn
    <3>4. audible = [acct |-> p, creds |-> Legacy]
      BY <1>4, <2>1, <2>3, <3>1, <3>3 DEF Repoint
    <3> QED BY <1>1, <3>2, <3>3, <3>4
  <2> QED BY <2>2, <2>3
<1>7. pending \in Maps(1..NumLinks) /\ DOMAIN pending = {}
  BY EmptyMap DEF Init
<1>8. links = <<>> /\ links \in Seq(0..NumAccounts) /\ Len(links) = 0 /\ Len(links) <= NumLinks
  BY AccountsAssumption DEF Init
<1>9. Data
  BY <1>3, <1>4, <1>5, <1>6, <1>7, <1>8, AccountsAssumption DEF Data, Init
<1>10. Created
  BY <1>3, <1>4, <1>5, <1>6, <1>7, <1>8 DEF Created, Given
<1>11. req \in [Requests -> Local] /\ \A r \in Requests : req[r] = Closed
  BY <1>9, ClosedFits DEF Init
<1>12. AllFit
  BY <1>9, <1>11, ClosedFits DEF AllFit
<1>13. Paired
  BY DEF Paired, Init
<1>14. Right
  <2>1. clients = Creds
    <3>1. Creds = [a \in DOMAIN rows |-> Legacy]
      BY <1>3 DEF Creds
    <3> QED BY <3>1 DEF Init
  <2>2. Pointed
    BY DEF Pointed, Repoint, Init
  <2>3. Reports(Closed)
    BY <1>9, <2>1, <2>2, ClosedFits DEF Reports
  <2>4. RowsSigned
    BY <1>3, <1>4 DEF RowsSigned
  <2>5. OneUnasked
    <3>1. DOMAIN rows \ added \subseteq {1}
      BY <1>2, <1>3
    <3> QED BY <1>1, <3>1 DEF OneUnasked
  <2> QED BY <1>11, <2>3, <2>4, <2>5 DEF Right
<1> QED BY <1>9, <1>10, <1>11, <1>12, <1>13, <1>14 DEF Inv, Types

(* Every step of a request, every failure and every restart keeps the      *)
(* invariant.                                                              *)
LEMMA InvNext ==
    ASSUME Inv, [Next]_vars
    PROVE  Inv'
<1>1. CASE \E r \in Requests : Request(r)
  BY <1>1, RequestKeeps
<1>2. ASSUME NEW r \in Requests, RequestStep(r) PROVE Inv'
  BY <1>2, CreateKeeps, EnsureKeeps, DeleteKeeps, GetAudibleAccountKeeps, UpdateKeeps,
     SetSettingKeeps, ListAccountsKeeps, SwapKeeps, RepointKeeps, RememberKeeps,
     LookRegionKeeps, TakeKeeps, AuthenticateKeeps DEF RequestStep
<1>3. CASE \E r \in Requests : StepFails(r)
  BY <1>3, FailsKeeps
<1>4. CASE Boot
  BY <1>4, BootKeeps
<1>5. CASE UNCHANGED vars
  <2>1. Data' /\ Created' /\ (req \in [Requests -> Local])'
    BY <1>5 DEF vars, Inv, Types, Data, Created, Known, Born, Given
  <2>2. AllFit'
    <3>1. ASSUME NEW r \in Requests PROVE Fits(req[r])'
      <4>1. PICK l \in Local : l = req[r]
        BY DEF Inv, Types
      <4>2. Fits(l) /\ req'[r] = l
        BY <1>5, <4>1 DEF Inv, AllFit, vars
      <4>3. Grows
        BY <1>5 DEF Grows, Known, vars, Inv, Types, Data
      <4>4. Fits(l)'
        BY <2>1, <4>2, <4>3, FitsGrow DEF Inv, Types
      <4> QED BY <4>2, <4>4
    <3> QED BY <3>1 DEF AllFit
  <2>3. Paired'
    BY <1>5 DEF vars, Inv, Paired, Holder, Carries, Now
  <2>4. Right'
    BY <1>5 DEF vars, Inv, Right, RowsSigned, OneUnasked, IdleNow, Reports, Creds, Pointed,
                Repoint, Soon, Now
  <2> QED BY <2>1, <2>2, <2>3, <2>4 DEF Inv, Types
<1> QED BY <1>1, <1>2, <1>3, <1>4, <1>5 DEF Next

(* The inductive invariant holds of every behaviour, for any number of     *)
(* accounts, links, regions and requests and any budget.                   *)
THEOREM AccountsInvariant == Spec => []Inv
<1>1. Init => Inv
  BY InvInit
<1>2. Inv /\ [Next]_vars => Inv'
  BY InvNext
<1> QED BY <1>1, <1>2, PTL DEF Spec

(* Rows, clients and pending sign-ins are of accounts that were created,   *)
(* and what they hold are credentials that a sign-in gave.                 *)
THEOREM AccountsTypeCorrect == Spec => []AccountsTypeOK
<1>1. Inv => AccountsTypeOK
  <2> SUFFICES ASSUME Inv PROVE AccountsTypeOK
    OBVIOUS
  <2>1. Data /\ Created
    BY DEF Inv, Types
  <2>2. DOMAIN signed = 1..Born /\ Born <= NumAccounts
    BY <2>1 DEF Data, Known
  <2>3. ASSUME NEW a \in DOMAIN rows
        PROVE  rows[a].creds \in {0, Legacy} \cup spent /\ rows[a].market \in Markets
    <3>1. rows \in Maps(Row)
      BY <2>1 DEF Data
    <3>2. rows[a] \in Row
      BY <3>1, MapIs
    <3> QED BY <2>1, <3>2 DEF Created, Given, Row
  <2> QED BY <2>1, <2>2, <2>3 DEF AccountsTypeOK, Data, Created, Known, Given
<1> QED BY <1>1, AccountsInvariant, PTL

(* The credentials of an account come from a sign-in that was started for  *)
(* it, whichever requests overlap or fail and whenever the process         *)
(* restarts, and those of an account that was removed do not come back:    *)
(* the exchange of handleAuthCallback (web/server.go) and the writes of    *)
(* whole rows by UpdateAudibleAccount never move credentials from one      *)
(* account to another.                                                     *)
THEOREM SignInsPaired == Spec => []SignInPaired
<1>1. Inv => SignInPaired
  <2> SUFFICES ASSUME Inv, NEW a \in DOMAIN rows, NEW c, c = rows[a].creds
               PROVE  /\ c \in 1..Len(links) => links[c] \in {a, 0}
                      /\ c \notin removed \ {Legacy}
    BY DEF SignInPaired
  <2>1. Data /\ Created /\ Paired
    BY DEF Inv, Types
  <2>2. a \in 0..NumAccounts
    <3>1. a \in Known /\ Known = 1..Born /\ Born \in 0..NumAccounts
      BY <2>1 DEF Created, Data
    <3>2. Born \in Nat /\ Born <= NumAccounts /\ NumAccounts \in Nat
      BY <3>1, AccountsAssumption
    <3> QED BY <3>1, <3>2
  <2>3. CASE c \in spent
    <3>1. Holder(a, c)
      BY DEF Holder
    <3> QED BY <2>1, <2>2, <2>3, <3>1 DEF Paired
  <2>4. CASE c \notin spent
    <3>1. c \in {0, Legacy}
      BY <2>1, <2>4 DEF Created, Given
    <3>2. Len(links) \in Nat /\ Len(links) <= NumLinks /\ removed \subseteq {Legacy} \cup spent
      BY <2>1 DEF Data
    <3>3. c \notin 1..Len(links)
      BY <3>1, <3>2, AccountsAssumption DEF Legacy
    <3> QED BY <2>4, <3>2, <3>3
  <2> QED BY <2>3, <2>4
<1> QED BY <1>1, AccountsInvariant, PTL

(* When no request is in progress, and none overlapped another or failed,  *)
(* every account there is downloads its own books with the credentials of  *)
(* its last sign-in, no account that is gone has a client, and no account  *)
(* was made beside one there was but on request: what Reload               *)
(* (library/accounts.go) and refreshPrimaryAudible leave behind is what    *)
(* the rows say.                                                           *)
THEOREM RightClients == Spec => []RightClient
<1>1. Inv => RightClient
  <2> SUFFICES ASSUME Inv, Settled
               PROVE  /\ \A a \in DOMAIN rows :
                            /\ rows[a].creds = signed[a]
                            /\ ClientForBook(a) = [acct |-> a, creds |-> signed[a]]
                      /\ DOMAIN clients = DOMAIN rows
                      /\ rows # Nothing => audible = ClientForBook(Primary(DOMAIN rows))
                      /\ Cardinality(DOMAIN rows \ added) <= 1
    BY DEF RightClient
  <2>1. Data /\ Created /\ Right /\ IdleNow /\ ~disturbed
    BY DEF Inv, Types, Settled
  <2>2. RowsSigned /\ OneUnasked /\ Reports(Closed)
    BY <2>1 DEF Right
  <2>3. clients = Creds /\ Pointed
    BY <2>1, <2>2, ClosedFits DEF Reports
  <2>4. DOMAIN clients = DOMAIN rows /\ \A a \in DOMAIN rows : clients[a] = rows[a].creds
    BY <2>3 DEF Creds
  <2>5. DOMAIN rows \subseteq Ids /\ Ids \subseteq Nat \ {0} /\ rows \in Maps(Row)
    BY <2>1, MapIs DEF Data, Ids
  <2>6. ASSUME NEW a \in DOMAIN rows
        PROVE  rows[a].creds = signed[a] /\ ClientForBook(a) = [acct |-> a, creds |-> signed[a]]
    <3>1. a # 0 /\ a \in DOMAIN clients /\ clients[a] = signed[a] /\ rows[a].creds = signed[a]
      BY <2>2, <2>4, <2>5 DEF RowsSigned
    <3> QED BY <3>1 DEF ClientForBook
  <2>7. ASSUME rows # Nothing PROVE audible = ClientForBook(Primary(DOMAIN rows))
    <3>1. DOMAIN rows # {}
      <4>1. rows = [a \in DOMAIN rows |-> rows[a]]
        BY <2>5, MapIs
      <4>2. DOMAIN rows = {} => rows = Nothing
        BY <4>1 DEF Nothing
      <4> QED BY <2>7, <4>2
    <3>2. PICK p : p = Primary(DOMAIN rows)
      OBVIOUS
    <3>3. p \in DOMAIN rows
      BY <2>5, <3>1, <3>2, LeastIn
    <3>4. audible = [acct |-> p, creds |-> clients[p]]
      BY <2>3, <2>4, <3>1, <3>2 DEF Pointed, Repoint
    <3>5. clients[p] = signed[p] /\ ClientForBook(p) = [acct |-> p, creds |-> signed[p]]
      BY <2>4, <2>6, <3>3
    <3> QED BY <3>2, <3>4, <3>5
  <2>8. Cardinality(DOMAIN rows \ added) <= 1
    <3>1. PICK x \in 0..NumAccounts : DOMAIN rows \ added \subseteq {x}
      BY <2>2 DEF OneUnasked
    <3>2. IsFiniteSet({x}) /\ Cardinality({x}) = 1
      BY FS_Singleton
    <3>3. Cardinality(DOMAIN rows \ added) <= Cardinality({x})
      BY <3>1, <3>2, FS_Subset
    <3> QED BY <3>2, <3>3
  <2> QED BY <2>4, <2>6, <2>7, <2>8
<1> QED BY <1>1, AccountsInvariant, PTL

=============================================================================
