-------------------------- MODULE HearthShelfProofs --------------------------
(***************************************************************************)
(* Proofs about the destination rows and the HearthShelf connections.      *)
(*                                                                         *)
(* Three invariants, one on top of the other.  HearthShelfInv holds for    *)
(* any number of servers, rows, pushes, requests and connect flows: the    *)
(* types, whose row a copy or a connection names, and that no row is       *)
(* orphaned.  IdentityInv and TokensInv are about one connect flow at a    *)
(* time, beside any number of all the others.                              *)
(***************************************************************************)
EXTENDS HearthShelf, FiniteSetTheorems, WellFoundedInduction, TLAPS

PushPCs    == {"idle", "load", "call", "row", "save"}
EditPCs    == {"idle", "toggle", "rewrite", "delete"}
ConnectPCs == {"idle", "register", "saveapp", "savesecret", "wait", "intro", "get",
               "ensure", "save"}
PCs        == PushPCs \cup EditPCs \cup ConnectPCs

Local == [seen : [RowIds -> RowType], todo : SUBSET RowIds, row : RowIds \cup {NoRow},
          server : Servers \cup {"none"}, list : [Servers -> ConnType],
          intros : SUBSET Servers, new : ConnType, key : Keys, reg : Nat]

(* The types, those of the program's own counters and places included; an  *)
(* event that has happened is never again as rare as at the start.         *)
Tied(c) == c # NoConn => c.dest \in RowIds

Types ==
    /\ revoked \subseteq Servers /\ age \in [Servers -> {"fresh", "due", "lapsed"}]
    /\ apps \in Nat /\ identity \in [app : Nat, secret : Nat]
    /\ rows \in [RowIds -> RowType] /\ conns \in [Servers -> ConnType]
    /\ loc \in [Actors -> Local] /\ pc \in [Actors -> PCs]
    /\ stale \subseteq {v \in Actors : Holds(v)} /\ overwrote \in BOOLEAN
    /\ budget \in [Events -> Nat] /\ \A k \in Events : budget[k] <= Budget[k]

(* What fits an actor at the place l with the locals m in its hands.       *)
HoldsAt(l) == l \in {"call", "row", "save", "intro", "get", "ensure"}
PushFits(l, m) ==
    /\ l \in PushPCs /\ m.new = NoConn
    /\ l # "idle" => m.todo # {} /\ \A r \in m.todo : m.seen[r].there
    /\ l \in {"call", "row", "save"} =>
          m.server \in Servers /\ m.row \in RowIds /\ m.list[m.server].dest = m.row
    /\ l \in {"call", "row"} => m.seen[m.row].there
EditFits(l, m) ==
    /\ l \in EditPCs
    /\ l # "idle" => m.row \in RowIds /\ m.seen[m.row].there
ConnectFits(l, m) ==
    /\ l \in ConnectPCs
    /\ l \notin {"get", "ensure"} => m.server = "none" /\ m.new = NoConn
    /\ l # "ensure" => m.row = NoRow
    /\ l \in {"get", "ensure"} =>
          /\ m.server \in m.intros /\ m.new.dest = m.list[m.server].dest
          /\ m.row \in {NoRow, m.new.dest}
Fits(v, l, m) ==
    /\ v \in Pushes => PushFits(l, m)
    /\ v \in Editors => EditFits(l, m)
    /\ v \in Connectors => ConnectFits(l, m)
    /\ ~HoldsAt(l) => m.server = "none" /\ m.new = NoConn /\ m.list = NoList

(* A row is one server's, or the user's own, once and for all, and what a  *)
(* connection or a copy names is a row of its own server.                  *)
Names(c, s) == Tied(c) /\ (c.dest # NoRow => rows[c.dest].by = s)
SeenTrue(m) ==
    \A r \in RowIds :
       m.seen[r].there => rows[r].by = m.seen[r].by /\ rows[r].by # "none"
ListTrue(m) == \A s \in Servers : Names(m.list[s], s)

RowsNamed  == \A r \in RowIds : rows[r].there => rows[r].by # "none"
ConnsNamed == \A s \in Servers : Names(conns[s], s)
Placed == \A v \in Actors : Fits(v, pc[v], loc[v])
CopiesTrue == \A v \in Actors : SeenTrue(loc[v]) /\ ListTrue(loc[v])

(* A copy that is not stale names the rows that the stored connections     *)
(* name; only a connect flow may have found that a row is gone and made    *)
(* another in its place.                                                   *)
Calm == Spared("db") /\ Spared("crash") /\ ~overwrote
Gone(r) == r = NoRow \/ ~rows[r].there
FollowsAt(v, l, m) ==
    /\ HoldsAt(l) /\ v \notin stale =>
          \A s \in Servers :
             m.list[s].dest = conns[s].dest \/ (v \in Connectors /\ Gone(conns[s].dest))
    /\ v \in Connectors /\ l = "ensure" /\ m.row = NoRow => Gone(m.new.dest)
Follows == Calm => \A v \in Actors : FollowsAt(v, pc[v], loc[v])

HearthShelfInv ==
    /\ Types /\ RowsNamed /\ ConnsNamed /\ Placed /\ CopiesTrue /\ Follows
    /\ NoOrphans

(* One connect flow at a time.                                             *)
OneFlow == \A v, w \in Connectors : v = w

IdentityTrue ==
    /\ identity.secret \in {0, identity.app}
    /\ \A v \in Connectors :
          /\ pc[v] \in {"register", "saveapp", "savesecret"} => identity.secret = 0
          /\ pc[v] = "savesecret" => identity.app = loc[v].reg
          /\ pc[v] \in {"wait", "intro", "get", "ensure", "save"} =>
                identity.app = identity.secret
IdentityInv == Spared("db") => IdentityTrue

(* The tokens of a server, while nothing failed.  Live tokens are those it *)
(* still takes.  Only a connect flow can have a newer token than the       *)
(* stored one, and then no push has a live one; only a connect flow's list *)
(* can name another row than the stored connection; and a copy that is not *)
(* stale has the newest token if the stored connection has it.             *)
Live == {"cur", "prev"}
Newer(m, s, c) ==
    \/ m.list[s].token = "cur" /\ c.token # "cur"
    \/ m.server = s /\ m.new.token = "cur"
FlowHas(m, s, c) ==
    /\ m.list[s].dest # c.dest => m.list[s].token = "cur" /\ c.token # "cur"
    /\ s \in m.intros => m.list[s].dest = c.dest
    /\ m.server = s => m.new.token = "cur"
PushHas(m, s, c) ==
    /\ m.list[s].token \in Live => m.list[s].dest = c.dest
    /\ m.list[s].token = "cur" /\ m.server # s => c.token = "cur"
Spent(s) == conns[s].token \notin Live /\ \A u \in Pushes : loc[u].list[s].token \notin Live

FlowsTrue ==
    \A w \in Connectors, s \in Servers :
       HoldsAt(pc[w]) => /\ FlowHas(loc[w], s, conns[s])
                         /\ Newer(loc[w], s, conns[s]) => Spent(s)
PushesTrue ==
    \A v \in Pushes, s \in Servers : HoldsAt(pc[v]) => PushHas(loc[v], s, conns[s])
UpToDate ==
    \A v \in Actors, s \in Servers :
       HoldsAt(pc[v]) /\ v \notin stale /\ conns[s].token = "cur" =>
          loc[v].list[s].token = "cur"
Kept ==
    \A s \in Servers \ revoked : HasRow(s) => conns[s].token = "cur" \/ InHand(s)

TokensTrue == FlowsTrue /\ PushesTrue /\ UpToDate /\ Kept
TokensInv  == Undisturbed => TokensTrue

-----------------------------------------------------------------------------

(* A connection whose token is replaced is otherwise the same.             *)
LEMMA TokenSet ==
    ASSUME NEW c \in ConnType, NEW t \in Tokens
    PROVE  LET d == [c EXCEPT !.token = t]
           IN  /\ d \in ConnType /\ d.dest = c.dest /\ d.needs = c.needs
               /\ d.life = c.life /\ d.token = t
               /\ t = c.token => d = c
BY DEF ConnType

(* A connection whose lifetime is replaced is otherwise the same.          *)
LEMMA LifeSet ==
    ASSUME NEW c \in ConnType, NEW t \in Lives
    PROVE  LET d == [c EXCEPT !.life = t]
           IN  /\ d \in ConnType /\ d.dest = c.dest /\ d.needs = c.needs
               /\ d.life = t /\ d.token = c.token
               /\ t = c.life => d = c
BY DEF ConnType

(* A renewal writes the lifetime and keeps the row and the token           *)
(* (renew.go:112).                                                         *)
LEMMA RenewedConn ==
    ASSUME NEW c \in ConnType, NEW life \in Lives
    PROVE  /\ Renewed(c, life) \in ConnType /\ Renewed(c, life).dest = c.dest
           /\ Renewed(c, life).token = c.token
<1>1. PICK d : d = [c EXCEPT !.life = life, !.needs = FALSE]
  OBVIOUS
<1>2. d \in ConnType /\ d.dest = c.dest /\ d.token = c.token
  BY <1>1 DEF ConnType
<1> QED BY <1>1, <1>2 DEF Renewed

(* A rotation makes a token one older and leaves dead tokens alone.        *)
LEMMA OlderConn ==
    ASSUME NEW c \in ConnType
    PROVE  /\ Older(c) \in ConnType /\ Older(c).dest = c.dest
           /\ c.token = "cur" => Older(c).token = "prev"
           /\ c.token = "prev" => Older(c).token = "dead"
           /\ c.token \notin Live => Older(c) = c
<1>1. PICK t \in Tokens : t = IF c.token = "cur" THEN "prev"
                            ELSE IF c.token = "prev" THEN "dead" ELSE c.token
  BY DEF ConnType, Tokens
<1>2. Older(c) = [c EXCEPT !.token = t]
  BY <1>1 DEF Older
<1> QED BY <1>1, <1>2, TokenSet DEF Live

(* New credentials end every token there was, and make none where none     *)
(* was.                                                                    *)
LEMMA KilledConn ==
    ASSUME NEW c \in ConnType
    PROVE  /\ Killed(c) \in ConnType /\ Killed(c).dest = c.dest
           /\ Killed(c).token \notin Live
           /\ c.token = "none" => Killed(c) = c
<1>1. PICK t \in Tokens : t = IF c.token = "none" THEN c.token ELSE "dead"
  BY DEF ConnType, Tokens
<1>2. Killed(c) = [c EXCEPT !.token = t]
  BY <1>1 DEF Killed
<1>3. t \notin Live
  BY <1>1 DEF Live
<1> QED BY <1>1, <1>2, <1>3, TokenSet

(* The end of a grace window takes the previous token and never the        *)
(* newest.                                                                 *)
LEMMA EndedConn ==
    ASSUME NEW c \in ConnType
    PROVE  /\ Ended(c) \in ConnType /\ Ended(c).dest = c.dest
           /\ Ended(c).token = "cur" <=> c.token = "cur"
           /\ Ended(c).token \in Live => c.token \in Live
           /\ c.token # "prev" => Ended(c) = c
<1>1. PICK t \in Tokens : t = IF c.token = "prev" THEN "dead" ELSE c.token
  BY DEF ConnType, Tokens
<1>2. Ended(c) = [c EXCEPT !.token = t]
  BY <1>1 DEF Ended
<1>3. (t = "cur" <=> c.token = "cur") /\ (t \in Live => c.token \in Live)
  BY <1>1 DEF Live
<1> QED BY <1>1, <1>2, <1>3, TokenSet

(* Time ages a lifetime and leaves the row and the token.                  *)
LEMMA OverdueConn ==
    ASSUME NEW c \in ConnType
    PROVE  /\ Overdue(c) \in ConnType /\ Overdue(c).dest = c.dest
           /\ Overdue(c).token = c.token
           /\ c.life # "fresh" => Overdue(c) = c
<1>1. PICK t \in Lives : t = IF c.life = "fresh" THEN "due" ELSE c.life
  BY DEF ConnType, Lives
<1>2. Overdue(c) = [c EXCEPT !.life = t]
  BY <1>1 DEF Overdue
<1> QED BY <1>1, <1>2, LifeSet

Alike(m, n) ==
    /\ m.todo = n.todo /\ m.row = n.row /\ m.server = n.server /\ m.intros = n.intros
    /\ m.reg = n.reg /\ m.new.dest = n.new.dest /\ (n.new = NoConn => m.new = NoConn)
    /\ n.list = NoList => m.list = NoList
    /\ \A s \in Servers : /\ m.list[s].dest = n.list[s].dest
                          /\ Tied(n.list[s]) => Tied(m.list[s])
    /\ \A r \in RowIds : /\ m.seen[r].there = n.seen[r].there
                         /\ m.seen[r].by = n.seen[r].by

(* Locals that differ in the copy of one server's connection, with the     *)
(* same row there, are alike.                                              *)
LEMMA CopyAlike ==
    ASSUME NEW l \in Local, NEW m \in Local, NEW s \in Servers,
           m.todo = l.todo, m.row = l.row, m.server = l.server, m.intros = l.intros,
           m.reg = l.reg, m.seen = l.seen, m.new.dest = l.new.dest,
           l.new = NoConn => m.new = NoConn,
           m.list[s].dest = l.list[s].dest, l.list[s] = NoConn => m.list[s] = NoConn,
           \A t \in Servers \ {s} : m.list[t] = l.list[t]
    PROVE  Alike(m, l)
<1>1. l.list \in [Servers -> ConnType] /\ m.list \in [Servers -> ConnType]
  BY DEF Local
<1>2. ASSUME l.list = NoList PROVE m.list = NoList
  <2>1. l.list[s] = NoConn
    BY <1>2 DEF NoList
  <2>2. \A t \in Servers : m.list[t] = NoConn
    BY <1>2, <2>1 DEF NoList
  <2> QED BY <1>1, <2>2 DEF NoList
<1>3. \A t \in Servers : m.list[t].dest = l.list[t].dest
  OBVIOUS
<1>4. \A t \in Servers : Tied(l.list[t]) => Tied(m.list[t])
  BY DEF Tied
<1> QED BY <1>2, <1>3, <1>4 DEF Alike

(* A copy that changes at one server only, and in what was just issued by  *)
(* it, is alike to what it was.                                            *)
With(l, s, c, n) == [l EXCEPT !.list[s] = c, !.new = n]

(* That change of a copy, by name: it stays well typed and alike to what   *)
(* it was.                                                                 *)
LEMMA WithAlike ==
    ASSUME NEW l \in Local, NEW s \in Servers, NEW c \in ConnType, NEW n \in ConnType,
           c.dest = l.list[s].dest, l.list[s] = NoConn => c = NoConn,
           n.dest = l.new.dest, l.new = NoConn => n = NoConn
    PROVE  /\ With(l, s, c, n) \in Local /\ Alike(With(l, s, c, n), l)
           /\ With(l, s, c, n).list[s] = c /\ With(l, s, c, n).new = n
           /\ \A t \in Servers \ {s} : With(l, s, c, n).list[t] = l.list[t]
<1>1. PICK m : m = With(l, s, c, n)
  OBVIOUS
<1>2. m = [l EXCEPT !.list[s] = c, !.new = n]
  BY <1>1 DEF With
<1>3. /\ m \in Local /\ m.todo = l.todo /\ m.row = l.row
      /\ m.server = l.server /\ m.intros = l.intros
      /\ m.reg = l.reg /\ m.seen = l.seen /\ m.new = n
      /\ m.list[s] = c /\ \A t \in Servers \ {s} : m.list[t] = l.list[t]
  BY <1>2 DEF Local
<1>4. Alike(m, l)
  BY <1>3, CopyAlike
<1> QED BY <1>1, <1>3, <1>4

(* What each event does to every copy, by name: the provers do not take an *)
(* operator as an argument.                                                *)
OlderIn(s)   == InCopies(Older, s)
KilledIn(s)  == InCopies(Killed, s)
EndedIn(s)   == InCopies(Ended, s)
OverdueIn(s) == InCopies(Overdue, s)

(* A rotation, in every copy.                                              *)
LEMMA OlderCopies ==
    ASSUME loc \in [Actors -> Local], NEW s \in Servers, NEW L, L = OlderIn(s)
    PROVE  /\ L \in [Actors -> Local]
           /\ \A v \in Actors :
                 /\ Alike(L[v], loc[v])
                 /\ L[v].list[s] = Older(loc[v].list[s])
                 /\ \A t \in Servers \ {s} : L[v].list[t] = loc[v].list[t]
                 /\ L[v].new = IF loc[v].server = s THEN Older(loc[v].new) ELSE loc[v].new
<1>1. ASSUME NEW v \in Actors
      PROVE  /\ L[v] \in Local /\ Alike(L[v], loc[v])
             /\ L[v].list[s] = Older(loc[v].list[s])
             /\ \A t \in Servers \ {s} : L[v].list[t] = loc[v].list[t]
             /\ L[v].new = IF loc[v].server = s THEN Older(loc[v].new) ELSE loc[v].new
  <2>1. PICK l \in Local : l = loc[v]
    OBVIOUS
  <2>2. ASSUME NEW c \in ConnType
        PROVE  Older(c) \in ConnType /\ Older(c).dest = c.dest /\ (c = NoConn => Older(c) = NoConn)
    BY OlderConn DEF NoConn, Live
  <2>3. l.list[s] \in ConnType /\ l.new \in ConnType
    BY DEF Local
  <2>4. PICK c \in ConnType : c = Older(l.list[s])
    BY <2>2, <2>3
  <2>5. PICK n \in ConnType : n = IF l.server = s THEN Older(l.new) ELSE l.new
    BY <2>2, <2>3
  <2>6. /\ c.dest = l.list[s].dest /\ (l.list[s] = NoConn => c = NoConn)
        /\ n.dest = l.new.dest /\ (l.new = NoConn => n = NoConn)
    BY <2>2, <2>3, <2>4, <2>5
  <2>7. L[v] = With(l, s, c, n)
    BY <2>1, <2>4, <2>5 DEF OlderIn, InCopies, With
  <2> QED BY <2>1, <2>4, <2>5, <2>6, <2>7, WithAlike
<1>2. L \in [Actors -> Local]
  <2>1. L = [v \in Actors |-> L[v]]
    BY DEF OlderIn, InCopies
  <2> QED BY <1>1, <2>1
<1> QED BY <1>1, <1>2

(* New credentials end the ones before, in every copy.                     *)
LEMMA KilledCopies ==
    ASSUME loc \in [Actors -> Local], NEW s \in Servers, NEW L, L = KilledIn(s)
    PROVE  /\ L \in [Actors -> Local]
           /\ \A v \in Actors :
                 /\ Alike(L[v], loc[v])
                 /\ L[v].list[s] = Killed(loc[v].list[s])
                 /\ \A t \in Servers \ {s} : L[v].list[t] = loc[v].list[t]
                 /\ L[v].new = IF loc[v].server = s THEN Killed(loc[v].new) ELSE loc[v].new
<1>1. ASSUME NEW v \in Actors
      PROVE  /\ L[v] \in Local /\ Alike(L[v], loc[v])
             /\ L[v].list[s] = Killed(loc[v].list[s])
             /\ \A t \in Servers \ {s} : L[v].list[t] = loc[v].list[t]
             /\ L[v].new = IF loc[v].server = s THEN Killed(loc[v].new) ELSE loc[v].new
  <2>1. PICK l \in Local : l = loc[v]
    OBVIOUS
  <2>2. ASSUME NEW c \in ConnType
        PROVE  Killed(c) \in ConnType /\ Killed(c).dest = c.dest /\ (c = NoConn => Killed(c) = NoConn)
    BY KilledConn DEF NoConn, Live
  <2>3. l.list[s] \in ConnType /\ l.new \in ConnType
    BY DEF Local
  <2>4. PICK c \in ConnType : c = Killed(l.list[s])
    BY <2>2, <2>3
  <2>5. PICK n \in ConnType : n = IF l.server = s THEN Killed(l.new) ELSE l.new
    BY <2>2, <2>3
  <2>6. /\ c.dest = l.list[s].dest /\ (l.list[s] = NoConn => c = NoConn)
        /\ n.dest = l.new.dest /\ (l.new = NoConn => n = NoConn)
    BY <2>2, <2>3, <2>4, <2>5
  <2>7. L[v] = With(l, s, c, n)
    BY <2>1, <2>4, <2>5 DEF KilledIn, InCopies, With
  <2> QED BY <2>1, <2>4, <2>5, <2>6, <2>7, WithAlike
<1>2. L \in [Actors -> Local]
  <2>1. L = [v \in Actors |-> L[v]]
    BY DEF KilledIn, InCopies
  <2> QED BY <1>1, <2>1
<1> QED BY <1>1, <1>2

(* The end of the grace window, in every copy.                             *)
LEMMA EndedCopies ==
    ASSUME loc \in [Actors -> Local], NEW s \in Servers, NEW L, L = EndedIn(s)
    PROVE  /\ L \in [Actors -> Local]
           /\ \A v \in Actors :
                 /\ Alike(L[v], loc[v])
                 /\ L[v].list[s] = Ended(loc[v].list[s])
                 /\ \A t \in Servers \ {s} : L[v].list[t] = loc[v].list[t]
                 /\ L[v].new = IF loc[v].server = s THEN Ended(loc[v].new) ELSE loc[v].new
<1>1. ASSUME NEW v \in Actors
      PROVE  /\ L[v] \in Local /\ Alike(L[v], loc[v])
             /\ L[v].list[s] = Ended(loc[v].list[s])
             /\ \A t \in Servers \ {s} : L[v].list[t] = loc[v].list[t]
             /\ L[v].new = IF loc[v].server = s THEN Ended(loc[v].new) ELSE loc[v].new
  <2>1. PICK l \in Local : l = loc[v]
    OBVIOUS
  <2>2. ASSUME NEW c \in ConnType
        PROVE  Ended(c) \in ConnType /\ Ended(c).dest = c.dest /\ (c = NoConn => Ended(c) = NoConn)
    BY EndedConn DEF NoConn, Live
  <2>3. l.list[s] \in ConnType /\ l.new \in ConnType
    BY DEF Local
  <2>4. PICK c \in ConnType : c = Ended(l.list[s])
    BY <2>2, <2>3
  <2>5. PICK n \in ConnType : n = IF l.server = s THEN Ended(l.new) ELSE l.new
    BY <2>2, <2>3
  <2>6. /\ c.dest = l.list[s].dest /\ (l.list[s] = NoConn => c = NoConn)
        /\ n.dest = l.new.dest /\ (l.new = NoConn => n = NoConn)
    BY <2>2, <2>3, <2>4, <2>5
  <2>7. L[v] = With(l, s, c, n)
    BY <2>1, <2>4, <2>5 DEF EndedIn, InCopies, With
  <2> QED BY <2>1, <2>4, <2>5, <2>6, <2>7, WithAlike
<1>2. L \in [Actors -> Local]
  <2>1. L = [v \in Actors |-> L[v]]
    BY DEF EndedIn, InCopies
  <2> QED BY <1>1, <2>1
<1> QED BY <1>1, <1>2

(* The newest credentials come near their end, in every copy.              *)
LEMMA OverdueCopies ==
    ASSUME loc \in [Actors -> Local], NEW s \in Servers, NEW L, L = OverdueIn(s)
    PROVE  /\ L \in [Actors -> Local]
           /\ \A v \in Actors :
                 /\ Alike(L[v], loc[v])
                 /\ L[v].list[s] = Overdue(loc[v].list[s])
                 /\ \A t \in Servers \ {s} : L[v].list[t] = loc[v].list[t]
                 /\ L[v].new = IF loc[v].server = s THEN Overdue(loc[v].new) ELSE loc[v].new
<1>1. ASSUME NEW v \in Actors
      PROVE  /\ L[v] \in Local /\ Alike(L[v], loc[v])
             /\ L[v].list[s] = Overdue(loc[v].list[s])
             /\ \A t \in Servers \ {s} : L[v].list[t] = loc[v].list[t]
             /\ L[v].new = IF loc[v].server = s THEN Overdue(loc[v].new) ELSE loc[v].new
  <2>1. PICK l \in Local : l = loc[v]
    OBVIOUS
  <2>2. ASSUME NEW c \in ConnType
        PROVE  Overdue(c) \in ConnType /\ Overdue(c).dest = c.dest /\ (c = NoConn => Overdue(c) = NoConn)
    BY OverdueConn DEF NoConn, Live
  <2>3. l.list[s] \in ConnType /\ l.new \in ConnType
    BY DEF Local
  <2>4. PICK c \in ConnType : c = Overdue(l.list[s])
    BY <2>2, <2>3
  <2>5. PICK n \in ConnType : n = IF l.server = s THEN Overdue(l.new) ELSE l.new
    BY <2>2, <2>3
  <2>6. /\ c.dest = l.list[s].dest /\ (l.list[s] = NoConn => c = NoConn)
        /\ n.dest = l.new.dest /\ (l.new = NoConn => n = NoConn)
    BY <2>2, <2>3, <2>4, <2>5
  <2>7. L[v] = With(l, s, c, n)
    BY <2>1, <2>4, <2>5 DEF OverdueIn, InCopies, With
  <2> QED BY <2>1, <2>4, <2>5, <2>6, <2>7, WithAlike
<1>2. L \in [Actors -> Local]
  <2>1. L = [v \in Actors |-> L[v]]
    BY DEF OverdueIn, InCopies
  <2> QED BY <1>1, <2>1
<1> QED BY <1>1, <1>2

-----------------------------------------------------------------------------
(* What most steps have in common: no row changes hands, no stored         *)
(* connection names another row, and only the actors of M move.            *)
RowsKeep ==
    \A r \in RowIds :
       /\ rows[r].by # "none" => rows'[r].by = rows[r].by
       /\ rows'[r].there => rows'[r].by # "none"
       /\ rows[r].by # "none" /\ rows'[r].there => rows[r].there
ConnsKeep == \A s \in Servers : conns'[s].dest = conns[s].dest /\ Tied(conns'[s])
OthersKeep(M) ==
    \A w \in Actors \ M :
       Alike(loc'[w], loc[w]) /\ pc'[w] = pc[w] /\ (w \in stale => w \in stale')
Onward == (\A k \in Events : budget'[k] <= budget[k]) /\ (overwrote => overwrote')
MoversFit(M) ==
    \A v \in M : Fits(v, pc'[v], loc'[v]) /\ SeenTrue(loc[v])' /\ ListTrue(loc[v])'
MoversFollow(M) ==
    Calm' => \A v \in M : FollowsAt(v, pc[v], loc[v])'
RowsMade(M) ==
    \A r \in RowIds :
       rows'[r].there /\ rows'[r].by \in Servers /\ ~rows[r].there =>
          \E v \in M \cap Connectors : loc'[v].list[rows'[r].by].dest = r
ListsKept(M) ==
    Calm' => \A v \in M \cap Connectors, s \in Servers :
                \/ loc'[v].list[s].dest = loc[v].list[s].dest
                \/ Gone(loc[v].list[s].dest) \/ ~rows'[loc[v].list[s].dest].there

(* What has not failed after a step had not failed before it.              *)
LEMMA CalmBefore ==
    ASSUME Types, Onward, Calm'
    PROVE  Calm
<1>1. "db" \in Events /\ "crash" \in Events
  BY DEF Events
<1>2. \A k \in Events : budget[k] \in Nat /\ budget'[k] <= budget[k] /\ budget[k] <= Budget[k]
  BY DEF Types, Onward
<1>3. Budget \in [Events -> Nat]
  BY HearthShelfAssumption
<1>4. overwrote' = FALSE
  BY DEF Calm
<1>5. ~overwrote
  BY <1>4 DEF Onward
<1>6. \A k \in Events : budget'[k] = Budget[k] /\ budget'[k] \in Int => budget[k] = Budget[k]
  BY <1>2, <1>3
<1> QED BY <1>1, <1>2, <1>3, <1>5, <1>6 DEF Calm, Spared

(* An actor's locals fit its place whatever happens to the tokens and      *)
(* lifetimes in its copies.                                                *)
LEMMA AlikeFits ==
    ASSUME NEW v \in Actors, NEW l \in PCs, NEW n \in Local, NEW m \in Local,
           Alike(m, n), Fits(v, l, n)
    PROVE  Fits(v, l, m)
<1>1. v \in Pushes => PushFits(l, m)
  BY DEF Alike, Fits, PushFits, Local
<1>2. v \in Editors => EditFits(l, m)
  BY DEF Alike, Fits, EditFits, Local
<1>3. v \in Connectors => ConnectFits(l, m)
  BY DEF Alike, Fits, ConnectFits, Local
<1>4. ~HoldsAt(l) => m.server = "none" /\ m.new = NoConn /\ m.list = NoList
  BY DEF Alike, Fits
<1> QED BY <1>1, <1>2, <1>3, <1>4 DEF Fits

(* The frame of every step: if only the actors in M move, rows keep their  *)
(* servers, connections keep their rows, and the movers have what fits     *)
(* their new places, the invariant is kept.                                *)
LEMMA Frame ==
    ASSUME HearthShelfInv, Types', NEW M \in SUBSET Actors,
           RowsKeep, ConnsKeep, OthersKeep(M), Onward, MoversFit(M), MoversFollow(M),
           RowsMade(M), ListsKept(M)
    PROVE  HearthShelfInv'
<1>1. /\ \A v \in Actors : loc[v] \in Local /\ loc'[v] \in Local /\ pc[v] \in PCs
      /\ \A s \in Servers : conns[s] \in ConnType /\ conns'[s] \in ConnType
      /\ \A r \in RowIds : rows[r] \in RowType /\ rows'[r] \in RowType
  BY DEF HearthShelfInv, Types
<1>2. \A v \in Actors, s \in Servers : /\ loc[v].list[s] \in ConnType
                                        /\ loc'[v].list[s] \in ConnType
  BY <1>1 DEF Local
<1>3. RowsNamed'
  BY DEF RowsKeep, RowsNamed
<1>4. ConnsNamed'
  <2> SUFFICES ASSUME NEW s \in Servers
               PROVE  Names(conns[s], s)'
    BY DEF ConnsNamed
  <2>1. Names(conns[s], s)
    BY DEF HearthShelfInv, ConnsNamed
  <2>2. Tied(conns'[s]) /\ conns'[s].dest = conns[s].dest
    BY DEF ConnsKeep
  <2>3. ASSUME conns'[s].dest # NoRow PROVE rows'[conns'[s].dest].by = s
    <3>1. conns[s].dest \in RowIds /\ rows[conns[s].dest].by = s
      BY <1>1, <2>1, <2>2, <2>3 DEF Names, ConnType
    <3>2. s # "none"
      BY HearthShelfAssumption
    <3> QED BY <2>2, <3>1, <3>2 DEF RowsKeep
  <2> QED BY <2>2, <2>3 DEF Names
<1>5. Placed'
  <2> SUFFICES ASSUME NEW v \in Actors
               PROVE  Fits(v, pc'[v], loc'[v])
    BY DEF Placed, Fits, PushFits, EditFits, ConnectFits, HoldsAt
  <2>1. CASE v \in M
    BY <2>1 DEF MoversFit
  <2>2. CASE v \notin M
    <3>1. Alike(loc'[v], loc[v]) /\ pc'[v] = pc[v]
      BY <2>2 DEF OthersKeep
    <3>2. Fits(v, pc[v], loc[v])
      BY DEF HearthShelfInv, Placed
    <3> QED BY <1>1, <3>1, <3>2, AlikeFits
  <2> QED BY <2>1, <2>2
<1>6. CopiesTrue'
  <2> SUFFICES ASSUME NEW v \in Actors
               PROVE  SeenTrue(loc[v])' /\ ListTrue(loc[v])'
    BY DEF CopiesTrue
  <2>1. CASE v \in M
    BY <2>1 DEF MoversFit
  <2>2. CASE v \notin M
    <3>1. Alike(loc'[v], loc[v])
      BY <2>2 DEF OthersKeep
    <3>2. SeenTrue(loc[v]) /\ ListTrue(loc[v])
      BY DEF HearthShelfInv, CopiesTrue
    <3>3. SeenTrue(loc[v])'
      BY <3>1, <3>2 DEF SeenTrue, Alike, RowsKeep
    <3>4. ListTrue(loc[v])'
      <4> SUFFICES ASSUME NEW s \in Servers
                   PROVE  Names(loc[v].list[s], s)'
        BY DEF ListTrue
      <4>1. Names(loc[v].list[s], s)
        BY <3>2 DEF ListTrue
      <4>2. Tied(loc'[v].list[s]) /\ loc'[v].list[s].dest = loc[v].list[s].dest
        BY <3>1, <4>1 DEF Alike, Names
      <4>3. ASSUME loc'[v].list[s].dest # NoRow PROVE rows'[loc'[v].list[s].dest].by = s
        <5>1. loc[v].list[s].dest \in RowIds /\ rows[loc[v].list[s].dest].by = s
          BY <1>2, <4>1, <4>2, <4>3 DEF Names, ConnType
        <5>2. s # "none"
          BY HearthShelfAssumption
        <5> QED BY <4>2, <5>1, <5>2 DEF RowsKeep
      <4> QED BY <4>2, <4>3 DEF Names
    <3> QED BY <3>3, <3>4
  <2> QED BY <2>1, <2>2
<1>7. ASSUME Calm' PROVE Calm
  BY <1>7, CalmBefore DEF HearthShelfInv
<1>8. ASSUME NEW r \in RowIds \cup {NoRow}, Gone(r), r # NoRow => rows[r].by # "none"
      PROVE  Gone(r)'
  BY <1>8 DEF Gone, RowsKeep
<1>9. ASSUME NEW s \in Servers, Gone(conns[s].dest) PROVE Gone(conns[s].dest)'
  <2>1. conns[s].dest \in RowIds \cup {NoRow} /\ s # "none"
    BY <1>1, HearthShelfAssumption DEF ConnType
  <2>2. conns[s].dest # NoRow => rows[conns[s].dest].by = s
    BY DEF HearthShelfInv, ConnsNamed, Names
  <2>3. PICK r \in RowIds \cup {NoRow} : r = conns[s].dest
    BY <2>1
  <2>4. Gone(r)'
    BY <1>8, <1>9, <2>1, <2>2, <2>3
  <2> QED BY <2>3, <2>4 DEF Gone, ConnsKeep
<1>10. Follows'
  <2> SUFFICES ASSUME Calm', NEW v \in Actors
               PROVE  FollowsAt(v, pc[v], loc[v])'
    BY DEF Follows
  <2>1. CASE v \in M
    BY <2>1 DEF MoversFollow
  <2>2. CASE v \notin M
    <3>1. Alike(loc'[v], loc[v]) /\ pc'[v] = pc[v] /\ (v \in stale => v \in stale')
      BY <2>2 DEF OthersKeep
    <3>2. FollowsAt(v, pc[v], loc[v])
      BY <1>7 DEF HearthShelfInv, Follows
    <3>3. ASSUME HoldsAt(pc'[v]), v \notin stale', NEW s \in Servers
          PROVE  \/ loc'[v].list[s].dest = conns'[s].dest
                 \/ v \in Connectors /\ Gone(conns[s].dest)'
      <4>1. \/ loc[v].list[s].dest = conns[s].dest
            \/ v \in Connectors /\ Gone(conns[s].dest)
        BY <3>1, <3>2, <3>3 DEF FollowsAt
      <4>2. loc'[v].list[s].dest = loc[v].list[s].dest
        BY <3>1 DEF Alike
      <4> QED BY <1>9, <4>1, <4>2 DEF ConnsKeep
    <3>4. ASSUME v \in Connectors, pc'[v] = "ensure", loc'[v].row = NoRow
          PROVE  Gone(loc[v].new.dest)'
      <4>1. loc[v].row = NoRow /\ loc'[v].new.dest = loc[v].new.dest
        BY <3>1, <3>4 DEF Alike
      <4>2. Gone(loc[v].new.dest)
        BY <3>1, <3>2, <3>4, <4>1 DEF FollowsAt
      <4>3. ConnectFits(pc[v], loc[v])
        BY <3>4 DEF HearthShelfInv, Placed, Fits
      <4>4. loc[v].server \in Servers
        BY <1>1, <3>1, <3>4, <4>3 DEF ConnectFits, Local
      <4>5. loc[v].new.dest = loc[v].list[loc[v].server].dest
        BY <3>1, <3>4, <4>3 DEF ConnectFits
      <4>6. Names(loc[v].list[loc[v].server], loc[v].server)
        BY <4>4 DEF HearthShelfInv, CopiesTrue, ListTrue
      <4>7. loc[v].new.dest \in RowIds \cup {NoRow}
        BY <1>2, <4>4, <4>5 DEF ConnType
      <4>8. PICK r \in RowIds \cup {NoRow} : r = loc[v].new.dest
        BY <4>7
      <4>9. Gone(r)'
        BY <1>8, <4>2, <4>4, <4>5, <4>6, <4>8, HearthShelfAssumption DEF Names
      <4> QED BY <4>1, <4>8, <4>9 DEF Gone
    <3> QED BY <3>3, <3>4 DEF FollowsAt
  <2> QED BY <2>1, <2>2
<1>11. NoOrphans'
  <2> SUFFICES ASSUME Calm', NEW r \in RowIds, rows'[r].there, rows'[r].by \in Servers
               PROVE  \/ conns'[rows'[r].by].dest = r
                      \/ \E v \in Connectors : loc'[v].list[rows'[r].by].dest = r
    BY DEF NoOrphans, Me, Calm
  <2>1. CASE ~rows[r].there
    BY <2>1 DEF RowsMade
  <2>2. CASE rows[r].there
    <3>1. rows[r].by # "none"
      BY <2>2 DEF HearthShelfInv, RowsNamed
    <3>2. rows'[r].by = rows[r].by
      BY <3>1 DEF RowsKeep
    <3>3. PICK s \in Servers : s = rows[r].by
      BY <3>2
    <3>4. \/ conns[s].dest = r
          \/ \E v \in Connectors : loc[v].list[s].dest = r
      BY <1>7, <2>2, <3>3 DEF HearthShelfInv, NoOrphans, Me, Calm
    <3>5. CASE conns[s].dest = r
      BY <3>2, <3>3, <3>5 DEF ConnsKeep
    <3>6. CASE \E v \in Connectors : loc[v].list[s].dest = r
      <4>1. PICK v \in Connectors : loc[v].list[s].dest = r
        BY <3>6
      <4>2. r # NoRow
        BY HearthShelfAssumption
      <4>3. loc'[v].list[s].dest = r
        <5>1. CASE v \in M
          BY <2>2, <4>1, <4>2, <5>1 DEF ListsKept, Gone
        <5>2. CASE v \notin M
          BY <4>1, <5>2 DEF OthersKeep, Alike, Actors
        <5> QED BY <5>1, <5>2
      <4> QED BY <3>2, <3>3, <4>3
    <3> QED BY <3>4, <3>5, <3>6
  <2> QED BY <2>1, <2>2
<1> QED BY <1>3, <1>4, <1>5, <1>6, <1>10, <1>11 DEF HearthShelfInv

Begun == /\ budget["connect"] > 0
         /\ budget' = [budget EXCEPT !["connect"] = @ - 1]

(* A flow that is begun with a read that fails spends both events.         *)
BegunAmiss ==
    /\ budget["connect"] > 0 /\ budget["db"] > 0 /\ budget["any"] > 0
    /\ budget' = [budget EXCEPT !["connect"] = @ - 1, !["db"] = @ - 1, !["any"] = @ - 1]

(* A step spends events or none: no count grows.                           *)
LEMMA Spending ==
    ASSUME Types,
           UNCHANGED budget \/ Begun \/ BegunAmiss \/ \E k \in Events \ {"any"} : Spend(k)
    PROVE  budget' \in [Events -> Nat] /\ \A j \in Events : budget'[j] <= budget[j]
<1>1. budget \in [Events -> Nat] /\ "any" \in Events
  BY DEF Types, Events
<1>2. CASE UNCHANGED budget
  BY <1>1, <1>2
<1>3. CASE \E k \in Events \ {"any"} : Spend(k)
  <2>1. PICK k \in Events \ {"any"} : Spend(k)
    BY <1>3
  <2>2. budget[k] \in Nat \ {0} /\ budget["any"] \in Nat \ {0}
    BY <1>1, <2>1 DEF Spend
  <2>3. budget' = [budget EXCEPT ![k] = budget[k] - 1, !["any"] = budget["any"] - 1]
    BY <2>1 DEF Spend
  <2> QED BY <1>1, <2>2, <2>3
<1>4. CASE Begun
  <2>1. PICK b : b = budget["connect"]
    OBVIOUS
  <2>2. "connect" \in Events /\ b \in Nat \ {0}
    BY <1>1, <1>4, <2>1 DEF Begun, Events
  <2>3. budget' = [budget EXCEPT !["connect"] = b - 1]
    BY <1>4, <2>1 DEF Begun
  <2>4. \A j \in Events : budget'[j] = IF j = "connect" THEN b - 1 ELSE budget[j]
    BY <1>1, <2>3
  <2>5. b - 1 \in Nat /\ b - 1 <= b
    BY <2>2
  <2>6. \A j \in Events : budget'[j] <= budget[j]
    BY <1>1, <2>1, <2>2, <2>4, <2>5
  <2>7. budget' \in [Events -> Nat]
    BY <1>1, <2>3, <2>5
  <2> QED BY <2>6, <2>7
<1>5. CASE BegunAmiss
  <2>1. PICK b, c, d : b = budget["connect"] /\ c = budget["db"] /\ d = budget["any"]
    OBVIOUS
  <2>2. /\ {"connect", "db", "any"} \subseteq Events
        /\ b \in Nat \ {0} /\ c \in Nat \ {0} /\ d \in Nat \ {0}
    BY <1>1, <1>5, <2>1 DEF BegunAmiss, Events
  <2>3. budget' = [budget EXCEPT !["connect"] = b - 1, !["db"] = c - 1, !["any"] = d - 1]
    BY <1>5, <2>1 DEF BegunAmiss
  <2>4. \A j \in Events : budget'[j] = IF j = "connect" THEN b - 1
                                       ELSE IF j = "db" THEN c - 1
                                       ELSE IF j = "any" THEN d - 1 ELSE budget[j]
    BY <1>1, <2>3
  <2>5. b - 1 \in Nat /\ b - 1 <= b /\ c - 1 \in Nat /\ c - 1 <= c /\ d - 1 \in Nat /\ d - 1 <= d
    BY <2>2
  <2>6. \A j \in Events : budget'[j] <= budget[j]
    BY <1>1, <2>1, <2>2, <2>4, <2>5
  <2>7. budget' \in [Events -> Nat]
    BY <1>1, <2>3, <2>5
  <2> QED BY <2>6, <2>7
<1> QED BY <1>2, <1>3, <1>4, <1>5

(* Nor is a read spared that failed as a flow began.                       *)
LEMMA AmissSpent ==
    ASSUME Types, BegunAmiss
    PROVE  ~Spared("db")'
<1>1. PICK b, c, d : b = budget["connect"] /\ c = budget["db"] /\ d = budget["any"]
  OBVIOUS
<1>2. budget \in [Events -> Nat] /\ {"connect", "db", "any"} \subseteq Events /\ c <= Budget["db"]
  BY <1>1 DEF Types, Events
<1>3. budget' = [budget EXCEPT !["connect"] = b - 1, !["db"] = c - 1, !["any"] = d - 1]
  BY <1>1 DEF BegunAmiss
<1>4. budget'["db"] = c - 1 /\ c \in Nat
  BY <1>1, <1>2, <1>3
<1> QED BY <1>2, <1>4, HearthShelfAssumption DEF Spared

(* An event that happens is rarer afterwards than at the start, so         *)
(* whatever is spared has not happened.                                    *)
LEMMA SpentOn ==
    ASSUME Types, NEW k \in Events \ {"any"}, Spend(k)
    PROVE  ~Spared(k)'
<1>1. budget \in [Events -> Nat] /\ "any" \in Events /\ budget[k] <= Budget[k]
  BY DEF Types, Events
<1>2. budget'[k] = budget[k] - 1
  BY <1>1 DEF Spend
<1> QED BY <1>1, <1>2, HearthShelfAssumption DEF Spared

(* The step of one actor, from l to the place it is at next, with m in its *)
(* hands then: L is what the step leaves in everybody's hands but its own. *)
Settled == /\ revoked' \subseteq Servers /\ age' \in [Servers -> {"fresh", "due", "lapsed"}]
           /\ apps' \in Nat /\ identity' \in [app : Nat, secret : Nat]
           /\ UNCHANGED budget \/ Begun \/ BegunAmiss
              \/ \E k \in Events \ {"any"} : Spend(k)

(* The frame for a step of one actor that changes the rows, or the tokens  *)
(* and lifetimes in other actors' copies.                                  *)
LEMMA Move ==
    ASSUME HearthShelfInv, NEW v \in Actors, NEW m \in Local, NEW l \in PCs,
           NEW L \in [Actors -> Local], \A w \in Actors : Alike(L[w], loc[w]),
           loc' = [L EXCEPT ![v] = m], pc' = [pc EXCEPT ![v] = l],
           Settled, overwrote' = overwrote,
           stale' \in {stale, stale \ {v}}, v \in stale' => HoldsAt(l),
           conns' \in [Servers -> ConnType], ConnsKeep,
           rows' \in [RowIds -> RowType], RowsKeep,
           Fits(v, l, m), SeenTrue(m)', ListTrue(m)', Calm' => FollowsAt(v, l, m)',
           RowsMade({v}), ListsKept({v})
    PROVE  HearthShelfInv'
<1>1. Types
  BY DEF HearthShelfInv
<1>2. budget' \in [Events -> Nat] /\ \A j \in Events : budget'[j] <= budget[j]
  BY <1>1, Spending DEF Settled
<1>3. loc' \in [Actors -> Local] /\ pc' \in [Actors -> PCs]
  BY <1>1 DEF Types
<1>4. loc'[v] = m /\ \A w \in Actors \ {v} : loc'[w] = L[w]
  BY <1>1 DEF Types
<1>5. pc'[v] = l /\ \A w \in Actors \ {v} : pc'[w] = pc[w]
  BY <1>1 DEF Types
<1>6. stale' \subseteq {w \in Actors : Holds(w)'}
  <2> SUFFICES ASSUME NEW w \in stale'
               PROVE  w \in Actors /\ Holds(w)'
    OBVIOUS
  <2>1. w \in stale /\ w \in Actors /\ Holds(w)
    BY <1>1 DEF Types
  <2>2. CASE w = v
    BY <1>5, <2>1, <2>2 DEF Holds, HoldsAt
  <2>3. CASE w # v
    BY <1>5, <2>1, <2>3 DEF Holds
  <2> QED BY <2>1, <2>2, <2>3
<1>7. \A k \in Events : budget'[k] <= Budget[k]
  BY <1>1, <1>2, HearthShelfAssumption DEF Types
<1>8. Types'
  BY <1>1, <1>2, <1>3, <1>6, <1>7 DEF Types, Settled
<1>9. OthersKeep({v})
  BY <1>4, <1>5 DEF OthersKeep
<1>10. MoversFit({v})
  BY <1>4, <1>5 DEF MoversFit, SeenTrue, ListTrue, Names
<1>11. MoversFollow({v})
  BY <1>4, <1>5 DEF MoversFollow, FollowsAt, Gone
<1>12. Onward
  BY <1>2 DEF Onward
<1> QED BY <1>8, <1>9, <1>10, <1>11, <1>12, Frame

(* The same for a step that leaves the rows, the stored connections and    *)
(* every other actor as they are.                                          *)
LEMMA QuietMove ==
    ASSUME HearthShelfInv, NEW v \in Actors, NEW m \in Local, NEW l \in PCs,
           loc' = [loc EXCEPT ![v] = m], pc' = [pc EXCEPT ![v] = l],
           Settled, overwrote' = overwrote,
           stale' \in {stale, stale \ {v}}, v \in stale' => HoldsAt(l),
           conns' = conns, rows' = rows,
           Fits(v, l, m), SeenTrue(m), ListTrue(m),
           Calm /\ Calm' => FollowsAt(v, l, m)',
           Calm /\ Calm' /\ v \in Connectors =>
              \A s \in Servers : m.list[s].dest = loc[v].list[s].dest
    PROVE  HearthShelfInv'
<1>1. /\ loc \in [Actors -> Local] /\ rows \in [RowIds -> RowType]
      /\ conns \in [Servers -> ConnType]
  BY DEF HearthShelfInv, Types
<1>2. \A w \in Actors : Alike(loc[w], loc[w])
  BY DEF Alike
<1>3. RowsKeep
  BY DEF RowsKeep, HearthShelfInv, RowsNamed
<1>4. ConnsKeep
  BY DEF ConnsKeep, HearthShelfInv, ConnsNamed, Names
<1>5. SeenTrue(m)' /\ ListTrue(m)'
  BY DEF SeenTrue, ListTrue, Names
<1>6. RowsMade({v})
  BY DEF RowsMade
<1>7. Onward
  <2>1. \A j \in Events : budget'[j] <= budget[j]
    BY Spending DEF HearthShelfInv, Settled
  <2> QED BY <2>1 DEF Onward
<1>8. Calm' => Calm
  BY <1>7, CalmBefore DEF HearthShelfInv
<1>9. loc'[v] = m
  BY <1>1
<1>10. ListsKept({v})
  BY <1>8, <1>9 DEF ListsKept
<1> QED BY <1>1, <1>2, <1>3, <1>4, <1>5, <1>6, <1>8, <1>10, Move

(* An actor with nothing in its hands fits where it is idle.               *)
LEMMA IdleFits ==
    ASSUME NEW v \in Actors
    PROVE  /\ Idle \in Local /\ Fits(v, "idle", Idle) /\ SeenTrue(Idle) /\ ListTrue(Idle)
           /\ FollowsAt(v, "idle", Idle)'
<1>1. NoConn \in ConnType /\ Absent \in RowType
  BY DEF NoConn, ConnType, Tokens, Lives, Absent, RowType, Keys
<1>2. Idle \in Local
  BY <1>1 DEF Idle, Local, NoList, Keys
<1>3. Fits(v, "idle", Idle)
  BY DEF Idle, Fits, PushFits, EditFits, ConnectFits, HoldsAt, PushPCs, EditPCs, ConnectPCs
<1>4. SeenTrue(Idle)
  BY DEF SeenTrue, Idle, Absent
<1>5. ListTrue(Idle)
  BY DEF ListTrue, Idle, NoList, Names, Tied, NoConn
<1>6. FollowsAt(v, "idle", Idle)'
  BY DEF FollowsAt, HoldsAt
<1> QED BY <1>2, <1>3, <1>4, <1>5, <1>6

(* What every actor has in its hands, and where it may be.                 *)
LEMMA InHands ==
    ASSUME HearthShelfInv, NEW v \in Actors
    PROVE  /\ loc[v] \in Local /\ pc[v] \in PCs /\ Fits(v, pc[v], loc[v])
           /\ SeenTrue(loc[v]) /\ ListTrue(loc[v])
           /\ Calm => FollowsAt(v, pc[v], loc[v])
           /\ v \in stale => HoldsAt(pc[v])
<1>1. Types /\ Placed /\ CopiesTrue /\ Follows
  BY DEF HearthShelfInv
<1> QED BY <1>1 DEF Types, Placed, CopiesTrue, Follows, Holds, HoldsAt

-----------------------------------------------------------------------------
(* Pushes *)

(* A step in which nothing happens keeps the invariant.                    *)
LEMMA StillKeeps ==
    ASSUME HearthShelfInv, UNCHANGED vars
    PROVE  HearthShelfInv'
BY DEF vars, serverVars, HearthShelfInv, Types, RowsNamed, ConnsNamed, Placed, CopiesTrue,
   Follows, NoOrphans, Names, Tied, Fits, PushFits, EditFits, ConnectFits, HoldsAt, SeenTrue,
   ListTrue, Calm, Spared, FollowsAt, Gone, Me, Holds

(* ListEnabled reads the rows that are there, so the rows in a push's      *)
(* hands are rows of the table.                                            *)
LEMMA ListEnabledKeeps ==
    ASSUME HearthShelfInv, NEW v \in Pushes, ListEnabled(v)
    PROVE  HearthShelfInv'
<1>1. v \in Actors /\ loc[v] \in Local /\ Fits(v, "idle", loc[v]) /\ pc[v] = "idle"
  BY InHands DEF Actors, ListEnabled
<1>2. rows \in [RowIds -> RowType]
  BY DEF HearthShelfInv, Types
<1>3. PICK on \in SUBSET RowIds : on = {r \in RowIds : rows[r].there /\ rows[r].enabled}
  OBVIOUS
<1>4. CASE on = {}
  <2>1. UNCHANGED vars
    BY <1>3, <1>4 DEF ListEnabled, vars, serverVars
  <2> QED BY <2>1, StillKeeps
<1>5. CASE on # {}
  <2>1. PICK f : f = [r \in RowIds |->
                        IF r \in on THEN [rows[r] EXCEPT !.key = "none"] ELSE Absent]
    OBVIOUS
  <2>2. ASSUME NEW r \in RowIds
        PROVE  /\ f[r] \in RowType
               /\ r \in on => f[r].there = rows[r].there /\ f[r].by = rows[r].by
               /\ r \notin on => ~f[r].there
    BY <1>2, <2>1 DEF RowType, Keys, Absent
  <2>3. f \in [RowIds -> RowType]
    BY <2>1, <2>2
  <2>4. PICK l \in Local : l = loc[v]
    BY <1>1
  <2>5. PICK m : m = [l EXCEPT !.todo = on, !.seen = f]
    OBVIOUS
  <2>6. /\ m \in Local /\ m.todo = on /\ m.seen = f /\ m.row = l.row
        /\ m.server = l.server /\ m.list = l.list /\ m.new = l.new
    BY <2>3, <2>4, <2>5 DEF Local
  <2>7. loc' = [loc EXCEPT ![v] = m] /\ pc' = [pc EXCEPT ![v] = "load"]
    BY <1>3, <1>5, <2>1, <2>4, <2>5 DEF ListEnabled, Set, Goto, Me
  <2>8. /\ Settled /\ overwrote' = overwrote /\ stale' = stale
        /\ conns' = conns /\ rows' = rows
    BY DEF ListEnabled, serverVars, Settled, HearthShelfInv, Types
  <2>9. Fits(v, "load", m)
    <3>1. l.server = "none" /\ l.new = NoConn /\ l.list = NoList
      BY <1>1, <2>4 DEF Fits, HoldsAt
    <3>2. \A r \in on : m.seen[r].there
      BY <1>3, <2>2, <2>6
    <3>3. v \notin Editors /\ v \notin Connectors
      BY HearthShelfAssumption
    <3> QED BY <1>5, <2>6, <3>1, <3>2, <3>3 DEF Fits, PushFits, HoldsAt, PushPCs
  <2>10. SeenTrue(m)
    BY <1>3, <2>2, <2>6 DEF SeenTrue, HearthShelfInv, RowsNamed
  <2>11. ListTrue(m)
    BY <1>1, <2>4, <2>6, InHands DEF ListTrue
  <2>12. FollowsAt(v, "load", m)'
    BY DEF FollowsAt, HoldsAt
  <2>13. v \notin stale
    BY <1>1, InHands DEF HoldsAt
  <2>14. v \notin Connectors
    BY HearthShelfAssumption
  <2> QED BY <1>1, <2>6, <2>7, <2>8, <2>9, <2>10, <2>11, <2>12, <2>13, <2>14, QuietMove
          DEF PCs, PushPCs
<1> QED BY <1>4, <1>5

(* The row that a loop takes next.                                         *)
LEMMA LeastIn ==
    ASSUME NEW S \in SUBSET RowIds, S # {}
    PROVE  Least(S) \in S
<1> DEFINE Less == OpToRel(<, Nat)
<1>1. IsWellFoundedOn(Less, Nat)
  BY NatLessThanWellFounded
<1>2. S \subseteq Nat
  BY HearthShelfAssumption
<1>3. PICK n \in S : \A q \in S : ~ (<<q, n>> \in Less)
  <2> HIDE DEF Less
  <2> QED BY <1>1, <1>2, WFMin
<1>4. ASSUME NEW q \in S, q < n
      PROVE  FALSE
  <2>1. <<q, n>> \in Nat \X Nat /\ <<q, n>>[1] < <<q, n>>[2]
    BY <1>2, <1>4
  <2>2. <<q, n>> \in Less
    BY <2>1, Zenon DEF OpToRel
  <2> QED BY <1>3, <2>2
<1>5. \A q \in S : n <= q
  BY <1>2, <1>4
<1> QED BY <1>5 DEF Least

(* A push that is through with a row.                                      *)
LEMMA AfterFits ==
    ASSUME HearthShelfInv, NEW v \in Pushes, pc[v] # "idle",
           NEW l, l = IF Left(v) = {} THEN "idle" ELSE "load"
    PROVE  /\ After(v) \in Local /\ l \in PCs
           /\ Fits(v, l, After(v)) /\ SeenTrue(After(v)) /\ ListTrue(After(v))
           /\ ~HoldsAt(l)
<1>1. v \in Actors /\ loc[v] \in Local /\ Fits(v, pc[v], loc[v]) /\ SeenTrue(loc[v])
  BY InHands DEF Actors
<1>2. CASE Left(v) = {}
  <2>1. After(v) = Idle
    BY <1>2 DEF After
  <2> QED BY <1>1, <1>2, <2>1, IdleFits DEF PCs, PushPCs, HoldsAt
<1>3. CASE Left(v) # {}
  <2>1. PICK S \in SUBSET RowIds : S = Left(v)
    BY <1>1 DEF Left, Me, Local
  <2>2. PICK i \in Local : i = Idle
    BY <1>1, IdleFits
  <2>3. PICK f : f = [r \in RowIds |-> IF r \in S THEN loc[v].seen[r] ELSE Absent]
    OBVIOUS
  <2>4. PICK m : m = [i EXCEPT !.todo = S, !.seen = f]
    OBVIOUS
  <2>5. After(v) = m
    BY <1>3, <2>1, <2>2, <2>3, <2>4 DEF After, Me
  <2>6. Absent \in RowType /\ loc[v].seen \in [RowIds -> RowType]
    BY <1>1 DEF Absent, RowType, Keys, Local
  <2>7. f \in [RowIds -> RowType]
    BY <2>3, <2>6
  <2>8. /\ m \in Local /\ m.todo = S /\ m.seen = f /\ m.row = i.row
        /\ m.server = i.server /\ m.list = i.list /\ m.new = i.new
    BY <2>4, <2>7 DEF Local
  <2>9. m.server = "none" /\ m.list = NoList /\ m.new = NoConn
    BY <2>2, <2>8 DEF Idle
  <2>10. \A r \in S : m.seen[r].there
    <3>1. \A r \in loc[v].todo : loc[v].seen[r].there
      BY <1>1 DEF Fits, PushFits
    <3> QED BY <2>1, <2>3, <2>8, <3>1 DEF Left, Me
  <2>11. Fits(v, "load", m)
    <3>1. v \notin Editors /\ v \notin Connectors
      BY HearthShelfAssumption
    <3> QED BY <1>3, <2>1, <2>8, <2>9, <2>10, <3>1 DEF Fits, PushFits, HoldsAt, PushPCs
  <2>12. SeenTrue(m)
    BY <1>1, <2>3, <2>8 DEF SeenTrue, Absent
  <2>13. ListTrue(m)
    BY <2>9 DEF ListTrue, NoList, Names, Tied, NoConn
  <2> QED BY <1>3, <2>5, <2>8, <2>11, <2>12, <2>13 DEF PCs, PushPCs, HoldsAt
<1> QED BY <1>2, <1>3

(* A push that leaves a row drops its copy of the connections with it.     *)
LEMMA NextRowKeeps ==
    ASSUME HearthShelfInv, NEW v \in Pushes, pc[v] # "idle", NextRow(v),
           Settled, overwrote' = overwrote, stale' = stale \ {v},
           conns' = conns, rows' = rows
    PROVE  HearthShelfInv'
<1>1. PICK l : l = IF Left(v) = {} THEN "idle" ELSE "load"
  OBVIOUS
<1>2. PICK m : m = After(v)
  OBVIOUS
<1>3. loc' = [loc EXCEPT ![v] = m] /\ pc' = [pc EXCEPT ![v] = l]
  BY <1>1, <1>2 DEF NextRow, Set, Goto
<1>4. v \in Actors /\ v \notin Connectors
  BY HearthShelfAssumption DEF Actors
<1>5. /\ m \in Local /\ l \in PCs /\ Fits(v, l, m) /\ SeenTrue(m) /\ ListTrue(m)
      /\ ~HoldsAt(l)
  BY <1>1, <1>2, AfterFits
<1>6. FollowsAt(v, l, m)'
  BY <1>4, <1>5 DEF FollowsAt
<1> QED BY <1>3, <1>4, <1>5, <1>6, QuietMove

(* A push loads the connections, and finds the row it is at in the one it  *)
(* renews (renew.go:64-85).                                                *)
LEMMA LoadConnectionsKeeps ==
    ASSUME HearthShelfInv, NEW v \in Pushes, LoadConnections(v)
    PROVE  HearthShelfInv'
<1>1. /\ v \in Actors /\ loc[v] \in Local /\ pc[v] = "load" /\ Fits(v, "load", loc[v])
      /\ SeenTrue(loc[v]) /\ v \notin stale
  BY InHands DEF Actors, LoadConnections, HoldsAt
<1>2. /\ Types /\ UNCHANGED <<serverVars, rows, conns, identity, stale, overwrote>>
  BY DEF HearthShelfInv, LoadConnections
<1>3. "db" \in Events \ {"any"}
  BY DEF Events
<1>4. v \notin Connectors /\ v \notin Editors
  BY HearthShelfAssumption
<1>5. CASE NextRow(v) /\ (UNCHANGED budget \/ Spend("db"))
  <2>1. Settled
    BY <1>2, <1>3, <1>5 DEF Settled, Types, serverVars
  <2> QED BY <1>1, <1>2, <1>5, <2>1, NextRowKeeps
<1>6. ASSUME NEW s \in Servers, conns[s].dest = Least(Me(v).todo),
             Set(v, [Me(v) EXCEPT !.row = Least(Me(v).todo), !.server = s, !.list = conns]),
             Goto(v, "call"), UNCHANGED budget
      PROVE  HearthShelfInv'
  <2>1. PICK S \in SUBSET RowIds : S = Me(v).todo
    BY <1>1 DEF Local, Me
  <2>2. PICK r \in RowIds : r = Least(S) /\ r \in S
    <3>1. S # {}
      BY <1>1, <1>4, <2>1 DEF Fits, PushFits, Me
    <3> QED BY <3>1, LeastIn
  <2>3. PICK l \in Local : l = loc[v]
    BY <1>1
  <2>4. PICK m : m = [l EXCEPT !.row = r, !.server = s, !.list = conns]
    OBVIOUS
  <2>5. /\ m \in Local /\ m.row = r /\ m.server = s /\ m.list = conns
        /\ m.todo = l.todo /\ m.seen = l.seen /\ m.new = l.new
    BY <1>2, <2>3, <2>4 DEF Local, Types
  <2>6. loc' = [loc EXCEPT ![v] = m] /\ pc' = [pc EXCEPT ![v] = "call"]
    BY <1>6, <2>1, <2>2, <2>3, <2>4 DEF Set, Goto, Me
  <2>7. Settled
    BY <1>2, <1>6 DEF Settled, Types, serverVars
  <2>8. Fits(v, "call", m)
    BY <1>1, <1>4, <1>6, <2>1, <2>2, <2>3, <2>5 DEF Fits, PushFits, HoldsAt, PushPCs, Me
  <2>9. SeenTrue(m)
    BY <1>1, <2>3, <2>5 DEF SeenTrue
  <2>10. ListTrue(m)
    BY <2>5 DEF ListTrue, HearthShelfInv, ConnsNamed
  <2>11. FollowsAt(v, "call", m)'
    BY <1>2, <2>5 DEF FollowsAt
  <2> QED BY <1>1, <1>2, <1>4, <2>5, <2>6, <2>7, <2>8, <2>9, <2>10, <2>11, QuietMove
          DEF PCs, PushPCs, HoldsAt
<1> QED BY <1>5, <1>6 DEF LoadConnections

(* Recording a 401 changes neither a row nor what a copy names             *)
(* (renew.go:94-99).                                                       *)
LEMMA DeniedKeeps ==
    ASSUME HearthShelfInv, NEW v \in Pushes, Denied(v)
    PROVE  HearthShelfInv'
<1>1. /\ v \in Actors /\ loc[v] \in Local /\ pc[v] = "call" /\ Fits(v, "call", loc[v])
      /\ SeenTrue(loc[v]) /\ ListTrue(loc[v])
      /\ Calm => FollowsAt(v, "call", loc[v])
  BY InHands DEF Actors, Denied
<1>2. /\ Types /\ UNCHANGED <<serverVars, rows, conns, identity, stale, overwrote, budget>>
  BY DEF HearthShelfInv, Denied
<1>3. v \notin Connectors /\ v \notin Editors
  BY HearthShelfAssumption
<1>4. PICK l \in Local : l = loc[v]
  BY <1>1
<1>5. PICK s \in Servers : s = l.server
  BY <1>1, <1>4 DEF Fits, PushFits
<1>6. PICK m : m = [l EXCEPT !.list[s].needs = TRUE]
  OBVIOUS
<1>7. l.list \in [Servers -> ConnType] /\ l.list[s] \in ConnType
  BY DEF Local
<1>8. PICK c \in ConnType : c = [l.list[s] EXCEPT !.needs = TRUE] /\ c.dest = l.list[s].dest
  <2>1. PICK b \in ConnType : b = l.list[s]
    BY <1>7
  <2>2. [b EXCEPT !.needs = TRUE] \in ConnType /\ [b EXCEPT !.needs = TRUE].dest = b.dest
    BY DEF ConnType
  <2> QED BY <2>1, <2>2
<1>9. /\ m \in Local /\ m.row = l.row /\ m.server = l.server /\ m.todo = l.todo
      /\ m.seen = l.seen /\ m.new = l.new /\ m.list[s] = c
      /\ \A t \in Servers \ {s} : m.list[t] = l.list[t]
  BY <1>6, <1>8 DEF Local
<1>10. loc' = [loc EXCEPT ![v] = m] /\ pc' = [pc EXCEPT ![v] = "save"]
  BY <1>4, <1>5, <1>6 DEF Denied, Set, Goto, Me
<1>11. Settled
  BY <1>2 DEF Settled, Types, serverVars
<1>12. \A t \in Servers : m.list[t].dest = l.list[t].dest
  BY <1>8, <1>9
<1>13. Fits(v, "save", m)
  BY <1>1, <1>3, <1>4, <1>5, <1>9, <1>12 DEF Fits, PushFits, HoldsAt, PushPCs
<1>14. SeenTrue(m)
  BY <1>1, <1>4, <1>9 DEF SeenTrue
<1>15. ListTrue(m)
  <2>1. l.list[s].dest \in RowIds
    BY <1>1, <1>3, <1>4, <1>5 DEF Fits, PushFits
  <2>2. ListTrue(l)
    BY <1>1, <1>4
  <2> QED BY <1>9, <1>12, <2>1, <2>2 DEF ListTrue, Names, Tied
<1>16. Calm => FollowsAt(v, "save", m)'
  BY <1>1, <1>2, <1>3, <1>4, <1>12 DEF FollowsAt, HoldsAt
<1> QED BY <1>1, <1>2, <1>3, <1>9, <1>10, <1>11, <1>13, <1>14, <1>15, <1>16, QuietMove
        DEF PCs, PushPCs, HoldsAt

(* A rotation changes no more than tokens: those of the server, wherever   *)
(* they are.                                                               *)
LEMMA RotationKeeps ==
    ASSUME HearthShelfInv, NEW s \in Servers, NEW c \in ConnType, Rotates(s, c),
           NEW L, L = Rotated(s, c)
    PROVE  /\ L \in [Actors -> Local] /\ \A w \in Actors : Alike(L[w], loc[w])
           /\ conns' \in [Servers -> ConnType] /\ ConnsKeep
           /\ age' \in [Servers -> {"fresh", "due", "lapsed"}]
<1>1. /\ loc \in [Actors -> Local] /\ conns \in [Servers -> ConnType]
      /\ age \in [Servers -> {"fresh", "due", "lapsed"}] /\ ConnsNamed
  BY DEF HearthShelfInv, Types
<1>2. L \in [Actors -> Local] /\ \A w \in Actors : Alike(L[w], loc[w])
  <2>1. CASE c.token = "cur"
    <3>1. L = OlderIn(s)
      BY <2>1 DEF Rotated, OlderIn
    <3> QED BY <1>1, <3>1, OlderCopies
  <2>2. CASE c.token # "cur"
    BY <1>1, <2>2 DEF Rotated, Alike
  <2> QED BY <2>1, <2>2
<1>3. PICK d \in ConnType : /\ d = IF c.token = "cur" THEN Older(conns[s]) ELSE conns[s]
                            /\ d.dest = conns[s].dest /\ Tied(d)
  <2>1. conns[s] \in ConnType /\ Tied(conns[s])
    BY <1>1 DEF ConnsNamed, Names
  <2>2. Older(conns[s]) \in ConnType /\ Older(conns[s]).dest = conns[s].dest
    BY <2>1, OlderConn
  <2>3. Tied(Older(conns[s]))
    BY <2>1, <2>2, OlderConn DEF Tied, NoConn, Live
  <2> QED BY <2>1, <2>2, <2>3
<1>4. conns' = [conns EXCEPT ![s] = d]
  BY <1>3 DEF Rotates
<1>5. conns' \in [Servers -> ConnType] /\ ConnsKeep
  BY <1>1, <1>3, <1>4 DEF ConnsKeep, ConnsNamed, Names
<1>6. age' \in [Servers -> {"fresh", "due", "lapsed"}]
  BY <1>1 DEF Rotates
<1> QED BY <1>2, <1>5, <1>6

(* An answered refresh changes tokens and lifetimes, and names no other    *)
(* row.                                                                    *)
LEMMA RefreshKeeps ==
    ASSUME HearthShelfInv, NEW v \in Pushes, NEW life \in {"fresh", "none"},
           NEW key \in {"good", "none"}, Refresh(v, life, key)
    PROVE  HearthShelfInv'
<1>1. /\ v \in Actors /\ loc[v] \in Local /\ pc[v] = "call" /\ Fits(v, "call", loc[v])
      /\ SeenTrue(loc[v]) /\ ListTrue(loc[v])
      /\ Calm => FollowsAt(v, "call", loc[v])
  BY InHands DEF Actors, Refresh
<1>2. /\ Types /\ UNCHANGED <<revoked, apps, rows, identity, stale, overwrote>>
  BY DEF HearthShelfInv, Refresh
<1>3. v \notin Connectors /\ v \notin Editors
  BY HearthShelfAssumption
<1>4. PICK l \in Local : l = loc[v]
  BY <1>1
<1>5. PICK s \in Servers : s = l.server
  BY <1>1, <1>4 DEF Fits, PushFits
<1>6. l.list \in [Servers -> ConnType] /\ l.list[s] \in ConnType
  BY DEF Local
<1>7. PICK c \in ConnType : c = l.list[s]
  BY <1>6
<1>8. PICK L : L = Rotated(s, c)
  OBVIOUS
<1>9. Rotates(s, c)
  BY <1>4, <1>5, <1>7 DEF Refresh, Me
<1>10. /\ L \in [Actors -> Local] /\ \A w \in Actors : Alike(L[w], loc[w])
       /\ conns' \in [Servers -> ConnType] /\ ConnsKeep
       /\ age' \in [Servers -> {"fresh", "due", "lapsed"}]
  BY <1>8, <1>9, RotationKeeps
<1>11. PICK d \in ConnType : d = Renewed(c, life) /\ d.dest = c.dest
  BY RenewedConn DEF Lives
<1>12. PICK m : m = [l EXCEPT !.list[s] = d, !.key = key]
  OBVIOUS
<1>13. /\ m \in Local /\ m.row = l.row /\ m.server = l.server /\ m.todo = l.todo
       /\ m.seen = l.seen /\ m.new = l.new /\ m.list[s] = d
       /\ \A t \in Servers \ {s} : m.list[t] = l.list[t]
  BY <1>12 DEF Local, Keys
<1>14. PICK k : k = IF key = "good" THEN "row" ELSE "save"
  OBVIOUS
<1>15. loc' = [L EXCEPT ![v] = m] /\ pc' = [pc EXCEPT ![v] = k]
  BY <1>4, <1>5, <1>7, <1>8, <1>11, <1>12, <1>14 DEF Refresh, Goto, Me
<1>16. Settled
  <2>1. "nolife" \in Events \ {"any"} /\ "nokey" \in Events \ {"any"}
    BY DEF Events
  <2>2. UNCHANGED budget \/ Spend("nolife") \/ Spend("nokey")
    BY DEF Refresh
  <2> QED BY <1>2, <1>10, <2>1, <2>2 DEF Settled, Types
<1>17. \A t \in Servers : m.list[t].dest = l.list[t].dest
  BY <1>7, <1>11, <1>13
<1>18. Fits(v, k, m)
  BY <1>1, <1>3, <1>4, <1>5, <1>13, <1>14, <1>17 DEF Fits, PushFits, HoldsAt, PushPCs
<1>19. SeenTrue(m)'
  BY <1>1, <1>2, <1>4, <1>13 DEF SeenTrue
<1>20. ListTrue(m)'
  <2>1. l.list[s].dest \in RowIds
    BY <1>1, <1>3, <1>4, <1>5 DEF Fits, PushFits
  <2>2. ListTrue(l)
    BY <1>1, <1>4
  <2> QED BY <1>2, <1>7, <1>11, <1>13, <1>17, <2>1, <2>2 DEF ListTrue, Names, Tied
<1>21. Calm' => FollowsAt(v, k, m)'
  <2>1. Onward
    <3>1. \A j \in Events : budget'[j] <= budget[j]
      BY <1>2, <1>16, Spending DEF Settled
    <3> QED BY <1>2, <3>1 DEF Onward
  <2>2. Calm' => Calm
    BY <1>2, <2>1, CalmBefore
  <2>3. \A t \in Servers : conns'[t].dest = conns[t].dest
    BY <1>10 DEF ConnsKeep
  <2> QED BY <1>1, <1>2, <1>3, <1>4, <1>17, <2>2, <2>3 DEF FollowsAt, HoldsAt
<1>22. RowsKeep
  BY <1>2 DEF RowsKeep, HearthShelfInv, RowsNamed
<1>23. RowsMade({v}) /\ ListsKept({v})
  BY <1>2, <1>3 DEF RowsMade, ListsKept
<1>24. k \in PCs /\ HoldsAt(k) /\ rows' \in [RowIds -> RowType]
  BY <1>2, <1>14 DEF PCs, PushPCs, HoldsAt, Types
<1> QED BY <1>1, <1>2, <1>10, <1>13, <1>15, <1>16, <1>18, <1>19, <1>20, <1>21, <1>22, <1>23,
           <1>24, Move

(* A refresh whose answer is lost rotates at the server all the same; the  *)
(* push drops its copy.                                                    *)
LEMMA RefreshFailsKeeps ==
    ASSUME HearthShelfInv, NEW v \in Pushes, RefreshFails(v)
    PROVE  HearthShelfInv'
<1>1. /\ v \in Actors /\ loc[v] \in Local /\ pc[v] = "call" /\ Fits(v, "call", loc[v])
  BY InHands DEF Actors, RefreshFails
<1>2. /\ Types /\ UNCHANGED <<revoked, apps, rows, identity, overwrote>>
      /\ stale' = stale \ {v} /\ Spend("net")
  BY DEF HearthShelfInv, RefreshFails
<1>3. v \notin Connectors /\ v \notin Editors /\ "net" \in Events \ {"any"}
  BY HearthShelfAssumption DEF Events
<1>4. PICK l \in Local : l = loc[v]
  BY <1>1
<1>5. PICK s \in Servers : s = l.server
  BY <1>1, <1>3, <1>4 DEF Fits, PushFits
<1>6. PICK c \in ConnType : c = l.list[s]
  BY DEF Local
<1>7. CASE NextRow(v) /\ UNCHANGED <<age, conns>>
  <2>1. Settled
    BY <1>2, <1>3, <1>7 DEF Settled, Types
  <2> QED BY <1>1, <1>2, <1>7, <2>1, NextRowKeeps
<1>8. CASE /\ Rotates(s, c) /\ loc' = [Rotated(s, c) EXCEPT ![v] = After(v)]
           /\ Goto(v, IF Left(v) = {} THEN "idle" ELSE "load")
  <2>1. PICK L : L = Rotated(s, c)
    OBVIOUS
  <2>2. /\ L \in [Actors -> Local] /\ \A w \in Actors : Alike(L[w], loc[w])
        /\ conns' \in [Servers -> ConnType] /\ ConnsKeep
        /\ age' \in [Servers -> {"fresh", "due", "lapsed"}]
    BY <1>8, <2>1, RotationKeeps
  <2>3. Settled
    BY <1>2, <1>3, <2>2 DEF Settled, Types
  <2>4. PICK k : k = IF Left(v) = {} THEN "idle" ELSE "load"
    OBVIOUS
  <2>5. PICK m : m = After(v)
    OBVIOUS
  <2>6. loc' = [L EXCEPT ![v] = m] /\ pc' = [pc EXCEPT ![v] = k]
    BY <1>8, <2>1, <2>4, <2>5 DEF Goto
  <2>7. /\ m \in Local /\ k \in PCs /\ Fits(v, k, m) /\ SeenTrue(m) /\ ListTrue(m)
        /\ ~HoldsAt(k)
    BY <1>1, <2>4, <2>5, AfterFits
  <2>8. SeenTrue(m)' /\ ListTrue(m)'
    BY <1>2, <2>7 DEF SeenTrue, ListTrue, Names
  <2>9. FollowsAt(v, k, m)'
    BY <1>3, <2>7 DEF FollowsAt
  <2>10. RowsKeep
    BY <1>2 DEF RowsKeep, HearthShelfInv, RowsNamed
  <2>11. RowsMade({v}) /\ ListsKept({v})
    BY <1>2, <1>3 DEF RowsMade, ListsKept
  <2> QED BY <1>1, <1>2, <2>2, <2>3, <2>6, <2>7, <2>8, <2>9, <2>10, <2>11, Move DEF Types
<1>9. c = Me(v).list[Me(v).server] /\ s = Me(v).server
  BY <1>4, <1>5, <1>6 DEF Me
<1> QED BY <1>7, <1>8, <1>9 DEF RefreshFails

(* What a copy says of the rows stays true when they keep their owners.    *)
LEMMA CopiesStay ==
    ASSUME RowsKeep, NEW m \in Local
    PROVE  (SeenTrue(m) => SeenTrue(m)') /\ (ListTrue(m) => ListTrue(m)')
<1>1. ASSUME SeenTrue(m) PROVE SeenTrue(m)'
  BY <1>1 DEF SeenTrue, RowsKeep
<1>2. ASSUME ListTrue(m), NEW s \in Servers
      PROVE  Names(m.list[s], s)'
  <2>1. PICK c \in ConnType : c = m.list[s]
    BY DEF Local
  <2>2. Names(c, s) /\ c.dest \in RowIds \cup {NoRow} /\ s # "none"
    BY <1>2, <2>1, HearthShelfAssumption DEF ListTrue, ConnType
  <2>3. c.dest # NoRow => rows'[c.dest].by = s
    BY <2>2 DEF Names, RowsKeep
  <2> QED BY <2>1, <2>2, <2>3 DEF Names
<1> QED BY <1>1, <1>2 DEF ListTrue

(* A push writes the row back as its own server's, or finds it gone and    *)
(* leaves (renew.go:123).                                              *)
LEMMA UpdateRowKeeps ==
    ASSUME HearthShelfInv, NEW v \in Pushes, UpdateRow(v)
    PROVE  HearthShelfInv'
<1>1. /\ v \in Actors /\ loc[v] \in Local /\ pc[v] = "row" /\ Fits(v, "row", loc[v])
      /\ SeenTrue(loc[v]) /\ ListTrue(loc[v])
      /\ Calm => FollowsAt(v, "row", loc[v])
  BY InHands DEF Actors, UpdateRow
<1>2. Types /\ UNCHANGED <<serverVars, conns, identity, overwrote>>
  BY DEF HearthShelfInv, UpdateRow
<1>3. v \notin Connectors /\ v \notin Editors /\ "db" \in Events \ {"any"}
  BY HearthShelfAssumption DEF Events
<1>4. PICK m \in Local : m = loc[v]
  BY <1>1
<1>5. m.row \in RowIds /\ m.seen[m.row].there
  BY <1>1, <1>3, <1>4 DEF Fits, PushFits
<1>6. PICK r \in RowIds : r = m.row
  BY <1>5
<1>7. m.seen \in [RowIds -> RowType] /\ m.seen[r] \in RowType /\ m.key \in Keys
  BY DEF Local
<1>8. CASE /\ rows[r].there /\ rows' = [rows EXCEPT ![r] = [m.seen[r] EXCEPT !.key = m.key]]
           /\ Goto(v, "save") /\ UNCHANGED <<loc, stale, budget>>
  <2>1. PICK b \in RowType : b = m.seen[r]
    BY <1>7
  <2>2. PICK d : d = [b EXCEPT !.key = m.key]
    OBVIOUS
  <2>3. d \in RowType /\ d.by = b.by /\ d.there = b.there
    BY <1>7, <2>2 DEF RowType
  <2>4. d.there /\ d.by = rows[r].by /\ d.by # "none"
    BY <1>1, <1>4, <1>5, <1>6, <2>1, <2>3 DEF SeenTrue
  <2>5. rows \in [RowIds -> RowType] /\ loc \in [Actors -> Local]
    BY <1>2 DEF Types
  <2>6. rows' = [rows EXCEPT ![r] = d]
    BY <1>8, <2>1, <2>2
  <2>7. rows' \in [RowIds -> RowType] /\ RowsKeep
    BY <1>8, <2>3, <2>4, <2>5, <2>6 DEF RowsKeep, HearthShelfInv, RowsNamed
  <2>8. \A q \in RowIds : rows'[q].by = rows[q].by /\ rows'[q].there = rows[q].there
    <3>1. rows[r] \in RowType
      BY <2>5
    <3>2. d.there = TRUE /\ rows[r].there = TRUE
      BY <1>8, <2>3, <2>4, <3>1 DEF RowType
    <3> QED BY <2>4, <2>5, <2>6, <3>2
  <2>9. loc' = [loc EXCEPT ![v] = m] /\ pc' = [pc EXCEPT ![v] = "save"]
    BY <1>4, <1>8, <2>5 DEF Goto
  <2>10. SeenTrue(m)'
    BY <1>1, <1>4, <2>8 DEF SeenTrue
  <2>11. ListTrue(m)'
    BY <1>1, <1>4, <2>7, CopiesStay
  <2>12. Fits(v, "save", m)
    BY <1>1, <1>3, <1>4 DEF Fits, PushFits, HoldsAt, PushPCs
  <2>13. Calm' => FollowsAt(v, "save", m)'
    BY <1>1, <1>2, <1>3, <1>4, <1>8 DEF FollowsAt, HoldsAt, Calm, Spared
  <2>14. Settled
    BY <1>2, <1>8 DEF Settled, Types, serverVars
  <2>15. ConnsKeep
    BY <1>2 DEF ConnsKeep, HearthShelfInv, ConnsNamed, Names
  <2>16. RowsMade({v}) /\ ListsKept({v})
    BY <1>3, <2>8 DEF RowsMade, ListsKept
  <2>17. \A w \in Actors : Alike(loc[w], loc[w])
    BY DEF Alike
  <2>18. stale' = stale /\ "save" \in PCs /\ HoldsAt("save")
    BY <1>8 DEF PCs, PushPCs, HoldsAt
  <2>19. conns' \in [Servers -> ConnType]
    BY <1>2 DEF Types
  <2> QED BY <1>1, <1>2, <2>5, <2>7, <2>9, <2>10, <2>11, <2>12, <2>13, <2>14, <2>15, <2>16,
             <2>17, <2>18, <2>19, Move
<1>9. CASE /\ IF rows[r].there THEN Spend("db") ELSE UNCHANGED budget
           /\ NextRow(v) /\ stale' = stale \ {v} /\ UNCHANGED rows
  <2>1. Settled
    BY <1>2, <1>3, <1>9 DEF Settled, Types, serverVars
  <2> QED BY <1>1, <1>2, <1>9, <2>1, NextRowKeeps
<1> QED BY <1>4, <1>6, <1>8, <1>9 DEF UpdateRow, Me

(* The connections are written whole from a copy.  A copy that is not      *)
(* stale names what the stored ones named, but for the rows that a connect *)
(* flow made in place of rows that are gone.                               *)
LEMMA SaveKeeps ==
    ASSUME HearthShelfInv, NEW v \in Actors, HoldsAt(pc[v]),
           NEW m \in Local, NEW k \in PCs, ~HoldsAt(k),
           SaveConnections(v, loc[v].list), UNCHANGED budget,
           loc' = [loc EXCEPT ![v] = m], pc' = [pc EXCEPT ![v] = k],
           UNCHANGED <<serverVars, rows, identity>>,
           Fits(v, k, m), SeenTrue(m), ListTrue(m)
    PROVE  HearthShelfInv'
<1>1. Types
  BY DEF HearthShelfInv
<1>2. /\ conns' = loc[v].list /\ overwrote' = (overwrote \/ v \in stale)
      /\ stale' = {w \in Actors \ {v} : Holds(w)}
  BY DEF SaveConnections
<1>3. loc[v] \in Local /\ ListTrue(loc[v]) /\ (Calm => FollowsAt(v, pc[v], loc[v]))
  BY InHands
<1>4. loc'[v] = m /\ \A w \in Actors \ {v} : loc'[w] = loc[w]
  BY <1>1 DEF Types
<1>5. pc'[v] = k /\ \A w \in Actors \ {v} : pc'[w] = pc[w]
  BY <1>1 DEF Types
<1>6. Types'
  <2>1. loc' \in [Actors -> Local] /\ pc' \in [Actors -> PCs]
    BY <1>1 DEF Types
  <2>2. conns' \in [Servers -> ConnType]
    BY <1>2, <1>3 DEF Local
  <2>3. stale' \subseteq {w \in Actors : Holds(w)'}
    BY <1>2, <1>5 DEF Holds
  <2>4. overwrote' \in BOOLEAN
    BY <1>1, <1>2 DEF Types
  <2> QED BY <1>1, <2>1, <2>2, <2>3, <2>4 DEF Types, serverVars
<1>7. RowsNamed'
  BY DEF HearthShelfInv, RowsNamed
<1>8. ConnsNamed'
  BY <1>2, <1>3 DEF ConnsNamed, ListTrue, Names
<1>9. Placed'
  <2> SUFFICES ASSUME NEW w \in Actors
               PROVE  Fits(w, pc'[w], loc'[w])
    BY DEF Placed, Fits, PushFits, EditFits, ConnectFits, HoldsAt
  <2>1. CASE w = v
    BY <1>4, <1>5, <2>1
  <2>2. CASE w # v
    BY <1>4, <1>5, <2>2 DEF HearthShelfInv, Placed
  <2> QED BY <2>1, <2>2
<1>10. CopiesTrue'
  <2> SUFFICES ASSUME NEW w \in Actors
               PROVE  SeenTrue(loc[w])' /\ ListTrue(loc[w])'
    BY DEF CopiesTrue
  <2>1. PICK n \in Local : n = loc'[w]
    BY <1>6 DEF Types
  <2>2. SeenTrue(n) /\ ListTrue(n)
    <3>1. CASE w = v
      BY <1>4, <2>1, <3>1
    <3>2. CASE w # v
      BY <1>4, <2>1, <3>2 DEF HearthShelfInv, CopiesTrue
    <3> QED BY <3>1, <3>2
  <2> QED BY <2>1, <2>2 DEF SeenTrue, ListTrue, Names
<1>11. ASSUME Calm' PROVE Calm /\ v \notin stale
  <2>1. ~overwrote' /\ Spared("db") /\ Spared("crash")
    BY <1>11 DEF Calm, Spared
  <2> QED BY <1>2, <2>1 DEF Calm
<1>12. Follows'
  <2> SUFFICES ASSUME Calm', NEW w \in Actors
               PROVE  FollowsAt(w, pc[w], loc[w])'
    BY DEF Follows
  <2>1. CASE w = v
    BY <1>4, <1>5, <2>1 DEF FollowsAt, HoldsAt
  <2>2. CASE w # v
    <3>1. FollowsAt(w, pc[w], loc[w]) /\ loc'[w] = loc[w] /\ pc'[w] = pc[w]
      BY <1>4, <1>5, <1>11, <2>2, InHands
    <3>2. HoldsAt(pc[w]) => w \in stale'
      BY <1>2, <2>2 DEF Holds, HoldsAt
    <3> QED BY <3>1, <3>2 DEF FollowsAt, Gone, HoldsAt
  <2> QED BY <2>1, <2>2
<1>13. NoOrphans'
  <2> SUFFICES ASSUME Calm', NEW r \in RowIds, rows[r].there, rows[r].by \in Servers
               PROVE  \/ conns'[rows[r].by].dest = r
                      \/ \E w \in Connectors : loc'[w].list[rows[r].by].dest = r
    BY DEF NoOrphans, Me, Calm
  <2>1. PICK s \in Servers : s = rows[r].by
    OBVIOUS
  <2>2. conns[s].dest = r \/ \E w \in Connectors : loc[w].list[s].dest = r
    BY <1>11, <2>1 DEF HearthShelfInv, NoOrphans, Me, Calm
  <2>3. CASE conns[s].dest = r
    <3>1. loc[v].list[s].dest = r
      BY <1>3, <1>11, <2>3, HearthShelfAssumption DEF FollowsAt, Gone
    <3> QED BY <1>2, <2>1, <3>1
  <2>4. CASE \E w \in Connectors : loc[w].list[s].dest = r
    <3>1. PICK w \in Connectors : loc[w].list[s].dest = r
      BY <2>4
    <3>2. CASE w = v
      BY <1>2, <2>1, <3>1, <3>2
    <3>3. CASE w # v
      BY <1>4, <2>1, <3>1, <3>3 DEF Actors
    <3> QED BY <3>2, <3>3
  <2> QED BY <2>2, <2>3, <2>4
<1> QED BY <1>6, <1>7, <1>8, <1>9, <1>10, <1>12, <1>13 DEF HearthShelfInv

(* A push writes its copy back whole; what the copy names is what was      *)
(* stored, unless it was stale.                                            *)
LEMMA SaveRenewedKeeps ==
    ASSUME HearthShelfInv, NEW v \in Pushes, SaveRenewed(v)
    PROVE  HearthShelfInv'
<1>1. v \in Actors /\ pc[v] = "save" /\ HoldsAt(pc[v]) /\ Types
  BY DEF Actors, SaveRenewed, HoldsAt, HearthShelfInv
<1>2. UNCHANGED <<serverVars, rows, identity>> /\ NextRow(v)
  BY DEF SaveRenewed
<1>3. CASE NotSaved(v) /\ Spend("db")
  <2>1. "db" \in Events \ {"any"}
    BY DEF Events
  <2>2. Settled
    BY <1>1, <1>2, <1>3, <2>1 DEF Settled, Types, serverVars
  <2> QED BY <1>1, <1>2, <1>3, <2>2, NextRowKeeps DEF NotSaved
<1>4. CASE SaveConnections(v, Me(v).list) /\ UNCHANGED budget
  <2>1. PICK k : k = IF Left(v) = {} THEN "idle" ELSE "load"
    OBVIOUS
  <2>2. PICK m : m = After(v)
    OBVIOUS
  <2>3. loc' = [loc EXCEPT ![v] = m] /\ pc' = [pc EXCEPT ![v] = k]
    BY <1>2, <2>1, <2>2 DEF NextRow, Set, Goto
  <2>4. /\ m \in Local /\ k \in PCs /\ Fits(v, k, m) /\ SeenTrue(m) /\ ListTrue(m)
        /\ ~HoldsAt(k)
    BY <1>1, <2>1, <2>2, AfterFits
  <2> QED BY <1>1, <1>2, <1>4, <2>3, <2>4, SaveKeeps DEF Me
<1> QED BY <1>3, <1>4 DEF SaveRenewed

(* A connect flow writes its list whole, with the rows that it made.       *)
LEMMA SaveConnectedKeeps ==
    ASSUME HearthShelfInv, NEW v \in Connectors, SaveConnected(v)
    PROVE  HearthShelfInv'
<1>1. v \in Actors /\ pc[v] = "save" /\ HoldsAt(pc[v]) /\ Types
  BY DEF Actors, SaveConnected, HoldsAt, HearthShelfInv
<1>2. /\ UNCHANGED <<serverVars, rows, identity>>
      /\ loc' = [loc EXCEPT ![v] = Idle] /\ pc' = [pc EXCEPT ![v] = "idle"]
  BY DEF SaveConnected, Stop, Set, Goto
<1>3. PICK m \in Local : m = Idle
  BY <1>1, IdleFits
<1>4. Fits(v, "idle", m) /\ SeenTrue(m) /\ ListTrue(m) /\ FollowsAt(v, "idle", m)'
  BY <1>1, <1>3, IdleFits DEF FollowsAt, HoldsAt
<1>5. "idle" \in PCs /\ ~HoldsAt("idle")
  BY DEF PCs, PushPCs, HoldsAt
<1>6. CASE NotSaved(v) /\ Spend("db")
  <2>1. "db" \in Events \ {"any"}
    BY DEF Events
  <2>2. Settled
    BY <1>1, <1>2, <1>6, <2>1 DEF Settled, Types, serverVars
  <2>3. ~Calm'
    BY <1>1, <1>6, <2>1, SpentOn DEF Calm
  <2> QED BY <1>1, <1>2, <1>3, <1>4, <1>5, <1>6, <2>2, <2>3, QuietMove DEF NotSaved
<1>7. CASE SaveConnections(v, Me(v).list) /\ UNCHANGED budget
  BY <1>1, <1>2, <1>3, <1>4, <1>5, <1>7, SaveKeeps DEF Me
<1> QED BY <1>6, <1>7 DEF SaveConnected

-----------------------------------------------------------------------------
(* Requests that change a row *)

(* A request holds a row as the table has it.                              *)
LEMMA ReadRowKeeps ==
    ASSUME HearthShelfInv, NEW e \in Editors, NEW r \in RowIds, ReadRow(e, r)
    PROVE  HearthShelfInv'
<1>1. /\ e \in Actors /\ loc[e] \in Local /\ pc[e] = "idle" /\ Fits(e, "idle", loc[e])
      /\ SeenTrue(loc[e]) /\ ListTrue(loc[e]) /\ e \notin stale
  BY InHands DEF Actors, ReadRow, HoldsAt
<1>2. /\ Types /\ UNCHANGED <<serverVars, rows, conns, identity, stale, overwrote>>
      /\ rows[r].there /\ Spend("edit")
  BY DEF HearthShelfInv, ReadRow
<1>3. e \notin Connectors /\ e \notin Pushes /\ "edit" \in Events \ {"any"}
  BY HearthShelfAssumption DEF Events
<1>4. PICK l \in Local : l = loc[e]
  BY <1>1
<1>5. PICK d \in RowType : d = rows[r]
  BY <1>2 DEF Types
<1>6. PICK m : m = [l EXCEPT !.row = r, !.seen[r] = d]
  OBVIOUS
<1>7. /\ m \in Local /\ m.row = r /\ m.seen[r] = d
      /\ \A q \in RowIds \ {r} : m.seen[q] = l.seen[q]
      /\ m.server = l.server /\ m.list = l.list /\ m.new = l.new
  BY <1>6 DEF Local
<1>8. PICK k \in {"toggle", "rewrite", "delete"} : pc' = [pc EXCEPT ![e] = k]
  BY DEF ReadRow
<1>9. loc' = [loc EXCEPT ![e] = m]
  BY <1>4, <1>5, <1>6 DEF ReadRow, Set, Me
<1>10. Settled
  BY <1>2, <1>3 DEF Settled, Types, serverVars
<1>11. Fits(e, k, m)
  <2>1. m.server = "none" /\ m.list = NoList /\ m.new = NoConn
    BY <1>1, <1>4, <1>7 DEF Fits, HoldsAt
  <2>2. k \in EditPCs /\ ~HoldsAt(k) /\ k # "idle"
    BY DEF EditPCs, HoldsAt
  <2> QED BY <1>2, <1>3, <1>5, <1>7, <2>1, <2>2 DEF Fits, EditFits
<1>12. SeenTrue(m)
  BY <1>1, <1>4, <1>5, <1>7 DEF SeenTrue, HearthShelfInv, RowsNamed
<1>13. ListTrue(m)
  BY <1>1, <1>4, <1>7 DEF ListTrue
<1>14. FollowsAt(e, k, m)'
  BY <1>3 DEF FollowsAt, HoldsAt
<1> QED BY <1>1, <1>2, <1>3, <1>7, <1>8, <1>9, <1>10, <1>11, <1>12, <1>13, <1>14, QuietMove
        DEF PCs, EditPCs

(* A row is written as it was read, changed or deleted: it keeps its       *)
(* owner, and one that is deleted meanwhile is not written.                *)
LEMMA WriteRowKeeps ==
    ASSUME HearthShelfInv, NEW e \in Editors, NEW to \in RowType,
           to.by = Mine(e).by, pc[e] \in {"toggle", "rewrite", "delete"}, WriteRow(e, to)
    PROVE  HearthShelfInv'
<1>1. /\ e \in Actors /\ loc[e] \in Local /\ Fits(e, pc[e], loc[e])
      /\ SeenTrue(loc[e]) /\ e \notin stale
  BY InHands DEF Actors, HoldsAt
<1>2. Types /\ UNCHANGED <<serverVars, conns, identity, stale, overwrote>>
  BY DEF HearthShelfInv, WriteRow
<1>3. e \notin Connectors /\ e \notin Pushes /\ "db" \in Events \ {"any"}
  BY HearthShelfAssumption DEF Events
<1>4. PICK m \in Local : m = Idle
  BY <1>1, IdleFits
<1>5. /\ Fits(e, "idle", m) /\ SeenTrue(m) /\ ListTrue(m) /\ FollowsAt(e, "idle", m)'
      /\ "idle" \in PCs
  BY <1>1, <1>4, IdleFits DEF FollowsAt, HoldsAt, PCs, PushPCs
<1>6. loc' = [loc EXCEPT ![e] = m] /\ pc' = [pc EXCEPT ![e] = "idle"]
  BY <1>4 DEF WriteRow, Stop, Set, Goto
<1>7. PICK r \in RowIds : r = loc[e].row /\ loc[e].seen[r].there
  BY <1>1, <1>3 DEF Fits, EditFits
<1>8. CASE UNCHANGED rows /\ (UNCHANGED budget \/ Spend("db"))
  <2>1. Settled
    BY <1>2, <1>3, <1>8 DEF Settled, Types, serverVars
  <2> QED BY <1>1, <1>2, <1>3, <1>4, <1>5, <1>6, <1>8, <2>1, QuietMove
<1>9. CASE rows[r].there /\ rows' = [rows EXCEPT ![r] = to] /\ UNCHANGED budget
  <2>1. rows[r].by = to.by /\ to.by # "none"
    BY <1>1, <1>7 DEF SeenTrue, Mine, Me
  <2>2. rows' \in [RowIds -> RowType] /\ RowsKeep
    BY <1>2, <1>9, <2>1 DEF Types, RowsKeep, HearthShelfInv, RowsNamed
  <2>3. SeenTrue(m)' /\ ListTrue(m)'
    BY <1>5, <2>2, CopiesStay
  <2>4. Settled
    BY <1>2, <1>9 DEF Settled, Types, serverVars
  <2>5. ConnsKeep /\ conns' \in [Servers -> ConnType]
    BY <1>2 DEF ConnsKeep, HearthShelfInv, ConnsNamed, Names, Types
  <2>6. RowsMade({e}) /\ ListsKept({e})
    BY <1>2, <1>3, <1>9 DEF RowsMade, ListsKept, Types
  <2>7. loc \in [Actors -> Local] /\ \A w \in Actors : Alike(loc[w], loc[w])
    BY <1>2 DEF Alike, Types
  <2> QED BY <1>1, <1>2, <1>4, <1>5, <1>6, <2>2, <2>3, <2>4, <2>5, <2>6, <2>7, Move
<1> QED BY <1>7, <1>8, <1>9 DEF WriteRow, Me

(* Requests leave a row with the server it belongs to.                     *)
LEMMA EditStepKeeps ==
    ASSUME HearthShelfInv, NEW e \in Editors, Toggle(e) \/ Rewrite(e) \/ Delete(e)
    PROVE  HearthShelfInv'
<1>1. pc[e] \in {"toggle", "rewrite", "delete"}
  BY DEF Toggle, Rewrite, Delete
<1>2. e \in Actors /\ loc[e] \in Local /\ Fits(e, pc[e], loc[e])
  BY InHands DEF Actors
<1>3. PICK r \in RowIds : r = loc[e].row
  BY <1>1, <1>2 DEF Fits, EditFits
<1>4. PICK d \in RowType : d = Mine(e)
  BY <1>2, <1>3 DEF Mine, Me, Local
<1>5. CASE Toggle(e)
  <2>1. PICK to : to = [d EXCEPT !.enabled = ~d.enabled]
    OBVIOUS
  <2>2. to \in RowType /\ to.by = d.by
    BY <2>1 DEF RowType
  <2>3. WriteRow(e, to)
    BY <1>4, <1>5, <2>1 DEF Toggle
  <2> QED BY <1>1, <1>4, <2>2, <2>3, WriteRowKeeps
<1>6. CASE Rewrite(e)
  <2>1. WriteRow(e, d)
    BY <1>4, <1>6 DEF Rewrite
  <2> QED BY <1>1, <1>4, <2>1, WriteRowKeeps
<1>7. CASE Delete(e)
  <2>1. PICK to : to = [Absent EXCEPT !.by = d.by]
    OBVIOUS
  <2>2. to \in RowType /\ to.by = d.by
    BY <2>1 DEF RowType, Absent, Keys
  <2>3. WriteRow(e, to)
    BY <1>4, <1>7, <2>1 DEF Delete
  <2> QED BY <1>1, <1>4, <2>2, <2>3, WriteRowKeeps
<1> QED BY <1>5, <1>6, <1>7

(* Steps in which no actor moves.                                          *)
LEMMA Around ==
    ASSUME HearthShelfInv, loc' \in [Actors -> Local],
           \A w \in Actors : Alike(loc'[w], loc[w]), pc' = pc, Settled,
           stale' = stale, overwrote' = overwrote,
           conns' \in [Servers -> ConnType], ConnsKeep,
           rows' \in [RowIds -> RowType], RowsKeep, RowsMade({})
    PROVE  HearthShelfInv'
<1>1. Types
  BY DEF HearthShelfInv
<1>2. budget' \in [Events -> Nat] /\ \A j \in Events : budget'[j] <= budget[j]
  BY <1>1, Spending DEF Settled
<1>3. \A k \in Events : budget'[k] <= Budget[k]
  BY <1>1, <1>2, HearthShelfAssumption DEF Types
<1>4. Types'
  BY <1>1, <1>2, <1>3 DEF Types, Settled, Holds
<1>5. OthersKeep({}) /\ MoversFit({}) /\ MoversFollow({}) /\ ListsKept({})
  BY DEF OthersKeep, MoversFit, MoversFollow, ListsKept
<1>6. Onward
  BY <1>2 DEF Onward
<1> QED BY <1>4, <1>5, <1>6, Frame

(* A row of the user's own takes an id that no row, no connection and no   *)
(* copy names.                                                             *)
LEMMA CreateKeeps ==
    ASSUME HearthShelfInv, NEW e \in Editors, Create(e)
    PROVE  HearthShelfInv'
<1>1. Types /\ UNCHANGED <<serverVars, conns, identity, pc, loc, stale, overwrote>>
  BY DEF HearthShelfInv, Create
<1>2. PICK r \in RowIds : r = Least(Free) /\ rows[r] = Absent
  <2>1. Free \in SUBSET RowIds /\ Free # {}
    BY DEF Free, Create
  <2>2. Least(Free) \in Free
    BY <2>1, LeastIn
  <2> QED BY <2>2 DEF Free
<1>3. PICK to : to = [there |-> TRUE, enabled |-> TRUE, key |-> "good", by |-> "user"]
  OBVIOUS
<1>4. to \in RowType /\ to.by = "user"
  BY <1>3 DEF RowType, Keys
<1>5. rows' = [rows EXCEPT ![r] = to]
  BY <1>2, <1>3 DEF Create
<1>6. rows[r].by = "none" /\ "user" # "none"
  BY <1>2 DEF Absent
<1>7. rows' \in [RowIds -> RowType] /\ RowsKeep
  BY <1>1, <1>4, <1>5, <1>6 DEF Types, RowsKeep, HearthShelfInv, RowsNamed
<1>8. Settled
  <2>1. Spend("edit") /\ "edit" \in Events \ {"any"}
    BY DEF Create, Events
  <2> QED BY <1>1, <2>1 DEF Settled, Types, serverVars
<1>9. ConnsKeep
  BY <1>1 DEF ConnsKeep, HearthShelfInv, ConnsNamed, Names
<1>10. RowsMade({})
  BY <1>1, <1>4, <1>5, HearthShelfAssumption DEF RowsMade, Types
<1>11. \A w \in Actors : Alike(loc'[w], loc[w])
  BY <1>1 DEF Alike
<1> QED BY <1>1, <1>7, <1>8, <1>9, <1>10, <1>11, Around DEF Types

-----------------------------------------------------------------------------
(* Connect flows *)

(* A flow that has nothing in hand goes on to another place.               *)
LEMMA PlainMove ==
    ASSUME HearthShelfInv, NEW v \in Connectors, NEW m \in Local, NEW k \in ConnectPCs,
           loc' = [loc EXCEPT ![v] = m], pc' = [pc EXCEPT ![v] = k],
           UNCHANGED <<rows, conns, stale, overwrote>>, Settled,
           ~HoldsAt(pc[v]), ~HoldsAt(k),
           m.server = "none", m.new = NoConn, m.list = NoList, m.row = NoRow,
           m.seen = loc[v].seen \/ m.seen = Idle.seen
    PROVE  HearthShelfInv'
<1>1. /\ v \in Actors /\ loc[v] \in Local /\ Fits(v, pc[v], loc[v]) /\ SeenTrue(loc[v])
      /\ v \notin stale
  BY InHands DEF Actors
<1>2. v \notin Pushes /\ v \notin Editors
  BY HearthShelfAssumption
<1>3. Fits(v, k, m)
  BY <1>2 DEF Fits, ConnectFits, HoldsAt
<1>4. SeenTrue(m)
  BY <1>1, IdleFits DEF SeenTrue
<1>5. ListTrue(m)
  BY DEF ListTrue, NoList, Names, Tied, NoConn
<1>6. FollowsAt(v, k, m)'
  BY DEF FollowsAt, HoldsAt
<1>7. m.list = loc[v].list
  BY <1>1 DEF Fits
<1> QED BY <1>1, <1>3, <1>4, <1>5, <1>6, <1>7, QuietMove DEF PCs

(* Beginning a flow, registering and giving up touch neither rows nor      *)
(* connections.                                                            *)
LEMMA BeginsKeep ==
    ASSUME HearthShelfInv, NEW v \in Connectors,
           \/ ConnectStart(v) \/ Poll(v) \/ Register(v) \/ SaveApp(v) \/ SaveSecret(v)
           \/ GiveUp(v)
    PROVE  HearthShelfInv'
<1>1. /\ v \in Actors /\ loc[v] \in Local /\ Fits(v, pc[v], loc[v])
      /\ Types /\ loc \in [Actors -> Local]
  BY InHands DEF Actors, HearthShelfInv, Types
<1>2. v \notin Pushes /\ v \notin Editors
  BY HearthShelfAssumption
<1>3. PICK l \in Local : l = loc[v]
  BY <1>1
<1>4. ~HoldsAt(pc[v])
  BY DEF ConnectStart, Poll, Register, SaveApp, SaveSecret, GiveUp, HoldsAt
<1>5. l.server = "none" /\ l.new = NoConn /\ l.list = NoList /\ l.row = NoRow
  BY <1>1, <1>3, <1>4 DEF Fits, ConnectFits, HoldsAt
<1>6. loc = [loc EXCEPT ![v] = l]
  BY <1>1, <1>3
<1>7. PICK i \in Local : i = Idle
  BY <1>1, IdleFits
<1>8. CASE ConnectStart(v) \/ Poll(v)
  <2>1. PICK k \in {"wait", "register"} : pc' = [pc EXCEPT ![v] = k]
    BY <1>8 DEF ConnectStart, Poll, Goto
  <2>2. UNCHANGED budget \/ Begun \/ BegunAmiss \/ Spend("db")
    BY <1>8 DEF ConnectStart, Poll, Begun, BegunAmiss
  <2>3. "db" \in Events \ {"any"}
    BY DEF Events
  <2>4. UNCHANGED <<serverVars, rows, conns, identity, loc, stale, overwrote>>
    BY <1>8 DEF ConnectStart, Poll
  <2>5. Settled
    BY <1>1, <2>2, <2>3, <2>4 DEF Settled, Types, serverVars
  <2>6. k \in ConnectPCs /\ ~HoldsAt(k)
    BY <2>1 DEF ConnectPCs, HoldsAt
  <2> QED BY <1>3, <1>4, <1>5, <1>6, <2>1, <2>4, <2>5, <2>6, PlainMove
<1>9. CASE Register(v)
  <2>1. apps' \in Nat
    BY <1>1, <1>9 DEF Register, Types
  <2>2. PICK m : m = [l EXCEPT !.reg = apps']
    OBVIOUS
  <2>3. /\ m \in Local /\ m.server = l.server /\ m.new = l.new /\ m.list = l.list
        /\ m.row = l.row /\ m.seen = l.seen
    BY <2>1, <2>2 DEF Local
  <2>4. loc' = [loc EXCEPT ![v] = m] /\ pc' = [pc EXCEPT ![v] = "saveapp"]
    BY <1>3, <1>9, <2>2 DEF Register, Set, Goto, Me
  <2>5. Settled
    BY <1>1, <1>9, <2>1 DEF Register, Settled, Types
  <2>6. "saveapp" \in ConnectPCs /\ ~HoldsAt("saveapp")
    BY DEF ConnectPCs, HoldsAt
  <2> QED BY <1>3, <1>4, <1>5, <1>9, <2>3, <2>4, <2>5, <2>6, PlainMove DEF Register
<1>10. CASE SaveApp(v)
  <2>1. PICK n \in Nat : n = l.reg
    BY DEF Local
  <2>2. identity' \in [app : Nat, secret : Nat]
    BY <1>1, <1>3, <1>10, <2>1 DEF SaveApp, Types, Me
  <2>3. Settled
    BY <1>1, <1>10, <2>2 DEF SaveApp, Settled, Types, serverVars
  <2>4. loc' = [loc EXCEPT ![v] = l] /\ pc' = [pc EXCEPT ![v] = "savesecret"]
    BY <1>6, <1>10 DEF SaveApp, Goto
  <2>5. "savesecret" \in ConnectPCs /\ ~HoldsAt("savesecret")
    BY DEF ConnectPCs, HoldsAt
  <2> QED BY <1>3, <1>4, <1>5, <1>10, <2>3, <2>4, <2>5, PlainMove DEF SaveApp
<1>11. CASE SaveSecret(v)
  <2>1. PICK n \in Nat : n = l.reg
    BY DEF Local
  <2>2. identity' \in [app : Nat, secret : Nat]
    BY <1>1, <1>3, <1>11, <2>1 DEF SaveSecret, Types, Me
  <2>3. Settled
    BY <1>1, <1>11, <2>2 DEF SaveSecret, Settled, Types, serverVars
  <2>4. PICK m : m = [l EXCEPT !.reg = 0]
    OBVIOUS
  <2>5. /\ m \in Local /\ m.server = l.server /\ m.new = l.new /\ m.list = l.list
        /\ m.row = l.row /\ m.seen = l.seen
    BY <2>4 DEF Local
  <2>6. loc' = [loc EXCEPT ![v] = m] /\ pc' = [pc EXCEPT ![v] = "wait"]
    BY <1>3, <1>11, <2>4 DEF SaveSecret, Set, Goto, Me
  <2>7. "wait" \in ConnectPCs /\ ~HoldsAt("wait")
    BY DEF ConnectPCs, HoldsAt
  <2> QED BY <1>3, <1>4, <1>5, <1>11, <2>3, <2>5, <2>6, <2>7, PlainMove DEF SaveSecret
<1>12. CASE GiveUp(v)
  <2>1. loc' = [loc EXCEPT ![v] = i] /\ pc' = [pc EXCEPT ![v] = "idle"]
    BY <1>7, <1>12 DEF GiveUp, Stop, Set, Goto
  <2>2. Settled
    BY <1>1, <1>12 DEF GiveUp, Settled, Types, serverVars
  <2>3. /\ i.server = "none" /\ i.new = NoConn /\ i.list = NoList /\ i.row = NoRow
        /\ i.seen = Idle.seen
    BY <1>7 DEF Idle
  <2>4. "idle" \in ConnectPCs /\ ~HoldsAt("idle")
    BY DEF ConnectPCs, HoldsAt
  <2> QED BY <1>4, <1>12, <2>1, <2>2, <2>3, <2>4, PlainMove DEF GiveUp
<1> QED BY <1>8, <1>9, <1>10, <1>11, <1>12

(* A flow that waits for the user has nothing in hand; then it loads the   *)
(* stored connections, which are the newest, or none if the read fails.    *)
LEMMA ApproveKeeps ==
    ASSUME HearthShelfInv, NEW v \in Connectors, NEW S \in SUBSET Servers, Approve(v, S)
    PROVE  HearthShelfInv'
<1>1. /\ v \in Actors /\ loc[v] \in Local /\ pc[v] = "wait" /\ Fits(v, "wait", loc[v])
      /\ SeenTrue(loc[v]) /\ v \notin stale
  BY InHands DEF Actors, Approve, HoldsAt
<1>2. /\ Types /\ "db" \in Events \ {"any"}
      /\ UNCHANGED <<serverVars, rows, conns, identity, stale, overwrote>>
  BY DEF HearthShelfInv, Approve, Events
<1>3. v \notin Pushes /\ v \notin Editors
  BY HearthShelfAssumption
<1>4. PICK l \in Local : l = loc[v]
  BY <1>1
<1>17. NoList \in [Servers -> ConnType] /\ \A s \in Servers : Names(NoList[s], s)
  BY DEF NoList, NoConn, ConnType, Tokens, Lives, Names, Tied
<1>18. PICK list : /\ loc' = [loc EXCEPT ![v] = [l EXCEPT !.list = list, !.intros = S]]
                   /\ \/ list = conns /\ UNCHANGED budget
                      \/ list = NoList /\ Spend("db")
  BY <1>4 DEF Approve, Set, Me
<1>5. PICK m : m = [l EXCEPT !.list = list, !.intros = S]
  OBVIOUS
<1>19. list \in [Servers -> ConnType] /\ \A s \in Servers : Names(list[s], s)
  BY <1>2, <1>17, <1>18 DEF Types, HearthShelfInv, ConnsNamed
<1>6. /\ m \in Local /\ m.list = list /\ m.server = l.server /\ m.new = l.new
      /\ m.row = l.row /\ m.seen = l.seen
  BY <1>5, <1>19 DEF Local
<1>7. loc' = [loc EXCEPT ![v] = m] /\ pc' = [pc EXCEPT ![v] = "intro"]
  BY <1>5, <1>18 DEF Approve, Goto
<1>8. Settled
  BY <1>2, <1>18 DEF Settled, Types, serverVars
<1>9. Fits(v, "intro", m)
  BY <1>1, <1>3, <1>4, <1>6 DEF Fits, ConnectFits, HoldsAt, ConnectPCs
<1>10. SeenTrue(m) /\ ListTrue(m)
  BY <1>1, <1>4, <1>6, <1>19 DEF SeenTrue, ListTrue
<1>20. Calm' => list = conns
  BY <1>2, <1>18, SpentOn DEF Calm, Spared
<1>11. Calm' => FollowsAt(v, "intro", m)'
  BY <1>2, <1>6, <1>20 DEF FollowsAt
<1>12. RowsKeep /\ ConnsKeep
  BY <1>2 DEF RowsKeep, ConnsKeep, HearthShelfInv, RowsNamed, ConnsNamed, Names
<1>13. RowsMade({v})
  BY <1>2 DEF RowsMade
<1>14. ListsKept({v})
  <2>1. \A s \in Servers : loc[v].list[s].dest = NoRow
    BY <1>1 DEF Fits, HoldsAt, NoList, NoConn
  <2> QED BY <2>1 DEF ListsKept, Gone
<1>15. SeenTrue(m)' /\ ListTrue(m)'
  BY <1>6, <1>10, <1>12, CopiesStay
<1>16. /\ loc \in [Actors -> Local] /\ \A w \in Actors : Alike(loc[w], loc[w])
       /\ rows' \in [RowIds -> RowType] /\ conns' \in [Servers -> ConnType]
  BY <1>2 DEF Alike, Types
<1> QED BY <1>1, <1>2, <1>6, <1>7, <1>8, <1>9, <1>11, <1>12, <1>13, <1>14, <1>15, <1>16, Move
        DEF PCs, ConnectPCs, HoldsAt

(* A flow that is through with a server.                                   *)
Onto(ln, left) == [Idle EXCEPT !.list = ln, !.intros = left]

(* A flow that is done with a server has a list that fits it at the next   *)
(* one, or where it saves.                                                 *)
LEMMA OntoFits ==
    ASSUME NEW v \in Connectors, NEW ln \in [Servers -> ConnType],
           NEW left \in SUBSET Servers,
           NEW k, k = IF left = {} THEN "save" ELSE "intro",
           \A s \in Servers : Names(ln[s], s)
    PROVE  /\ Onto(ln, left) \in Local /\ k \in PCs /\ HoldsAt(k) /\ k # "ensure"
           /\ Fits(v, k, Onto(ln, left)) /\ Onto(ln, left).list = ln
           /\ SeenTrue(Onto(ln, left)) /\ ListTrue(Onto(ln, left))
<1>1. v \in Actors /\ v \notin Pushes /\ v \notin Editors
  BY HearthShelfAssumption DEF Actors
<1>2. PICK i \in Local : i = Idle
  BY <1>1, IdleFits
<1>3. PICK m : m = [i EXCEPT !.list = ln, !.intros = left]
  OBVIOUS
<1>4. /\ m \in Local /\ m.list = ln /\ m.server = i.server /\ m.new = i.new
      /\ m.row = i.row /\ m.seen = i.seen
  BY <1>3 DEF Local
<1>5. m.server = "none" /\ m.new = NoConn /\ m.row = NoRow
  BY <1>2, <1>4 DEF Idle
<1>6. k \in ConnectPCs /\ HoldsAt(k) /\ k # "ensure" /\ k # "get"
  BY DEF ConnectPCs, HoldsAt
<1>7. Fits(v, k, m)
  BY <1>1, <1>5, <1>6 DEF Fits, ConnectFits
<1>8. SeenTrue(m)
  BY <1>1, <1>2, <1>4, IdleFits DEF SeenTrue
<1>9. ListTrue(m)
  BY <1>4 DEF ListTrue
<1>10. Onto(ln, left) = m
  BY <1>2, <1>3 DEF Onto
<1> QED BY <1>4, <1>6, <1>7, <1>8, <1>9, <1>10 DEF PCs

(* The flow leaves a server out: its copy stays as it was.                 *)
LEMMA LeaveOutKeeps ==
    ASSUME HearthShelfInv, NEW v \in Connectors, pc[v] \in {"get", "ensure"},
           NextIntro(v, Me(v).list), Settled,
           UNCHANGED <<rows, conns, stale, overwrote>>
    PROVE  HearthShelfInv'
<1>1. /\ v \in Actors /\ loc[v] \in Local /\ Fits(v, pc[v], loc[v]) /\ ListTrue(loc[v])
      /\ Calm => FollowsAt(v, pc[v], loc[v])
  BY InHands DEF Actors
<1>2. PICK left \in SUBSET Servers : left = Me(v).intros \ {Me(v).server}
  BY <1>1 DEF Me, Local
<1>3. PICK ln \in [Servers -> ConnType] : ln = loc[v].list
  BY <1>1 DEF Local
<1>4. PICK k : k = IF left = {} THEN "save" ELSE "intro"
  OBVIOUS
<1>5. PICK m : m = Onto(ln, left)
  OBVIOUS
<1>6. loc' = [loc EXCEPT ![v] = m] /\ pc' = [pc EXCEPT ![v] = k]
  BY <1>2, <1>3, <1>4, <1>5 DEF NextIntro, Goto, Set, Me, Onto
<1>7. \A s \in Servers : Names(ln[s], s)
  BY <1>1, <1>3 DEF ListTrue
<1>8. /\ m \in Local /\ k \in PCs /\ HoldsAt(k) /\ k # "ensure" /\ Fits(v, k, m)
      /\ m.list = ln /\ SeenTrue(m) /\ ListTrue(m)
  BY <1>4, <1>5, <1>7, OntoFits
<1>9. Calm => FollowsAt(v, k, m)'
  BY <1>1, <1>3, <1>8 DEF FollowsAt, Gone, HoldsAt
<1> QED BY <1>1, <1>3, <1>6, <1>8, <1>9, QuietMove

(* A server that cannot be introduced to is left out of the flow.          *)
LEMMA IntroduceFailsKeeps ==
    ASSUME HearthShelfInv, NEW v \in Connectors, NEW s \in Servers, IntroduceFails(v, s)
    PROVE  HearthShelfInv'
<1>1. /\ v \in Actors /\ loc[v] \in Local /\ pc[v] = "intro" /\ Fits(v, "intro", loc[v])
      /\ SeenTrue(loc[v]) /\ ListTrue(loc[v])
      /\ Calm => FollowsAt(v, "intro", loc[v])
  BY InHands DEF Actors, IntroduceFails
<1>2. /\ Types /\ UNCHANGED <<serverVars, rows, conns, identity, stale, overwrote>>
      /\ Spend("net") /\ "net" \in Events \ {"any"}
  BY DEF HearthShelfInv, IntroduceFails, Events
<1>3. v \notin Pushes /\ v \notin Editors
  BY HearthShelfAssumption
<1>4. PICK l \in Local : l = loc[v]
  BY <1>1
<1>5. PICK left \in SUBSET Servers : left = l.intros \ {s}
  BY DEF Local
<1>6. PICK m : m = [l EXCEPT !.intros = left]
  OBVIOUS
<1>7. /\ m \in Local /\ m.list = l.list /\ m.server = l.server /\ m.new = l.new
      /\ m.row = l.row /\ m.seen = l.seen
  BY <1>6 DEF Local
<1>8. PICK k : k = IF left = {} THEN "save" ELSE "intro"
  OBVIOUS
<1>9. loc' = [loc EXCEPT ![v] = m] /\ pc' = [pc EXCEPT ![v] = k]
  BY <1>4, <1>5, <1>6, <1>8 DEF IntroduceFails, Set, Goto, Me
<1>10. k \in ConnectPCs /\ HoldsAt(k) /\ k # "ensure" /\ k # "get"
  BY <1>8 DEF ConnectPCs, HoldsAt
<1>11. Settled
  BY <1>2 DEF Settled, Types, serverVars
<1>12. Fits(v, k, m)
  BY <1>1, <1>3, <1>4, <1>7, <1>10 DEF Fits, ConnectFits
<1>13. SeenTrue(m) /\ ListTrue(m)
  BY <1>1, <1>4, <1>7 DEF SeenTrue, ListTrue
<1>14. Calm => FollowsAt(v, k, m)'
  BY <1>1, <1>2, <1>4, <1>7, <1>10 DEF FollowsAt, Gone, HoldsAt
<1> QED BY <1>1, <1>2, <1>4, <1>7, <1>9, <1>10, <1>11, <1>12, <1>13, <1>14, QuietMove DEF PCs

(* The row is read: unless the statement fails, a flow goes on without a   *)
(* row only if there is none.                                              *)
LEMMA GetDestinationKeeps ==
    ASSUME HearthShelfInv, NEW v \in Connectors, GetDestination(v)
    PROVE  HearthShelfInv'
<1>1. /\ v \in Actors /\ loc[v] \in Local /\ pc[v] = "get" /\ Fits(v, "get", loc[v])
      /\ SeenTrue(loc[v]) /\ ListTrue(loc[v])
      /\ Calm => FollowsAt(v, "get", loc[v])
  BY InHands DEF Actors, GetDestination
<1>2. /\ Types /\ UNCHANGED <<serverVars, rows, conns, identity, stale, overwrote>>
      /\ rows \in [RowIds -> RowType] /\ loc \in [Actors -> Local]
  BY DEF HearthShelfInv, GetDestination, Types
<1>3. /\ v \notin Pushes /\ v \notin Editors
      /\ "net" \in Events \ {"any"} /\ "db" \in Events \ {"any"}
  BY HearthShelfAssumption DEF Events
<1>4. PICK l \in Local : l = loc[v]
  BY <1>1
<1>5. Settled
  <2>1. UNCHANGED budget \/ Spend("db") \/ Spend("net")
    BY DEF GetDestination
  <2> QED BY <1>2, <1>3, <2>1 DEF Settled, Types, serverVars
<1>6. "ensure" \in ConnectPCs /\ "ensure" \in PCs /\ HoldsAt("ensure") /\ HoldsAt("get")
  BY DEF ConnectPCs, PCs, HoldsAt
<1>7. ASSUME NEW r \in RowIds, r = l.new.dest, rows[r].there,
             Set(v, [Me(v) EXCEPT !.row = r, !.seen[r] = rows[r]]), Goto(v, "ensure")
      PROVE  HearthShelfInv'
  <2>1. PICK d \in RowType : d = rows[r]
    BY <1>2
  <2>2. PICK m : m = [l EXCEPT !.row = r, !.seen[r] = d]
    OBVIOUS
  <2>3. /\ m \in Local /\ m.row = r /\ m.seen[r] = d
        /\ \A q \in RowIds \ {r} : m.seen[q] = l.seen[q]
        /\ m.server = l.server /\ m.list = l.list /\ m.new = l.new /\ m.intros = l.intros
    BY <2>2 DEF Local
  <2>4. loc' = [loc EXCEPT ![v] = m] /\ pc' = [pc EXCEPT ![v] = "ensure"]
    BY <1>4, <1>7, <2>1, <2>2 DEF Set, Goto, Me
  <2>5. Fits(v, "ensure", m)
    BY <1>1, <1>3, <1>4, <1>6, <1>7, <2>3 DEF Fits, ConnectFits
  <2>6. SeenTrue(m)
    BY <1>1, <1>4, <1>7, <2>1, <2>3 DEF SeenTrue, HearthShelfInv, RowsNamed
  <2>7. ListTrue(m)
    BY <1>1, <1>4, <2>3 DEF ListTrue
  <2>8. m.row # NoRow
    BY <2>3, HearthShelfAssumption
  <2>9. Calm => FollowsAt(v, "ensure", m)'
    BY <1>1, <1>2, <1>4, <1>6, <2>3, <2>8 DEF FollowsAt, Gone
  <2> QED BY <1>1, <1>2, <1>4, <1>5, <1>6, <2>3, <2>4, <2>5, <2>6, <2>7, <2>9, QuietMove
<1>8. CASE /\ IF l.new.dest \in {q \in RowIds : rows[q].there} THEN Spend("db")
              ELSE UNCHANGED budget
           /\ Goto(v, "ensure") /\ UNCHANGED loc
  <2>1. loc' = [loc EXCEPT ![v] = l] /\ pc' = [pc EXCEPT ![v] = "ensure"]
    BY <1>2, <1>4, <1>8 DEF Goto
  <2>2. l.row = NoRow
    BY <1>1, <1>3, <1>4 DEF Fits, ConnectFits
  <2>3. Fits(v, "ensure", l)
    BY <1>1, <1>3, <1>4, <1>6, <2>2 DEF Fits, ConnectFits
  <2>4. ASSUME Calm, Calm' PROVE Gone(l.new.dest)
    <3>1. ~Spend("db")
      BY <1>2, <1>3, <2>4, SpentOn DEF Calm
    <3>2. l.new.dest \in RowIds \cup {NoRow}
      BY DEF Local, ConnType
    <3> QED BY <1>8, <3>1, <3>2 DEF Gone
  <2>5. Calm /\ Calm' => FollowsAt(v, "ensure", l)'
    BY <1>1, <1>2, <1>4, <1>6, <2>4 DEF FollowsAt, Gone
  <2> QED BY <1>1, <1>2, <1>4, <1>5, <1>6, <2>1, <2>3, <2>5, QuietMove
<1>9. CASE Spend("net") /\ NextIntro(v, Me(v).list)
  BY <1>1, <1>2, <1>5, <1>9, LeaveOutKeeps
<1>10. l = Me(v)
  BY <1>4 DEF Me
<1> QED BY <1>7, <1>8, <1>9, <1>10 DEF GetDestination

(* New credentials end the ones that anybody has; the rows of the copies   *)
(* are what they were.                                                     *)
LEMMA IntroduceKeeps ==
    ASSUME HearthShelfInv, NEW v \in Connectors, NEW s \in Servers,
           NEW life \in {"fresh", "none"}, NEW token \in {"cur", "none"},
           Introduce(v, s, life, token)
    PROVE  HearthShelfInv'
<1>1. /\ v \in Actors /\ loc[v] \in Local /\ pc[v] = "intro" /\ Fits(v, "intro", loc[v])
      /\ SeenTrue(loc[v]) /\ ListTrue(loc[v]) /\ s \in loc[v].intros
      /\ Calm => FollowsAt(v, "intro", loc[v])
  BY InHands DEF Actors, Introduce, Me
<1>2. /\ Types /\ UNCHANGED <<apps, rows, identity, stale, overwrote>>
      /\ rows \in [RowIds -> RowType] /\ loc \in [Actors -> Local]
      /\ conns \in [Servers -> ConnType]
  BY DEF HearthShelfInv, Introduce, Types
<1>3. /\ v \notin Pushes /\ v \notin Editors
      /\ {"nolife", "notoken"} \subseteq Events \ {"any"}
  BY HearthShelfAssumption DEF Events
<1>4. PICK L : L = KilledIn(s)
  OBVIOUS
<1>5. L \in [Actors -> Local] /\ \A w \in Actors : Alike(L[w], loc[w])
  BY <1>2, <1>4, KilledCopies
<1>6. PICK l \in Local : l = L[v]
  BY <1>1, <1>5
<1>7. Alike(l, loc[v])
  BY <1>1, <1>5, <1>6
<1>8. PICK n \in ConnType : /\ n = [dest |-> Me(v).list[s].dest, token |-> token,
                                    life |-> life, needs |-> FALSE]
                            /\ n.dest = loc[v].list[s].dest
  <2>1. loc[v].list[s].dest \in RowIds \cup {NoRow}
    BY <1>1 DEF Local, ConnType
  <2>2. PICK d \in RowIds \cup {NoRow} : d = loc[v].list[s].dest
    BY <2>1
  <2>3. [dest |-> d, token |-> token, life |-> life, needs |-> FALSE] \in ConnType
    BY DEF ConnType, Tokens, Lives
  <2> QED BY <2>2, <2>3 DEF Me
<1>9. PICK m : m = [l EXCEPT !.server = s, !.new = n]
  OBVIOUS
<1>10. /\ m \in Local /\ m.server = s /\ m.new = n /\ m.list = l.list
       /\ m.row = l.row /\ m.seen = l.seen /\ m.intros = l.intros
  BY <1>9 DEF Local
<1>11. loc' = [L EXCEPT ![v] = m] /\ pc' = [pc EXCEPT ![v] = "get"]
  BY <1>4, <1>6, <1>8, <1>9 DEF Introduce, Goto, KilledIn
<1>12. PICK d \in ConnType : d = Killed(conns[s]) /\ d.dest = conns[s].dest /\ Tied(d)
  <2>1. conns[s] \in ConnType /\ Tied(conns[s])
    BY <1>2 DEF HearthShelfInv, ConnsNamed, Names
  <2>2. Killed(conns[s]) \in ConnType /\ Killed(conns[s]).dest = conns[s].dest
    BY <2>1, KilledConn
  <2>3. Tied(Killed(conns[s]))
    BY <2>1, <2>2, KilledConn DEF Tied, NoConn
  <2> QED BY <2>1, <2>2, <2>3
<1>13. conns' = [conns EXCEPT ![s] = d]
  BY <1>12 DEF Introduce
<1>14. conns' \in [Servers -> ConnType] /\ ConnsKeep
  BY <1>2, <1>12, <1>13 DEF ConnsKeep, HearthShelfInv, ConnsNamed, Names
<1>15. Settled
  <2>1. UNCHANGED budget \/ Spend("nolife") \/ Spend("notoken")
    BY DEF Introduce
  <2>2. age' \in [Servers -> {"fresh", "due", "lapsed"}] /\ revoked' \subseteq Servers
    BY <1>2 DEF Introduce, Types
  <2> QED BY <1>2, <1>3, <2>1, <2>2 DEF Settled, Types
<1>16. RowsKeep
  BY <1>2 DEF RowsKeep, HearthShelfInv, RowsNamed
<1>17. \A t \in Servers : m.list[t].dest = loc[v].list[t].dest /\ (Tied(loc[v].list[t]) => Tied(m.list[t]))
  BY <1>7, <1>10 DEF Alike
<1>18. "get" \in ConnectPCs /\ "get" \in PCs /\ HoldsAt("get") /\ HoldsAt("intro")
  BY DEF ConnectPCs, PCs, HoldsAt
<1>19. Fits(v, "get", m)
  <2>1. m.row = NoRow /\ s \in m.intros
    BY <1>1, <1>3, <1>7, <1>10 DEF Fits, ConnectFits, Alike
  <2>2. m.new.dest = m.list[s].dest
    BY <1>8, <1>10, <1>17
  <2> QED BY <1>3, <1>10, <1>18, <2>1, <2>2 DEF Fits, ConnectFits
<1>20. SeenTrue(m)
  BY <1>1, <1>7, <1>10 DEF SeenTrue, Alike
<1>21. ListTrue(m)
  BY <1>1, <1>17 DEF ListTrue, Names
<1>22. SeenTrue(m)' /\ ListTrue(m)'
  BY <1>10, <1>16, <1>20, <1>21, CopiesStay
<1>23. Calm' => FollowsAt(v, "get", m)'
  <2>1. \A j \in Events : budget'[j] <= budget[j]
    BY <1>2, <1>15, Spending DEF Settled
  <2>2. Onward
    BY <1>2, <2>1 DEF Onward
  <2>3. Calm' => Calm
    BY <1>2, <2>2, CalmBefore
  <2>4. \A t \in Servers : conns'[t].dest = conns[t].dest
    BY <1>14 DEF ConnsKeep
  <2> QED BY <1>1, <1>2, <1>17, <1>18, <2>3, <2>4 DEF FollowsAt, Gone
<1>24. RowsMade({v})
  BY <1>2 DEF RowsMade
<1>25. ListsKept({v})
  <2>1. loc'[v] = m
    BY <1>1, <1>5, <1>11
  <2> QED BY <1>17, <2>1 DEF ListsKept
<1>26. rows' \in [RowIds -> RowType] /\ stale' = stale /\ overwrote' = overwrote
  BY <1>2
<1> QED BY <1>1, <1>5, <1>10, <1>11, <1>14, <1>15, <1>16, <1>18, <1>19, <1>22, <1>23, <1>24,
           <1>25, <1>26, Move

(* A flow writes the row that it read, which is the server's own, or takes *)
(* an id that no row ever had, and then only because the server's row is   *)
(* gone.                                                                   *)
LEMMA EnsureDestinationKeeps ==
    ASSUME HearthShelfInv, NEW v \in Connectors, EnsureDestination(v)
    PROVE  HearthShelfInv'
<1>1. /\ v \in Actors /\ loc[v] \in Local /\ pc[v] = "ensure" /\ Fits(v, "ensure", loc[v])
      /\ ListTrue(loc[v])
      /\ Calm => FollowsAt(v, "ensure", loc[v])
  BY InHands DEF Actors, EnsureDestination
<1>2. /\ Types /\ UNCHANGED <<serverVars, conns, identity, stale, overwrote>>
      /\ rows \in [RowIds -> RowType] /\ loc \in [Actors -> Local]
      /\ conns \in [Servers -> ConnType]
  BY DEF HearthShelfInv, EnsureDestination, Types
<1>3. /\ v \notin Pushes /\ v \notin Editors /\ "db" \in Events \ {"any"}
      /\ NoRow \notin RowIds /\ "none" \notin Servers
  BY HearthShelfAssumption DEF Events
<1>4. PICK l \in Local : l = loc[v]
  BY <1>1
<1>5. /\ l.server \in l.intros /\ l.new.dest = l.list[l.server].dest
      /\ l.row \in {NoRow, l.new.dest}
  BY <1>1, <1>3, <1>4 DEF Fits, ConnectFits
<1>6. PICK s \in Servers : s = l.server
  BY <1>5 DEF Local
<1>7. PICK r : r = IF l.row # NoRow THEN l.row ELSE Least(Free)
  OBVIOUS
<1>8. r \in RowIds /\ (l.row = NoRow => rows[r] = Absent)
  <2>1. CASE l.row # NoRow
    BY <1>7, <2>1 DEF Local
  <2>2. CASE l.row = NoRow
    <3>1. Free \in SUBSET RowIds /\ Free # {}
      BY <1>4, <2>2 DEF Free, EnsureDestination, Me
    <3>2. Least(Free) \in Free
      BY <3>1, LeastIn
    <3> QED BY <1>7, <2>2, <3>2 DEF Free
  <2> QED BY <2>1, <2>2
<1>9. /\ l.list \in [Servers -> ConnType] /\ l.new \in ConnType
      /\ ListTrue(l)
      /\ Calm => FollowsAt(v, "ensure", l)
  BY <1>1, <1>4 DEF Local
<1>10. CASE /\ l.row # NoRow => rows[r].there
            /\ rows' = [rows EXCEPT ![r] =
                  [there |-> TRUE, enabled |-> TRUE, key |-> "good", by |-> s]]
            /\ NextIntro(v, [Me(v).list EXCEPT ![s] = [Me(v).new EXCEPT !.dest = r]])
            /\ UNCHANGED budget
  <2>1. PICK to \in RowType : /\ to = [there |-> TRUE, enabled |-> TRUE, key |-> "good", by |-> s]
                              /\ to.there /\ to.by = s
    <3>1. [there |-> TRUE, enabled |-> TRUE, key |-> "good", by |-> s] \in RowType
      BY DEF RowType, Keys
    <3> QED BY <3>1
  <2>2. PICK n \in ConnType : n = [l.new EXCEPT !.dest = r] /\ n.dest = r
    <3>1. PICK c \in ConnType : c = l.new
      BY <1>9
    <3>2. [c EXCEPT !.dest = r] \in ConnType /\ [c EXCEPT !.dest = r].dest = r
      BY <1>8 DEF ConnType
    <3> QED BY <3>1, <3>2
  <2>3. PICK ln \in [Servers -> ConnType] : /\ ln = [l.list EXCEPT ![s] = n] /\ ln[s] = n
                                            /\ \A t \in Servers \ {s} : ln[t] = l.list[t]
    <3>1. PICK f \in [Servers -> ConnType] : f = l.list
      BY <1>9
    <3>2. PICK ln \in [Servers -> ConnType] : ln = [f EXCEPT ![s] = n]
      OBVIOUS
    <3> QED BY <3>1, <3>2
  <2>4. PICK left \in SUBSET Servers : left = l.intros \ {s}
    BY DEF Local
  <2>5. PICK k : k = IF left = {} THEN "save" ELSE "intro"
    OBVIOUS
  <2>6. PICK m : m = Onto(ln, left)
    OBVIOUS
  <2>7. loc' = [loc EXCEPT ![v] = m] /\ pc' = [pc EXCEPT ![v] = k]
    BY <1>4, <1>6, <1>10, <2>2, <2>3, <2>4, <2>5, <2>6 DEF NextIntro, Goto, Set, Me, Onto
  <2>8. rows' = [rows EXCEPT ![r] = to]
    BY <1>10, <2>1
  <2>9. rows'[r] = to /\ \A q \in RowIds \ {r} : rows'[q] = rows[q]
    BY <1>2, <1>8, <2>8
  <2>10. \/ l.row # NoRow /\ r = l.list[s].dest /\ rows[r].by = s /\ rows[r].there
         \/ l.row = NoRow /\ rows[r].by = "none" /\ ~rows[r].there
    <3>1. CASE l.row # NoRow
      <4>1. r = l.row /\ r = l.list[s].dest
        BY <1>5, <1>6, <1>7, <3>1
      <4>2. Names(l.list[s], s)
        BY <1>9 DEF ListTrue
      <4> QED BY <1>3, <1>8, <1>10, <3>1, <4>1, <4>2 DEF Names
    <3>2. CASE l.row = NoRow
      BY <1>8, <3>2 DEF Absent
    <3> QED BY <3>1, <3>2
  <2>11. rows' \in [RowIds -> RowType] /\ RowsKeep
    <3>1. rows' \in [RowIds -> RowType]
      BY <1>2, <1>8, <2>8
    <3>2. \A q \in RowIds : rows[q].there => rows[q].by # "none"
      BY DEF HearthShelfInv, RowsNamed
    <3> QED BY <1>3, <2>1, <2>9, <2>10, <3>1, <3>2 DEF RowsKeep
  <2>12. ASSUME NEW t \in Servers
         PROVE  Names(ln[t], t)'
    <3>1. CASE t = s
      BY <1>8, <2>1, <2>2, <2>3, <2>9, <3>1 DEF Names, Tied
    <3>2. CASE t # s
      <4>1. ListTrue(l)'
        BY <1>9, <2>11, CopiesStay
      <4>2. ln[t] = l.list[t]
        BY <2>3, <3>2
      <4> QED BY <4>1, <4>2 DEF ListTrue, Names
    <3> QED BY <3>1, <3>2
  <2>13. /\ m \in Local /\ k \in PCs /\ HoldsAt(k) /\ k # "ensure" /\ Fits(v, k, m)
         /\ m.list = ln /\ SeenTrue(m)' /\ ListTrue(m)'
    <3>1. PICK i \in Local : i = Idle
      BY <1>1, IdleFits
    <3>2. m = [i EXCEPT !.list = ln, !.intros = left]
      BY <2>6, <3>1 DEF Onto
    <3>3. /\ m \in Local /\ m.list = ln /\ m.server = i.server /\ m.new = i.new
          /\ m.row = i.row /\ m.seen = i.seen
      BY <3>2 DEF Local
    <3>4. m.server = "none" /\ m.new = NoConn /\ m.row = NoRow
      BY <3>1, <3>3 DEF Idle
    <3>5. k \in ConnectPCs /\ HoldsAt(k) /\ k # "ensure" /\ k # "get"
      BY <2>5 DEF ConnectPCs, HoldsAt
    <3>6. Fits(v, k, m)
      BY <1>3, <3>4, <3>5 DEF Fits, ConnectFits
    <3>7. SeenTrue(m)
      BY <1>1, <3>1, <3>3, IdleFits DEF SeenTrue
    <3>8. SeenTrue(m)'
      BY <2>11, <3>3, <3>7, CopiesStay
    <3>9. ListTrue(m)'
      BY <2>12, <3>3 DEF ListTrue, Names
    <3> QED BY <3>3, <3>5, <3>6, <3>8, <3>9 DEF PCs
  <2>14. Calm' => Calm
    BY <1>2, <1>10 DEF Calm, Spared
  <2>15. ASSUME NEW t \in Servers, Gone(conns[t].dest) PROVE Gone(conns[t].dest)'
    <3>1. conns[t].dest \in RowIds \cup {NoRow}
      BY <1>2 DEF ConnType
    <3>2. conns[t].dest # NoRow => rows[conns[t].dest].by = t
      BY DEF HearthShelfInv, ConnsNamed, Names
    <3> QED BY <1>2, <1>3, <2>11, <2>15, <3>1, <3>2 DEF Gone, RowsKeep
  <2>16. Calm /\ l.row = NoRow => Gone(l.list[s].dest)
    BY <1>1, <1>5, <1>6, <1>9 DEF FollowsAt
  <2>17. Calm => FollowsAt(v, k, m)'
    <3> SUFFICES ASSUME Calm, v \notin stale, NEW t \in Servers
                 PROVE  m.list[t].dest = conns[t].dest \/ Gone(conns[t].dest)'
      BY <1>2, <2>13 DEF FollowsAt
    <3>1. l.list[t].dest = conns[t].dest \/ Gone(conns[t].dest)
      BY <1>9 DEF FollowsAt, HoldsAt
    <3>2. CASE t # s
      BY <2>3, <2>13, <2>15, <3>1, <3>2
    <3>3. CASE t = s
      BY <2>2, <2>3, <2>10, <2>13, <2>15, <2>16, <3>1, <3>3
    <3> QED BY <3>2, <3>3
  <2>18. loc'[v] = m
    BY <1>1, <1>2, <2>7
  <2>19. RowsMade({v})
    <3> SUFFICES ASSUME NEW q \in RowIds, rows'[q].there, ~rows[q].there
                 PROVE  loc'[v].list[rows'[q].by].dest = q
      BY DEF RowsMade
    <3>1. q = r
      BY <2>9
    <3>2. rows'[q].by = s
      BY <2>1, <2>9, <3>1
    <3>3. m.list[s].dest = r
      BY <2>2, <2>3, <2>13
    <3> QED BY <2>18, <3>1, <3>2, <3>3
  <2>20. ListsKept({v})
    <3> SUFFICES ASSUME Calm, NEW t \in Servers
                 PROVE  m.list[t].dest = l.list[t].dest \/ Gone(l.list[t].dest)
      BY <1>4, <2>14, <2>18 DEF ListsKept
    <3> QED BY <2>2, <2>3, <2>10, <2>13, <2>16
  <2>21. Settled
    BY <1>2, <1>10 DEF Settled, Types, serverVars
  <2>22. /\ ConnsKeep /\ conns' \in [Servers -> ConnType]
         /\ \A w \in Actors : Alike(loc[w], loc[w])
    BY <1>2 DEF ConnsKeep, HearthShelfInv, ConnsNamed, Names, Alike
  <2> QED BY <1>1, <1>2, <2>7, <2>11, <2>13, <2>14, <2>17, <2>19, <2>20, <2>21, <2>22, Move
<1>11. CASE NextIntro(v, Me(v).list) /\ UNCHANGED rows /\ (UNCHANGED budget \/ Spend("db"))
  <2>1. Settled
    BY <1>2, <1>3, <1>11 DEF Settled, Types, serverVars
  <2> QED BY <1>1, <1>2, <1>11, <2>1, LeaveOutKeeps
<1>12. l = Me(v)
  BY <1>4 DEF Me
<1> QED BY <1>6, <1>7, <1>10, <1>11, <1>12 DEF EnsureDestination

-----------------------------------------------------------------------------
(* The servers, time, and a restart *)

(* Credentials that come near their end change in every copy alike.        *)
LEMMA ElapseKeeps ==
    ASSUME HearthShelfInv, NEW s \in Servers, Elapse(s)
    PROVE  HearthShelfInv'
<1>1. Types /\ UNCHANGED <<revoked, apps, rows, identity, pc, stale, overwrote, budget>>
  BY DEF HearthShelfInv, Elapse
<1>2. PICK L : L = OverdueIn(s)
  OBVIOUS
<1>3. loc' \in [Actors -> Local] /\ \A w \in Actors : Alike(loc'[w], loc[w])
  <2>1. loc' = L /\ loc \in [Actors -> Local]
    BY <1>1, <1>2 DEF Elapse, Types, OverdueIn
  <2> QED BY <1>2, <2>1, OverdueCopies
<1>4. PICK d \in ConnType : d = Overdue(conns[s]) /\ d.dest = conns[s].dest /\ Tied(d)
  <2>1. conns[s] \in ConnType /\ Tied(conns[s])
    BY <1>1 DEF HearthShelfInv, ConnsNamed, Names, Types
  <2>2. Overdue(conns[s]) \in ConnType /\ Overdue(conns[s]).dest = conns[s].dest
    BY <2>1, OverdueConn
  <2>3. Tied(Overdue(conns[s]))
    BY <2>1, <2>2, OverdueConn DEF Tied, NoConn
  <2> QED BY <2>1, <2>2, <2>3
<1>5. conns' = [conns EXCEPT ![s] = d]
  BY <1>4 DEF Elapse
<1>6. conns' \in [Servers -> ConnType] /\ ConnsKeep
  BY <1>1, <1>4, <1>5 DEF ConnsKeep, HearthShelfInv, ConnsNamed, Names, Types
<1>7. Settled
  BY <1>1 DEF Settled, Types, Elapse
<1>8. rows' \in [RowIds -> RowType] /\ RowsKeep /\ RowsMade({})
  BY <1>1 DEF RowsKeep, RowsMade, HearthShelfInv, RowsNamed, Types
<1> QED BY <1>1, <1>3, <1>6, <1>7, <1>8, Around

(* The end of a grace window changes tokens in every copy alike.           *)
LEMMA EndGraceKeeps ==
    ASSUME HearthShelfInv, NEW s \in Servers, EndGrace(s)
    PROVE  HearthShelfInv'
<1>1. Types /\ UNCHANGED <<serverVars, rows, identity, pc, stale, overwrote, budget>>
  BY DEF HearthShelfInv, EndGrace
<1>2. PICK L : L = EndedIn(s)
  OBVIOUS
<1>3. loc' \in [Actors -> Local] /\ \A w \in Actors : Alike(loc'[w], loc[w])
  <2>1. loc' = L /\ loc \in [Actors -> Local]
    BY <1>1, <1>2 DEF EndGrace, Types, EndedIn
  <2> QED BY <1>2, <2>1, EndedCopies
<1>4. PICK d \in ConnType : d = Ended(conns[s]) /\ d.dest = conns[s].dest /\ Tied(d)
  <2>1. conns[s] \in ConnType /\ Tied(conns[s])
    BY <1>1 DEF HearthShelfInv, ConnsNamed, Names, Types
  <2>2. Ended(conns[s]) \in ConnType /\ Ended(conns[s]).dest = conns[s].dest
    BY <2>1, EndedConn
  <2>3. Tied(Ended(conns[s]))
    BY <2>1, <2>2, EndedConn DEF Tied, NoConn
  <2> QED BY <2>1, <2>2, <2>3
<1>5. conns' = [conns EXCEPT ![s] = d]
  BY <1>4 DEF EndGrace
<1>6. conns' \in [Servers -> ConnType] /\ ConnsKeep
  BY <1>1, <1>4, <1>5 DEF ConnsKeep, HearthShelfInv, ConnsNamed, Names, Types
<1>7. Settled
  BY <1>1 DEF Settled, Types, serverVars
<1>8. rows' \in [RowIds -> RowType] /\ RowsKeep /\ RowsMade({})
  BY <1>1 DEF RowsKeep, RowsMade, HearthShelfInv, RowsNamed, Types
<1> QED BY <1>1, <1>3, <1>6, <1>7, <1>8, Around

(* A server that cuts the install off changes nothing that the program     *)
(* has.                                                                    *)
LEMMA RevokeKeeps ==
    ASSUME HearthShelfInv, NEW s \in Servers, Revoke(s)
    PROVE  HearthShelfInv'
<1>1. Types /\ UNCHANGED <<age, apps, rows, conns, identity, pc, loc, stale, overwrote>>
  BY DEF HearthShelfInv, Revoke
<1>2. Settled
  <2>1. Spend("revoke") /\ "revoke" \in Events \ {"any"}
    BY DEF Revoke, Events
  <2> QED BY <1>1, <2>1 DEF Settled, Types, Revoke
<1>3. rows' \in [RowIds -> RowType] /\ RowsKeep /\ RowsMade({})
  BY <1>1 DEF RowsKeep, RowsMade, HearthShelfInv, RowsNamed, Types
<1>4. conns' \in [Servers -> ConnType] /\ ConnsKeep
  BY <1>1 DEF ConnsKeep, HearthShelfInv, ConnsNamed, Names, Types
<1>5. loc' \in [Actors -> Local] /\ \A w \in Actors : Alike(loc'[w], loc[w])
  BY <1>1 DEF Alike, Types
<1> QED BY <1>1, <1>2, <1>3, <1>4, <1>5, Around

(* Keys that lapse, in rows and in copies of rows, leave the rows where    *)
(* they are.                                                               *)
LEMMA LapseKeeps ==
    ASSUME HearthShelfInv, NEW s \in Servers, Lapse(s)
    PROVE  HearthShelfInv'
<1>1. Types /\ UNCHANGED <<revoked, apps, conns, identity, pc, stale, overwrote, budget>>
  BY DEF HearthShelfInv, Lapse
<1>2. ASSUME NEW k \in Keys PROVE Bad(k) \in Keys
  BY DEF Bad, Keys
<1>3. ASSUME NEW d \in RowType
      PROVE  /\ Spoilt(d, s) \in RowType /\ Spoilt(d, s).by = d.by
             /\ Spoilt(d, s).there = d.there
  <2>1. PICK k \in Keys : k = Bad(d.key)
    BY <1>2 DEF RowType
  <2>2. [d EXCEPT !.key = k] \in RowType /\ [d EXCEPT !.key = k].by = d.by
        /\ [d EXCEPT !.key = k].there = d.there
    BY DEF RowType
  <2> QED BY <2>1, <2>2 DEF Spoilt
<1>4. ASSUME NEW r \in RowIds
      PROVE  rows'[r] \in RowType /\ rows'[r].by = rows[r].by /\ rows'[r].there = rows[r].there
  <2>1. PICK d \in RowType : d = rows[r]
    BY <1>1 DEF Types
  <2>2. rows'[r] = Spoilt(d, s)
    BY <2>1 DEF Lapse
  <2> QED BY <1>3, <2>1, <2>2
<1>5. rows' \in [RowIds -> RowType] /\ RowsKeep /\ RowsMade({})
  <2>1. rows' = [r \in RowIds |-> rows'[r]]
    BY DEF Lapse
  <2>2. rows' \in [RowIds -> RowType]
    BY <1>4, <2>1
  <2> QED BY <1>4, <2>2 DEF RowsKeep, RowsMade, HearthShelfInv, RowsNamed
<1>6. ASSUME NEW w \in Actors
      PROVE  loc'[w] \in Local /\ Alike(loc'[w], loc[w])
  <2>1. PICK l \in Local : l = loc[w]
    BY <1>1 DEF Types
  <2>2. PICK k \in Keys : k = IF l.server = s THEN Bad(l.key) ELSE l.key
    BY <1>2 DEF Local
  <2>3. PICK f : f = [r \in RowIds |-> Spoilt(l.seen[r], s)]
    OBVIOUS
  <2>4. ASSUME NEW r \in RowIds
        PROVE  f[r] \in RowType /\ f[r].by = l.seen[r].by /\ f[r].there = l.seen[r].there
    <3>1. PICK d \in RowType : d = l.seen[r]
      BY DEF Local
    <3> QED BY <1>3, <2>3, <3>1
  <2>5. f \in [RowIds -> RowType]
    BY <2>3, <2>4
  <2>6. PICK m : m = [l EXCEPT !.key = k, !.seen = f]
    OBVIOUS
  <2>7. loc'[w] = m
    BY <2>1, <2>2, <2>3, <2>6 DEF Lapse
  <2>8. /\ m \in Local /\ m.todo = l.todo /\ m.row = l.row /\ m.server = l.server
        /\ m.intros = l.intros /\ m.reg = l.reg /\ m.new = l.new /\ m.list = l.list
        /\ m.seen = f
    BY <2>5, <2>6 DEF Local
  <2> QED BY <2>1, <2>4, <2>7, <2>8 DEF Alike
<1>7. loc' \in [Actors -> Local]
  <2>1. loc' = [w \in Actors |-> loc'[w]]
    BY DEF Lapse
  <2> QED BY <1>6, <2>1
<1>8. Settled
  BY <1>1 DEF Settled, Types, Lapse
<1>9. conns' \in [Servers -> ConnType] /\ ConnsKeep
  BY <1>1 DEF ConnsKeep, HearthShelfInv, ConnsNamed, Names, Types
<1> QED BY <1>1, <1>5, <1>6, <1>7, <1>8, <1>9, Around

(* A restart: nobody has anything in hand, and it is remembered.           *)
LEMMA CrashKeeps ==
    ASSUME HearthShelfInv, Crash
    PROVE  HearthShelfInv'
<1>1. /\ Types /\ Spend("crash") /\ "crash" \in Events \ {"any"}
      /\ UNCHANGED <<serverVars, rows, conns, identity, overwrote>>
      /\ pc' = [v \in Actors |-> "idle"] /\ loc' = [v \in Actors |-> Idle] /\ stale' = {}
  BY DEF HearthShelfInv, Crash, Events
<1>2. budget' \in [Events -> Nat] /\ \A k \in Events : budget'[k] <= Budget[k]
  <2>1. budget' \in [Events -> Nat] /\ \A k \in Events : budget'[k] <= budget[k]
    BY <1>1, Spending
  <2> QED BY <1>1, <2>1, HearthShelfAssumption DEF Types
<1>3. \A v \in Actors : Idle \in Local /\ Fits(v, "idle", Idle) /\ SeenTrue(Idle) /\ ListTrue(Idle)
  BY IdleFits
<1>4. Types'
  BY <1>1, <1>2, <1>3 DEF Types, serverVars, PCs, PushPCs
<1>5. RowsNamed' /\ ConnsNamed'
  BY <1>1 DEF HearthShelfInv, RowsNamed, ConnsNamed, Names
<1>6. Placed'
  BY <1>1, <1>3 DEF Placed, Fits, PushFits, EditFits, ConnectFits, HoldsAt
<1>7. CopiesTrue'
  BY <1>1, <1>3 DEF CopiesTrue, SeenTrue, ListTrue, Names
<1>8. ~Calm'
  BY <1>1, SpentOn DEF Calm
<1> QED BY <1>4, <1>5, <1>6, <1>7, <1>8 DEF HearthShelfInv, Follows, NoOrphans, Calm
-----------------------------------------------------------------------------
(* The invariant *)

(* An install that starts with connected servers has a row for each.       *)
LEMMA RowForEach ==
    RowOf \in [Linked -> RowIds] /\ \A x, y \in Linked : x # y => RowOf[x] # RowOf[y]
<1>1. IsFiniteSet(Linked) /\ IsFiniteSet(RowIds)
  BY HearthShelfAssumption, FS_Subset
<1>2. PICK n \in Nat, k \in Nat : n = Cardinality(Linked) /\ k = Cardinality(RowIds)
  BY <1>1, FS_CardinalityType
<1>3. n <= k
  BY <1>2, HearthShelfAssumption
<1>4. PICK g \in Bijection(1..n, Linked) : TRUE
  BY <1>1, <1>2, FS_CardinalityType DEF ExistsBijection
<1>5. PICK h \in Bijection(1..k, RowIds) : TRUE
  BY <1>1, <1>2, FS_CardinalityType DEF ExistsBijection
<1>6. g \in [1..n -> Linked] /\ \A x \in Linked : \E i \in 1..n : g[i] = x
  BY <1>4 DEF Bijection, Injection, Surjection
<1>7. h \in [1..k -> RowIds] /\ \A i, j \in 1..k : h[i] = h[j] => i = j
  BY <1>5 DEF Bijection, Injection, IsInjective
<1>8. PICK e : e = [x \in Linked |-> CHOOSE i \in 1..n : g[i] = x]
  OBVIOUS
<1>9. \A x \in Linked : e[x] \in 1..n /\ g[e[x]] = x
  BY <1>6, <1>8
<1>10. \A x \in Linked : e[x] \in 1..k
  BY <1>3, <1>9
<1>11. PICK f : f = [x \in Linked |-> h[e[x]]]
  OBVIOUS
<1>12. f \in [Linked -> RowIds]
  BY <1>7, <1>10, <1>11
<1>13. ASSUME NEW x \in Linked, NEW y \in Linked, f[x] = f[y]
       PROVE  x = y
  <2>1. h[e[x]] = h[e[y]]
    BY <1>11, <1>13
  <2>2. e[x] = e[y]
    BY <1>7, <1>10, <2>1
  <2> QED BY <1>9, <2>2
<1>14. \A x, y \in Linked : x # y => f[x] # f[y]
  BY <1>13
<1> QED BY <1>12, <1>14 DEF RowOf

(* The states the program starts from satisfy the invariant.               *)
LEMMA InitHolds ==
    ASSUME Init
    PROVE  HearthShelfInv
<1>1. PICK linked \in {{}, Linked} :
          /\ rows = [r \in RowIds |->
                       IF Made(linked, r) = {} THEN Absent
                       ELSE [there |-> TRUE, enabled |-> TRUE, key |-> "good",
                             by |-> CHOOSE s \in Made(linked, r) : TRUE]]
          /\ conns = [s \in Servers |->
                        IF s \notin linked THEN NoConn
                        ELSE [dest |-> RowOf[s], token |-> "cur",
                              life |-> "fresh", needs |-> FALSE]]
          /\ identity \in IF linked = {} THEN {NoIdentity, [app |-> 1, secret |-> 0]}
                          ELSE {[app |-> 1, secret |-> 1]}
  BY DEF Init
<1>2. /\ revoked = {} /\ age = [s \in Servers |-> "fresh"] /\ apps = identity.app
      /\ pc = [v \in Actors |-> "idle"] /\ loc = [v \in Actors |-> Idle]
      /\ stale = {} /\ overwrote = FALSE /\ budget = Budget
  BY DEF Init
<1>3. linked \subseteq Servers /\ linked \subseteq Linked /\ "none" \notin Servers
  BY HearthShelfAssumption
<1>4. identity \in [app : Nat, secret : Nat]
  BY <1>1 DEF NoIdentity
<1>5. Absent \in RowType /\ NoConn \in ConnType
  BY DEF Absent, RowType, Keys, NoConn, ConnType, Tokens, Lives
<1>6. ASSUME NEW r \in RowIds
      PROVE  /\ rows[r] \in RowType
             /\ rows[r].there => rows[r].by \in linked /\ RowOf[rows[r].by] = r
             /\ \A s \in linked : RowOf[s] = r => rows[r].by = s /\ rows[r].there
  <2>1. CASE Made(linked, r) = {}
    <3>1. rows[r] = Absent
      BY <1>1, <2>1
    <3>2. \A s \in linked : RowOf[s] # r
      BY <2>1 DEF Made
    <3> QED BY <1>5, <3>1, <3>2 DEF Absent
  <2>2. CASE Made(linked, r) # {}
    <3>1. PICK t : t = CHOOSE s \in Made(linked, r) : TRUE
      OBVIOUS
    <3>2. t \in linked /\ RowOf[t] = r
      BY <2>2, <3>1 DEF Made
    <3>3. rows[r] = [there |-> TRUE, enabled |-> TRUE, key |-> "good", by |-> t]
      BY <1>1, <2>2, <3>1
    <3>4. t \in Servers
      BY <1>3, <3>2
    <3>5. rows[r] \in RowType /\ rows[r].there /\ rows[r].by = t
      BY <3>3, <3>4 DEF RowType, Keys
    <3>6. \A s \in linked : RowOf[s] = r => s = t
      BY <1>3, <3>2, RowForEach
    <3> QED BY <3>2, <3>5, <3>6
  <2> QED BY <2>1, <2>2
<1>7. ASSUME NEW s \in Servers
      PROVE  /\ conns[s] \in ConnType /\ Names(conns[s], s)
             /\ s \in linked => conns[s].dest = RowOf[s]
  <2>1. CASE s \notin linked
    BY <1>1, <1>5, <2>1 DEF Names, Tied, NoConn
  <2>2. CASE s \in linked
    <3>1. PICK r \in RowIds : r = RowOf[s]
      BY <1>3, <2>2, RowForEach
    <3>2. conns[s] = [dest |-> r, token |-> "cur", life |-> "fresh", needs |-> FALSE]
      BY <1>1, <2>2, <3>1
    <3>3. conns[s] \in ConnType /\ conns[s].dest = r
      BY <3>2 DEF ConnType, Tokens, Lives
    <3> QED BY <1>6, <2>2, <3>1, <3>3 DEF Names, Tied
  <2> QED BY <2>1, <2>2
<1>8. \A v \in Actors : /\ loc[v] = Idle /\ pc[v] = "idle" /\ Idle \in Local
                        /\ Fits(v, "idle", Idle) /\ SeenTrue(Idle) /\ ListTrue(Idle)
  BY <1>2, IdleFits
<1>9. Types
  <2>1. rows \in [RowIds -> RowType]
    BY <1>1, <1>6
  <2>2. conns \in [Servers -> ConnType]
    BY <1>1, <1>7
  <2>3. loc \in [Actors -> Local] /\ pc \in [Actors -> PCs]
    BY <1>2, <1>8 DEF PCs, PushPCs
  <2>4. budget \in [Events -> Nat] /\ \A k \in Events : budget[k] <= Budget[k]
    BY <1>2, HearthShelfAssumption
  <2>5. age \in [Servers -> {"fresh", "due", "lapsed"}]
    BY <1>2
  <2>6. apps \in Nat
    BY <1>2, <1>4
  <2> QED BY <1>2, <1>4, <2>1, <2>2, <2>3, <2>4, <2>5, <2>6 DEF Types
<1>10. RowsNamed
  BY <1>3, <1>6 DEF RowsNamed
<1>11. ConnsNamed
  BY <1>7 DEF ConnsNamed
<1>12. Placed /\ CopiesTrue
  BY <1>8 DEF Placed, CopiesTrue
<1>13. Follows
  BY <1>8 DEF Follows, FollowsAt, HoldsAt
<1>14. NoOrphans
  <2>1. \A r \in RowIds : rows[r].there => conns[rows[r].by].dest = r
    BY <1>3, <1>6, <1>7
  <2> QED BY <2>1 DEF NoOrphans
<1> QED BY <1>9, <1>10, <1>11, <1>12, <1>13, <1>14 DEF HearthShelfInv

(* Every step of the system keeps the invariant.                           *)
LEMMA NextKeeps ==
    ASSUME HearthShelfInv, [Next]_vars
    PROVE  HearthShelfInv'
<1>1. CASE UNCHANGED vars
  BY <1>1, StillKeeps
<1>2. ASSUME NEW v \in Pushes, PushStep(v) PROVE HearthShelfInv'
  BY <1>2, ListEnabledKeeps, LoadConnectionsKeeps, RefreshKeeps, DeniedKeeps,
     RefreshFailsKeeps, UpdateRowKeeps, SaveRenewedKeeps DEF PushStep
<1>3. ASSUME NEW e \in Editors, EditStep(e) PROVE HearthShelfInv'
  BY <1>3, ReadRowKeeps, EditStepKeeps, CreateKeeps DEF EditStep
<1>4. ASSUME NEW v \in Connectors, ConnectStep(v) PROVE HearthShelfInv'
  BY <1>4, BeginsKeep, ApproveKeeps, IntroduceKeeps, IntroduceFailsKeeps,
     GetDestinationKeeps, EnsureDestinationKeeps, SaveConnectedKeeps DEF ConnectStep
<1>5. ASSUME NEW s \in Servers, Elapse(s) \/ Lapse(s) \/ EndGrace(s) \/ Revoke(s)
      PROVE  HearthShelfInv'
  BY <1>5, ElapseKeeps, LapseKeeps, EndGraceKeeps, RevokeKeeps
<1>6. CASE Crash
  BY <1>6, CrashKeeps
<1> QED BY <1>1, <1>2, <1>3, <1>4, <1>5, <1>6 DEF Next

(***************************************************************************)
(* Whatever the servers, the pushes, the requests and the connect flows    *)
(* do, and whatever fails: the types hold, an actor has in hand what fits  *)
(* the place it is at, a connection and every copy of it name a row of     *)
(* their own server, and, while no statement failed and no write was       *)
(* undone, a copy that is not stale names the rows that are stored.        *)
(***************************************************************************)
THEOREM HearthShelfInvariant == Spec => []HearthShelfInv
<1>1. Init => HearthShelfInv
  BY InitHolds
<1>2. HearthShelfInv /\ [Next]_vars => HearthShelfInv'
  BY NextKeeps
<1> QED BY <1>1, <1>2, PTL DEF Spec

(***************************************************************************)
(* The type invariant of the destination rows, the stored connections, the *)
(* registration and every copy of them: a connection that is not empty     *)
(* names a row id, and only who has a copy in hand can have a stale one.   *)
(***************************************************************************)
THEOREM HearthShelfTypeCorrect == Spec => []HearthShelfTypeOK
<1>1. HearthShelfInv => HearthShelfTypeOK
  <2> SUFFICES ASSUME HearthShelfInv
               PROVE  HearthShelfTypeOK
    OBVIOUS
  <2>1. Types /\ ConnsNamed
    BY DEF HearthShelfInv
  <2>2. \A s \in Servers : conns[s] # NoConn => conns[s].dest \in RowIds
    BY <2>1 DEF ConnsNamed, Names, Tied
  <2>3. ASSUME NEW v \in Actors
        PROVE  /\ Me(v).list \in [Servers -> ConnType] /\ Me(v).new \in ConnType
               /\ Me(v).seen \in [RowIds -> RowType] /\ Me(v).key \in Keys
               /\ Me(v).todo \subseteq RowIds /\ Me(v).row \in RowIds \cup {NoRow}
    BY <2>1 DEF Types, Local, Me
  <2> QED BY <2>1, <2>2, <2>3 DEF HearthShelfTypeOK, Types
<1> QED BY <1>1, HearthShelfInvariant, PTL

(***************************************************************************)
(* EnsureDestination leaves no orphan: with any number of connect flows at *)
(* once, reconnects, deletions and renewals, a row that a flow made for a  *)
(* server is named by the server's stored connection or by the list of a   *)
(* flow under way, as long as no statement failed, the process did not     *)
(* restart and no stale copy of the connections was written.               *)
(***************************************************************************)
THEOREM NothingOrphaned == Spec => []NoOrphans
<1>1. HearthShelfInv => NoOrphans
  BY DEF HearthShelfInv
<1> QED BY <1>1, HearthShelfInvariant, PTL

-----------------------------------------------------------------------------
(* The registration, with one connect flow at a time *)

(* What the other steps leave of a connect flow: where it is, and the      *)
(* registration it was given.                                              *)
FlowStays(w) == pc'[w] = pc[w] /\ loc'[w].reg = loc[w].reg

(* What happens to credentials leaves the registration a flow holds.       *)
LEMMA CopiesStayPut ==
    ASSUME HearthShelfInv, NEW s \in Servers, NEW L,
           \/ L = OlderIn(s) \/ L = EndedIn(s) \/ L = OverdueIn(s)
    PROVE  \A w \in Actors : L[w].reg = loc[w].reg
<1>1. loc \in [Actors -> Local]
  BY DEF HearthShelfInv, Types
<1>2. \A w \in Actors : Alike(L[w], loc[w])
  <2>1. CASE L = OlderIn(s)
    BY <1>1, <2>1, OlderCopies
  <2>2. CASE L = EndedIn(s)
    BY <1>1, <2>2, EndedCopies
  <2>3. CASE L = OverdueIn(s)
    BY <1>1, <2>3, OverdueCopies
  <2> QED BY <2>1, <2>2, <2>3
<1> QED BY <1>2 DEF Alike

(* A push moves no connect flow and no registration.                       *)
LEMMA PushLeavesFlows ==
    ASSUME HearthShelfInv, NEW v \in Pushes, PushStep(v), NEW w \in Connectors
    PROVE  FlowStays(w)
<1>1. v \in Actors /\ w \in Actors /\ w # v
  BY HearthShelfAssumption DEF Actors
<1>2. /\ loc \in [Actors -> Local] /\ pc \in [Actors -> PCs] /\ Fits(v, pc[v], loc[v])
      /\ loc[v] \in Local
  BY <1>1, InHands DEF HearthShelfInv, Types
<1>3. ASSUME NEW c, NEW s \in Servers, NEW m, loc' = [Rotated(s, c) EXCEPT ![v] = m]
      PROVE  loc'[w].reg = loc[w].reg
  <2>1. CASE c.token = "cur"
    <3>1. PICK L : L = OlderIn(s)
      OBVIOUS
    <3>2. L \in [Actors -> Local]
      BY <1>2, <3>1, OlderCopies
    <3>3. L[w].reg = loc[w].reg
      BY <1>1, <3>1, CopiesStayPut
    <3>4. loc' = [L EXCEPT ![v] = m]
      BY <1>3, <2>1, <3>1 DEF Rotated, OlderIn
    <3> QED BY <1>1, <3>2, <3>3, <3>4
  <2>2. CASE c.token # "cur"
    <3>1. loc' = [loc EXCEPT ![v] = m]
      BY <1>3, <2>2 DEF Rotated
    <3> QED BY <1>1, <1>2, <3>1
  <2> QED BY <2>1, <2>2
<1>4. pc[v] = "call" => loc[v].server \in Servers
  BY HearthShelfAssumption, <1>2 DEF Fits, PushFits
<1>5. CASE ListEnabled(v) \/ LoadConnections(v) \/ Denied(v) \/ UpdateRow(v) \/ SaveRenewed(v)
  BY <1>1, <1>2, <1>5 DEF ListEnabled, LoadConnections, Denied, UpdateRow, SaveRenewed,
     NextRow, Set, Goto, FlowStays
<1>6. ASSUME NEW life \in {"fresh", "none"}, NEW key \in {"good", "none"}, Refresh(v, life, key)
      PROVE  FlowStays(w)
  <2>1. pc'[w] = pc[w] /\ pc[v] = "call"
    BY <1>1, <1>2, <1>6 DEF Refresh, Goto
  <2>2. loc'[w].reg = loc[w].reg
    BY <1>3, <1>4, <1>6, <2>1 DEF Refresh, Me
  <2> QED BY <2>1, <2>2 DEF FlowStays
<1>7. CASE RefreshFails(v)
  <2>1. pc'[w] = pc[w] /\ pc[v] = "call"
    BY <1>1, <1>2, <1>7 DEF RefreshFails, NextRow, Goto
  <2>2. CASE NextRow(v)
    BY <1>1, <1>2, <2>1, <2>2 DEF NextRow, Set, FlowStays
  <2>3. CASE ~NextRow(v)
    <3>1. loc'[w].reg = loc[w].reg
      BY <1>3, <1>4, <1>7, <2>1, <2>3 DEF RefreshFails, Me
    <3> QED BY <2>1, <3>1 DEF FlowStays
  <2> QED BY <2>2, <2>3
<1> QED BY <1>5, <1>6, <1>7 DEF PushStep

(* Nor does a request.                                                     *)
LEMMA EditLeavesFlows ==
    ASSUME HearthShelfInv, NEW e \in Editors, EditStep(e), NEW w \in Connectors
    PROVE  FlowStays(w)
<1>1. e \in Actors /\ w \in Actors /\ w # e
  BY HearthShelfAssumption DEF Actors
<1>2. loc \in [Actors -> Local] /\ pc \in [Actors -> PCs]
  BY DEF HearthShelfInv, Types
<1>3. ASSUME NEW r \in RowIds, ReadRow(e, r)
      PROVE  FlowStays(w)
  BY <1>1, <1>2, <1>3 DEF ReadRow, Set, FlowStays
<1>4. CASE Toggle(e) \/ Rewrite(e) \/ Delete(e) \/ Create(e)
  BY <1>1, <1>2, <1>4 DEF Toggle, Rewrite, Delete, WriteRow, Create, Stop, Set, Goto, FlowStays
<1> QED BY <1>3, <1>4 DEF EditStep

(* Nor does time or a server.                                              *)
LEMMA TimeLeavesFlows ==
    ASSUME HearthShelfInv, NEW s \in Servers, NEW w \in Connectors,
           Elapse(s) \/ Lapse(s) \/ EndGrace(s) \/ Revoke(s)
    PROVE  FlowStays(w)
<1>1. w \in Actors
  BY DEF Actors
<1>2. loc \in [Actors -> Local]
  BY DEF HearthShelfInv, Types
<1>3. pc' = pc
  BY DEF Elapse, Lapse, EndGrace, Revoke
<1>4. CASE Elapse(s) \/ EndGrace(s)
  <2>1. \/ loc' = EndedIn(s) \/ loc' = OverdueIn(s)
    BY <1>4 DEF Elapse, EndGrace, EndedIn, OverdueIn
  <2>2. PICK L : L = loc'
    OBVIOUS
  <2>3. L[w].reg = loc[w].reg
    BY <1>1, <2>1, <2>2, CopiesStayPut
  <2> QED BY <1>3, <2>2, <2>3 DEF FlowStays
<1>5. CASE Lapse(s)
  <2>1. PICK l \in Local : l = loc[w]
    BY <1>1, <1>2
  <2>2. PICK k : k = IF l.server = s THEN Bad(l.key) ELSE l.key
    OBVIOUS
  <2>3. PICK f : f = [r \in RowIds |-> Spoilt(l.seen[r], s)]
    OBVIOUS
  <2>4. loc'[w] = [l EXCEPT !.key = k, !.seen = f]
    BY <1>1, <1>5, <2>1, <2>2, <2>3 DEF Lapse
  <2>5. loc'[w].reg = l.reg
    BY <2>4 DEF Local
  <2> QED BY <1>3, <2>1, <2>5 DEF FlowStays
<1>6. CASE Revoke(s)
  BY <1>3, <1>6 DEF Revoke, FlowStays
<1> QED BY <1>4, <1>5, <1>6

(* Every step spends an event or none.                                     *)
LEMMA StepSpends ==
    ASSUME [Next]_vars
    PROVE  UNCHANGED budget \/ Begun \/ BegunAmiss \/ \E k \in Events \ {"any"} : Spend(k)
<1>1. {"net", "db", "crash", "edit", "revoke", "nokey", "nolife", "notoken"}
         \subseteq Events \ {"any"}
  BY DEF Events
<1>2. ASSUME NEW v \in Pushes, PushStep(v)
      PROVE  UNCHANGED budget \/ \E k \in {"net", "db", "nokey", "nolife"} : Spend(k)
  BY <1>2 DEF PushStep, ListEnabled, LoadConnections, Refresh, Denied, RefreshFails,
     UpdateRow, SaveRenewed
<1>3. ASSUME NEW e \in Editors, EditStep(e)
      PROVE  UNCHANGED budget \/ \E k \in {"edit", "db"} : Spend(k)
  BY <1>3 DEF EditStep, ReadRow, Toggle, Rewrite, Delete, WriteRow, Create
<1>4. ASSUME NEW v \in Connectors, ConnectStep(v)
      PROVE  \/ UNCHANGED budget \/ Begun \/ BegunAmiss
             \/ \E k \in {"net", "db", "nolife", "notoken"} : Spend(k)
  <2>1. CASE ConnectStart(v) \/ Poll(v)
    BY <2>1 DEF ConnectStart, Poll, Begun, BegunAmiss
  <2>2. CASE Register(v) \/ SaveApp(v) \/ SaveSecret(v) \/ GiveUp(v) \/ SaveConnected(v)
    BY <2>2 DEF Register, SaveApp, SaveSecret, GiveUp, SaveConnected
  <2>3. CASE \E S \in SUBSET Servers : Approve(v, S)
    BY <2>3 DEF Approve
  <2>4. CASE \E s \in Servers : \/ IntroduceFails(v, s)
                               \/ \E life \in {"fresh", "none"}, token \in {"cur", "none"} :
                                     Introduce(v, s, life, token)
    BY <2>4 DEF IntroduceFails, Introduce
  <2>5. CASE GetDestination(v) \/ EnsureDestination(v)
    BY <2>5 DEF GetDestination, EnsureDestination
  <2> QED BY <1>4, <2>1, <2>2, <2>3, <2>4, <2>5 DEF ConnectStep
<1>5. ASSUME NEW s \in Servers, Elapse(s) \/ Lapse(s) \/ EndGrace(s) \/ Revoke(s)
      PROVE  UNCHANGED budget \/ Spend("revoke")
  BY <1>5 DEF Elapse, Lapse, EndGrace, Revoke
<1>6. Crash => Spend("crash")
  BY DEF Crash
<1>7. UNCHANGED vars => UNCHANGED budget
  BY DEF vars
<1> QED BY <1>1, <1>2, <1>3, <1>4, <1>5, <1>6, <1>7 DEF Next

(* What is spared after a step was spared before it.                       *)
LEMMA SparedBefore ==
    ASSUME Types, NEW k \in Events, [Next]_vars, Spared(k)'
    PROVE  Spared(k)
<1>1. budget \in [Events -> Nat] /\ budget[k] <= Budget[k]
  BY DEF Types
<1>2. budget' \in [Events -> Nat] /\ budget'[k] <= budget[k]
  BY StepSpends, Spending
<1>3. budget'[k] = Budget[k]
  BY DEF Spared
<1> QED BY <1>1, <1>2, <1>3 DEF Spared

(* While no statement failed, a flow registers only while no secret is     *)
(* stored, writes the id before the secret, and both are of its own        *)
(* registration (store.go:96-106).                                         *)
LEMMA IdentityKeeps ==
    ASSUME OneFlow, HearthShelfInv, IdentityTrue, ~BegunAmiss, ~Spend("db"), [Next]_vars
    PROVE  IdentityTrue'
<1>1. /\ identity \in [app : Nat, secret : Nat] /\ loc \in [Actors -> Local]
      /\ pc \in [Actors -> PCs] /\ identity.secret \in {0, identity.app}
  BY DEF HearthShelfInv, Types, IdentityTrue
<1>2. CASE identity' = identity /\ \A w \in Connectors : FlowStays(w)
  BY <1>2 DEF IdentityTrue, FlowStays
<1>3. CASE UNCHANGED vars
  BY <1>2, <1>3 DEF vars, FlowStays
<1>4. ASSUME NEW v \in Pushes, PushStep(v) PROVE IdentityTrue'
  <2>1. identity' = identity
    BY <1>4 DEF PushStep, ListEnabled, LoadConnections, Refresh, Denied, RefreshFails,
       UpdateRow, SaveRenewed
  <2> QED BY <1>2, <1>4, <2>1, PushLeavesFlows
<1>5. ASSUME NEW e \in Editors, EditStep(e) PROVE IdentityTrue'
  <2>1. identity' = identity
    BY <1>5 DEF EditStep, ReadRow, Toggle, Rewrite, Delete, WriteRow, Create
  <2> QED BY <1>2, <1>5, <2>1, EditLeavesFlows
<1>6. ASSUME NEW s \in Servers, Elapse(s) \/ Lapse(s) \/ EndGrace(s) \/ Revoke(s)
      PROVE  IdentityTrue'
  <2>1. identity' = identity
    BY <1>6 DEF Elapse, Lapse, EndGrace, Revoke
  <2> QED BY <1>2, <1>6, <2>1, TimeLeavesFlows
<1>7. CASE Crash
  <2>1. \A v \in Connectors : pc'[v] = "idle"
    BY <1>7 DEF Crash, Actors
  <2>2. identity' = identity
    BY <1>7 DEF Crash
  <2> QED BY <1>1, <2>1, <2>2 DEF IdentityTrue
<1>8. ASSUME NEW v \in Connectors, ConnectStep(v) PROVE IdentityTrue'
  <2>1. v \in Actors /\ loc[v] \in Local /\ \A w \in Connectors : w = v
    BY <1>1 DEF Actors, OneFlow
  <2> DEFINE Whole(l, m, i) ==
         /\ i.secret \in {0, i.app}
         /\ l \in {"register", "saveapp", "savesecret"} => i.secret = 0
         /\ l = "savesecret" => i.app = m.reg
         /\ l \in {"wait", "intro", "get", "ensure", "save"} => i.app = i.secret
  <2>2. Whole(pc[v], loc[v], identity)
    BY DEF IdentityTrue
  <2>3. SUFFICES Whole(pc'[v], loc'[v], identity')
    BY <2>1 DEF IdentityTrue
  <2> HIDE DEF Whole
  <2>4. CASE ConnectStart(v)
    BY <1>1, <2>1, <2>2, <2>4 DEF ConnectStart, BegunAmiss, Goto, Known, Whole
  <2>14. ~Poll(v)
    BY DEF Poll
  <2>5. CASE Register(v)
    BY <1>1, <2>1, <2>2, <2>5 DEF Register, Goto, Set, Whole
  <2>6. CASE SaveApp(v)
    BY <1>1, <2>1, <2>2, <2>6 DEF SaveApp, Goto, Whole, Me
  <2>7. CASE SaveSecret(v)
    BY <1>1, <2>1, <2>2, <2>7 DEF SaveSecret, Goto, Whole, Me
  <2>8. CASE GiveUp(v) \/ SaveConnected(v)
    <3>1. pc'[v] = "idle" /\ identity' = identity
      BY <1>1, <2>1, <2>8 DEF GiveUp, SaveConnected, Stop, Goto
    <3> QED BY <2>2, <3>1 DEF Whole
  <2>9. CASE /\ pc[v] \in {"wait", "intro", "get", "ensure"} /\ identity' = identity
             /\ pc'[v] \in {"intro", "get", "ensure", "save"}
    BY <2>2, <2>9 DEF Whole
  <2>10. CASE GetDestination(v) \/ EnsureDestination(v)
    BY <1>1, <2>1, <2>9, <2>10 DEF GetDestination, EnsureDestination, NextIntro, Goto
  <2>11. ASSUME NEW S \in SUBSET Servers, Approve(v, S) PROVE Whole(pc'[v], loc'[v], identity')
    BY <1>1, <2>1, <2>9, <2>11 DEF Approve, Goto
  <2>12. ASSUME NEW s \in Servers, NEW life \in {"fresh", "none"}, NEW token \in {"cur", "none"},
                Introduce(v, s, life, token)
         PROVE  Whole(pc'[v], loc'[v], identity')
    BY <1>1, <2>1, <2>9, <2>12 DEF Introduce, Goto
  <2>13. ASSUME NEW s \in Servers, IntroduceFails(v, s)
         PROVE  Whole(pc'[v], loc'[v], identity')
    BY <1>1, <2>1, <2>9, <2>13 DEF IntroduceFails, Goto
  <2> QED BY <1>8, <2>4, <2>5, <2>6, <2>7, <2>8, <2>10, <2>11, <2>12, <2>13, <2>14
         DEF ConnectStep
<1> QED BY <1>3, <1>4, <1>5, <1>6, <1>7, <1>8 DEF Next

(***************************************************************************)
(* What connecting leaves is whole, with one connect flow at a time beside *)
(* any number of pushes and requests: no row is orphaned, and, as long as  *)
(* no statement failed, a device flow is begun and polled only with the    *)
(* app id and the secret of one registration, however often the install    *)
(* stopped or gave up between the two writes.                              *)
(***************************************************************************)
THEOREM ConnectingIsWhole == OneFlow /\ Spec => []ConnectsWhole
<1> SUFFICES ASSUME OneFlow
             PROVE  Spec => []ConnectsWhole
  OBVIOUS
<1>1. ASSUME Init
      PROVE  IdentityTrue
  <2>1. identity \in {NoIdentity, [app |-> 1, secret |-> 0], [app |-> 1, secret |-> 1]}
    BY <1>1 DEF Init
  <2>2. \A v \in Connectors : pc[v] = "idle"
    BY <1>1 DEF Init, Actors
  <2> QED BY <2>1, <2>2 DEF IdentityTrue, NoIdentity
<1>2. ASSUME HearthShelfInv, IdentityInv, [Next]_vars
      PROVE  IdentityInv'
  <2> SUFFICES ASSUME Spared("db")'
               PROVE  IdentityTrue'
    BY DEF IdentityInv
  <2>1. Types /\ "db" \in Events \ {"any"}
    BY <1>2 DEF HearthShelfInv, Events
  <2>2. ~BegunAmiss /\ ~Spend("db")
    BY <2>1, AmissSpent, SpentOn
  <2>3. Spared("db")
    BY <1>2, <2>1, SparedBefore
  <2> QED BY <1>2, <2>2, <2>3, IdentityKeeps DEF IdentityInv
<1>3. HearthShelfInv /\ IdentityInv => ConnectsWhole
  BY DEF HearthShelfInv, IdentityInv, IdentityTrue, ConnectsWhole, IdentityWhole
<1>5. Init => IdentityInv
  BY <1>1 DEF IdentityInv
<1>6. HearthShelfInv /\ IdentityInv /\ [Next]_vars => IdentityInv'
  BY <1>2
<1>4. Spec => []IdentityInv
  BY <1>5, <1>6, HearthShelfInvariant, PTL DEF Spec
<1> QED BY <1>3, <1>4, HearthShelfInvariant, PTL

-----------------------------------------------------------------------------
(* The newest tokens, with one connect flow at a time, while nothing fails *)

Same(m, n) ==
    /\ m.server = n.server /\ m.intros = n.intros /\ m.new.token = n.new.token
    /\ \A s \in Servers : /\ m.list[s].token = n.list[s].token
                          /\ m.list[s].dest = n.list[s].dest
Hand(l, m, s) ==
    HoldsAt(l) /\ (m.list[s].token = "cur" \/ (m.server = s /\ m.new.token = "cur"))

(* The newest token is in hand if some actor's locals have it, at a place  *)
(* where they will be stored.                                              *)
LEMMA InHandIs ==
    \A s \in Servers : InHand(s) <=> \E v \in Actors : Hand(pc[v], loc[v], s)
BY DEF InHand, Hand, Holds, HoldsAt, Me

(* What is asked of an actor that moves while the stored tokens stay.      *)
MovesWell(v) ==
    \A s \in Servers :
       /\ v \in Connectors /\ HoldsAt(pc'[v]) =>
             /\ FlowHas(loc'[v], s, conns[s])
             /\ Newer(loc'[v], s, conns[s]) => HoldsAt(pc[v]) /\ Newer(loc[v], s, conns[s])
       /\ v \in Pushes /\ HoldsAt(pc'[v]) => PushHas(loc'[v], s, conns[s])
       /\ v \in Pushes /\ loc'[v].list[s].token \in Live =>
             loc[v].list[s].token \in Live \/ conns[s].token \in Live
       /\ HoldsAt(pc'[v]) /\ v \notin stale' /\ conns[s].token = "cur" =>
             loc'[v].list[s].token = "cur"
       /\ HasRow(s)' /\ Hand(pc[v], loc[v], s) =>
             conns[s].token = "cur" \/ Hand(pc'[v], loc'[v], s)

(* The frame of the steps that change no token stored or at the servers:   *)
(* if those who move do it well, the newest tokens stay where they are     *)
(* known.                                                                  *)
LEMMA TokenFrame ==
    ASSUME TokensTrue, NEW M \in SUBSET Actors,
           \A w \in Actors \ M :
              Same(loc'[w], loc[w]) /\ pc'[w] = pc[w] /\ (w \in stale => w \in stale'),
           \A s \in Servers : conns'[s].token = conns[s].token /\ conns'[s].dest = conns[s].dest,
           revoked \subseteq revoked', \A s \in Servers : HasRow(s)' => HasRow(s),
           \A v \in M : MovesWell(v)
    PROVE  TokensTrue'
<1>1. Pushes \subseteq Actors /\ Connectors \subseteq Actors
  BY DEF Actors
<1>2. FlowsTrue'
  <2> SUFFICES ASSUME NEW w \in Connectors, NEW s \in Servers, HoldsAt(pc'[w])
               PROVE  /\ FlowHas(loc'[w], s, conns'[s])
                      /\ Newer(loc'[w], s, conns'[s]) => Spent(s)'
    BY DEF FlowsTrue, HoldsAt, FlowHas, Newer
  <2>1. /\ FlowHas(loc'[w], s, conns[s])
        /\ Newer(loc'[w], s, conns[s]) => HoldsAt(pc[w]) /\ Newer(loc[w], s, conns[s])
    <3>1. CASE w \in M
      BY <3>1 DEF MovesWell
    <3>2. CASE w \notin M
      <4>1. Same(loc'[w], loc[w]) /\ pc'[w] = pc[w]
        BY <1>1, <3>2
      <4>2. FlowHas(loc[w], s, conns[s]) /\ HoldsAt(pc[w])
        BY <4>1 DEF TokensTrue, FlowsTrue
      <4> QED BY <4>1, <4>2 DEF Same, FlowHas, Newer
    <3> QED BY <3>1, <3>2
  <2>2. FlowHas(loc'[w], s, conns'[s])
    BY <2>1 DEF FlowHas
  <2>3. ASSUME Newer(loc'[w], s, conns'[s]) PROVE Spent(s)'
    <3>1. HoldsAt(pc[w]) /\ Newer(loc[w], s, conns[s])
      BY <2>1, <2>3 DEF Newer
    <3>2. Spent(s)
      BY <3>1 DEF TokensTrue, FlowsTrue
    <3>3. ASSUME NEW u \in Pushes PROVE loc'[u].list[s].token \notin Live
      <4>1. CASE u \in M
        BY <3>2, <4>1 DEF MovesWell, Spent
      <4>2. CASE u \notin M
        BY <1>1, <3>2, <4>2 DEF Same, Spent
      <4> QED BY <4>1, <4>2
    <3> QED BY <3>2, <3>3 DEF Spent
  <2> QED BY <2>2, <2>3
<1>3. PushesTrue'
  <2> SUFFICES ASSUME NEW v \in Pushes, NEW s \in Servers, HoldsAt(pc'[v])
               PROVE  PushHas(loc'[v], s, conns'[s])
    BY DEF PushesTrue, HoldsAt, PushHas, Live
  <2>1. PushHas(loc'[v], s, conns[s])
    <3>1. CASE v \in M
      BY <3>1 DEF MovesWell
    <3>2. CASE v \notin M
      BY <1>1, <3>2 DEF TokensTrue, PushesTrue, Same, PushHas
    <3> QED BY <3>1, <3>2
  <2> QED BY <2>1 DEF PushHas
<1>4. UpToDate'
  <2> SUFFICES ASSUME NEW v \in Actors, NEW s \in Servers,
                      HoldsAt(pc'[v]), v \notin stale', conns'[s].token = "cur"
               PROVE  loc'[v].list[s].token = "cur"
    BY DEF UpToDate, HoldsAt
  <2>1. CASE v \in M
    BY <2>1 DEF MovesWell
  <2>2. CASE v \notin M
    BY <2>2 DEF TokensTrue, UpToDate, Same
  <2> QED BY <2>1, <2>2
<1>5. Kept'
  <2> SUFFICES ASSUME NEW s \in Servers \ revoked', HasRow(s)', conns'[s].token # "cur"
               PROVE  \E v \in Actors : Hand(pc'[v], loc'[v], s)
    BY DEF Kept, InHand, Hand, Holds, HoldsAt, Me
  <2>1. PICK v \in Actors : Hand(pc[v], loc[v], s)
    BY InHandIs DEF TokensTrue, Kept
  <2>2. CASE v \in M
    BY <2>1, <2>2 DEF MovesWell
  <2>3. CASE v \notin M
    BY <2>1, <2>3 DEF Same, Hand
  <2> QED BY <2>2, <2>3
<1> QED BY <1>2, <1>3, <1>4, <1>5 DEF TokensTrue

(* The same, for one actor.                                                *)
LEMMA OneMoves ==
    ASSUME TokensTrue, NEW v \in Actors,
           \A w \in Actors \ {v} : Same(loc'[w], loc[w]) /\ pc'[w] = pc[w],
           conns' = conns, stale \ {v} \subseteq stale', revoked' = revoked,
           \A s \in Servers : HasRow(s)' => HasRow(s), MovesWell(v)
    PROVE  TokensTrue'
<1>1. PICK M \in SUBSET Actors : M = {v}
  OBVIOUS
<1>2. \A w \in M : MovesWell(w)
  BY <1>1, Zenon
<1>3. \A w \in Actors \ M :
         Same(loc'[w], loc[w]) /\ pc'[w] = pc[w] /\ (w \in stale => w \in stale')
  BY <1>1
<1>4. \A s \in Servers : conns'[s].token = conns[s].token /\ conns'[s].dest = conns[s].dest
  OBVIOUS
<1> QED BY <1>2, <1>3, <1>4, TokenFrame

(* An actor that has no copy of the connections, before and after.         *)
LEMMA OutsideTokens ==
    ASSUME HearthShelfInv, HearthShelfInv', TokensTrue, NEW v \in Actors,
           ~HoldsAt(pc[v]), ~HoldsAt(pc'[v]),
           \A w \in Actors \ {v} : loc'[w] = loc[w] /\ pc'[w] = pc[w],
           conns' = conns, stale' = stale, revoked' = revoked,
           \A s \in Servers : HasRow(s)' => HasRow(s)
    PROVE  TokensTrue'
<1>1. Fits(v, pc'[v], loc'[v])
  BY DEF HearthShelfInv, Placed, Fits, PushFits, EditFits, ConnectFits, HoldsAt
<1>2. \A s \in Servers : loc'[v].list[s].token = "none"
  BY <1>1 DEF Fits, NoList, NoConn
<1>3. MovesWell(v)
  BY <1>2 DEF MovesWell, Hand, Live
<1>4. \A w \in Actors \ {v} : Same(loc'[w], loc[w])
  BY DEF Same
<1> QED BY <1>3, <1>4, OneMoves

(* A step in which nobody moves, and nobody's tokens change.               *)
LEMMA AroundTokens ==
    ASSUME TokensTrue, pc' = pc, stale' = stale, revoked \subseteq revoked',
           \A w \in Actors : Same(loc'[w], loc[w]),
           \A s \in Servers : conns'[s].token = conns[s].token /\ conns'[s].dest = conns[s].dest,
           \A s \in Servers : HasRow(s)' => HasRow(s)
    PROVE  TokensTrue'
<1>1. {} \in SUBSET Actors /\ \A v \in {} : MovesWell(v)
  OBVIOUS
<1>2. \A w \in Actors \ {} :
         Same(loc'[w], loc[w]) /\ pc'[w] = pc[w] /\ (w \in stale => w \in stale')
  OBVIOUS
<1> QED BY <1>1, <1>2, TokenFrame

(* Of a push, while it has no copy.                                        *)
LEMMA PushOutsideTokens ==
    ASSUME HearthShelfInv, HearthShelfInv', TokensTrue, NEW v \in Pushes,
           ListEnabled(v) \/ (pc[v] = "load" /\ LoadConnections(v) /\ NextRow(v))
    PROVE  TokensTrue'
<1>1. v \in Actors /\ loc \in [Actors -> Local] /\ pc \in [Actors -> PCs]
  BY DEF Actors, HearthShelfInv, Types
<1>2. ~HoldsAt(pc[v]) /\ ~HoldsAt(pc'[v])
  BY <1>1 DEF ListEnabled, NextRow, Goto, HoldsAt
<1>3. \A w \in Actors \ {v} : loc'[w] = loc[w] /\ pc'[w] = pc[w]
  BY <1>1 DEF ListEnabled, NextRow, Goto, Set
<1>4. conns' = conns /\ stale' = stale /\ revoked' = revoked /\ rows' = rows
  BY DEF ListEnabled, LoadConnections, serverVars
<1> QED BY <1>1, <1>2, <1>3, <1>4, OutsideTokens DEF HasRow

(* Requests have no tokens; deleting a row takes a claim away and makes    *)
(* none.                                                                   *)
LEMMA EditTokens ==
    ASSUME HearthShelfInv, HearthShelfInv', TokensTrue, NEW e \in Editors, EditStep(e)
    PROVE  TokensTrue'
<1>1. /\ e \in Actors /\ loc \in [Actors -> Local] /\ pc \in [Actors -> PCs]
      /\ rows \in [RowIds -> RowType] /\ conns \in [Servers -> ConnType]
      /\ loc[e] \in Local /\ Fits(e, pc[e], loc[e])
  BY InHands DEF Actors, HearthShelfInv, Types
<1>2. CASE \E r \in RowIds : ReadRow(e, r)
  <2>1. ~HoldsAt(pc[e]) /\ ~HoldsAt(pc'[e])
    BY <1>1, <1>2 DEF ReadRow, HoldsAt
  <2>2. \A w \in Actors \ {e} : loc'[w] = loc[w] /\ pc'[w] = pc[w]
    BY <1>1, <1>2 DEF ReadRow, Set
  <2>3. conns' = conns /\ stale' = stale /\ revoked' = revoked /\ rows' = rows
    BY <1>2 DEF ReadRow, serverVars
  <2> QED BY <1>1, <2>1, <2>2, <2>3, OutsideTokens DEF HasRow
<1>3. ASSUME NEW to, WriteRow(e, to), pc[e] \in {"toggle", "rewrite", "delete"}
      PROVE  TokensTrue'
  <2>1. ~HoldsAt(pc[e]) /\ ~HoldsAt(pc'[e])
    BY <1>1, <1>3 DEF WriteRow, Stop, Goto, HoldsAt
  <2>2. \A w \in Actors \ {e} : loc'[w] = loc[w] /\ pc'[w] = pc[w]
    BY <1>1, <1>3 DEF WriteRow, Stop, Goto, Set
  <2>3. conns' = conns /\ stale' = stale /\ revoked' = revoked
    BY <1>3 DEF WriteRow, serverVars
  <2>4. PICK r \in RowIds : r = loc[e].row
    BY <1>1, <1>3, HearthShelfAssumption DEF Fits, EditFits
  <2>5. rows' = rows \/ (rows[r].there /\ rows' = [rows EXCEPT ![r] = to])
    BY <1>3, <2>4 DEF WriteRow, Me
  <2>6. \A q \in RowIds : rows'[q].there => rows[q].there
    BY <1>1, <2>5
  <2>7. \A s \in Servers : HasRow(s)' => HasRow(s)
    BY <1>1, <2>3, <2>6 DEF HasRow, ConnType
  <2> QED BY <1>1, <2>1, <2>2, <2>3, <2>7, OutsideTokens
<1>4. CASE Create(e)
  <2>1. /\ pc' = pc /\ loc' = loc /\ conns' = conns /\ stale' = stale /\ revoked' = revoked
        /\ ~HoldsAt(pc[e]) /\ ~HoldsAt(pc'[e])
    BY <1>4 DEF Create, serverVars, HoldsAt
  <2>2. PICK r \in RowIds : r = Least(Free) /\ rows[r] = Absent
    <3>1. Free \in SUBSET RowIds /\ Free # {}
      BY <1>4 DEF Free, Create
    <3>2. Least(Free) \in Free
      BY <3>1, LeastIn
    <3> QED BY <3>2 DEF Free
  <2>3. \A q \in RowIds \ {r} : rows'[q] = rows[q]
    BY <1>1, <1>4, <2>2 DEF Create
  <2>4. \A s \in Servers : conns[s].dest # r
    BY <2>2, HearthShelfAssumption DEF HearthShelfInv, ConnsNamed, Names, Absent
  <2>5. \A s \in Servers : HasRow(s)' => HasRow(s)
    BY <1>1, <2>1, <2>3, <2>4 DEF HasRow, ConnType
  <2> QED BY <1>1, <2>1, <2>5, OutsideTokens
<1> QED BY <1>1, <1>2, <1>3, <1>4 DEF EditStep, Toggle, Rewrite, Delete

(* A flow has no tokens before the servers are approved.                   *)
LEMMA BeginTokens ==
    ASSUME HearthShelfInv, HearthShelfInv', TokensTrue, NEW v \in Connectors,
           \/ ConnectStart(v) \/ Poll(v) \/ Register(v) \/ SaveApp(v) \/ SaveSecret(v)
           \/ GiveUp(v)
    PROVE  TokensTrue'
<1>1. v \in Actors /\ loc \in [Actors -> Local] /\ pc \in [Actors -> PCs]
  BY DEF Actors, HearthShelfInv, Types
<1>2. ~HoldsAt(pc[v]) /\ ~HoldsAt(pc'[v])
  BY <1>1 DEF ConnectStart, Poll, Register, SaveApp, SaveSecret, GiveUp, Stop, Goto, HoldsAt
<1>3. \A w \in Actors \ {v} : loc'[w] = loc[w] /\ pc'[w] = pc[w]
  BY <1>1 DEF ConnectStart, Poll, Register, SaveApp, SaveSecret, GiveUp, Stop, Goto, Set
<1>4. conns' = conns /\ stale' = stale /\ revoked' = revoked /\ rows' = rows
  BY DEF ConnectStart, Poll, Register, SaveApp, SaveSecret, GiveUp, serverVars
<1> QED BY <1>1, <1>2, <1>3, <1>4, OutsideTokens DEF HasRow

(* A push takes a copy: of the newest, so it has what is stored.           *)
LEMMA LoadTokens ==
    ASSUME HearthShelfInv, HearthShelfInv', TokensTrue, NEW v \in Pushes, LoadConnections(v)
    PROVE  TokensTrue'
<1>1. /\ v \in Actors /\ loc \in [Actors -> Local] /\ pc \in [Actors -> PCs]
      /\ loc[v] \in Local /\ pc[v] = "load" /\ v \notin Connectors
      /\ conns \in [Servers -> ConnType]
  BY HearthShelfAssumption DEF Actors, HearthShelfInv, Types, LoadConnections
<1>2. conns' = conns /\ stale' = stale /\ revoked' = revoked /\ rows' = rows
  BY DEF LoadConnections, serverVars
<1>3. CASE NextRow(v)
  BY <1>1, <1>3, PushOutsideTokens
<1>4. ASSUME NEW s \in Servers, NEW r,
             Set(v, [Me(v) EXCEPT !.row = r, !.server = s, !.list = conns]), Goto(v, "call")
      PROVE  TokensTrue'
  <2>1. PICK l \in Local : l = loc[v]
    BY <1>1
  <2>2. PICK m : m = [l EXCEPT !.row = r, !.server = s, !.list = conns]
    OBVIOUS
  <2>3. m.list = conns /\ m.new = l.new
    BY <2>2 DEF Local
  <2>4. loc' = [loc EXCEPT ![v] = m] /\ pc' = [pc EXCEPT ![v] = "call"]
    BY <1>4, <2>1, <2>2 DEF Set, Goto, Me
  <2>5. loc'[v] = m /\ pc'[v] = "call" /\ ~HoldsAt(pc[v])
    BY <1>1, <2>4 DEF HoldsAt
  <2>6. \A w \in Actors \ {v} : Same(loc'[w], loc[w]) /\ pc'[w] = pc[w]
    BY <1>1, <2>4 DEF Same
  <2>7. MovesWell(v)
    BY <1>1, <2>3, <2>5 DEF MovesWell, PushHas, Hand
  <2> QED BY <1>1, <1>2, <2>6, <2>7, OneMoves DEF HasRow
<1> QED BY <1>3, <1>4 DEF LoadConnections

(* Recording a 401 changes no token.                                       *)
LEMMA DeniedTokens ==
    ASSUME HearthShelfInv, TokensTrue, NEW v \in Pushes, Denied(v)
    PROVE  TokensTrue'
<1>1. /\ v \in Actors /\ loc \in [Actors -> Local] /\ pc \in [Actors -> PCs]
      /\ loc[v] \in Local /\ pc[v] = "call" /\ v \notin Connectors
      /\ Fits(v, "call", loc[v])
  BY InHands, HearthShelfAssumption DEF Actors, HearthShelfInv, Types, Denied
<1>2. conns' = conns /\ stale' = stale /\ revoked' = revoked /\ rows' = rows
  BY DEF Denied, serverVars
<1>3. PICK l \in Local : l = loc[v]
  BY <1>1
<1>4. PICK s \in Servers : s = l.server
  BY <1>1, <1>3 DEF Fits, PushFits
<1>5. PICK b \in ConnType : b = l.list[s]
  BY DEF Local
<1>6. PICK c : c = [b EXCEPT !.needs = TRUE]
  OBVIOUS
<1>7. c.dest = b.dest /\ c.token = b.token
  BY <1>6 DEF ConnType
<1>8. PICK m : m = [l EXCEPT !.list[s] = c]
  OBVIOUS
<1>9. /\ m.server = l.server /\ m.new = l.new /\ m.list[s] = c
      /\ \A t \in Servers \ {s} : m.list[t] = l.list[t]
  BY <1>8 DEF Local
<1>10. m = [l EXCEPT !.list[s].needs = TRUE]
  BY <1>5, <1>6, <1>8
<1>11. loc' = [loc EXCEPT ![v] = m] /\ pc' = [pc EXCEPT ![v] = "save"]
  BY <1>3, <1>4, <1>10 DEF Denied, Set, Goto, Me
<1>12. /\ loc'[v] = m /\ pc'[v] = "save" /\ HoldsAt(pc[v])
       /\ \A w \in Actors \ {v} : Same(loc'[w], loc[w]) /\ pc'[w] = pc[w]
  BY <1>1, <1>11 DEF HoldsAt, Same
<1>13. \A t \in Servers : m.list[t].dest = l.list[t].dest /\ m.list[t].token = l.list[t].token
  BY <1>5, <1>7, <1>9
<1>14. \A t \in Servers : PushHas(l, t, conns[t])
  BY <1>3, <1>12 DEF TokensTrue, PushesTrue
<1>15. ASSUME NEW t \in Servers, v \notin stale, conns[t].token = "cur" PROVE l.list[t].token = "cur"
  BY <1>1, <1>3, <1>12, <1>15 DEF TokensTrue, UpToDate
<1>16. MovesWell(v)
  BY <1>1, <1>2, <1>3, <1>9, <1>12, <1>13, <1>14, <1>15 DEF MovesWell, PushHas, Hand, HoldsAt
<1> QED BY <1>1, <1>2, <1>12, <1>16, OneMoves DEF HasRow

(* A push that finds the row gone forgets its copy: no row, no token to    *)
(* keep.                                                                   *)
LEMMA UpdateRowTokens ==
    ASSUME HearthShelfInv, HearthShelfInv', TokensTrue, NEW v \in Pushes, UpdateRow(v),
           ~Spend("db")
    PROVE  TokensTrue'
<1>1. /\ v \in Actors /\ loc \in [Actors -> Local] /\ pc \in [Actors -> PCs]
      /\ loc[v] \in Local /\ pc[v] = "row" /\ v \notin Connectors /\ v \notin Editors
      /\ Fits(v, "row", loc[v]) /\ conns \in [Servers -> ConnType]
      /\ rows \in [RowIds -> RowType]
  BY InHands, HearthShelfAssumption DEF Actors, HearthShelfInv, Types, UpdateRow
<1>2. conns' = conns /\ revoked' = revoked
  BY DEF UpdateRow, serverVars
<1>3. PICK r \in RowIds : r = loc[v].row /\ loc[v].list[loc[v].server].dest = r
  BY <1>1 DEF Fits, PushFits
<1>4. HoldsAt(pc[v]) /\ \A s \in Servers : PushHas(loc[v], s, conns[s])
  BY <1>1 DEF TokensTrue, PushesTrue, HoldsAt
<1>5. CASE /\ rows[r].there /\ \E to : rows' = [rows EXCEPT ![r] = to]
           /\ Goto(v, "save") /\ UNCHANGED <<loc, stale, budget>>
  <2>1. \A q \in RowIds : rows'[q].there => rows[q].there
    BY <1>1, <1>5
  <2>2. \A s \in Servers : HasRow(s)' => HasRow(s)
    BY <1>1, <1>2, <2>1 DEF HasRow, ConnType
  <2>3. /\ pc'[v] = "save" /\ HoldsAt("save")
        /\ \A w \in Actors \ {v} : Same(loc'[w], loc[w]) /\ pc'[w] = pc[w]
    BY <1>1, <1>5 DEF Goto, HoldsAt, Same
  <2>4. ASSUME NEW t \in Servers, v \notin stale, conns[t].token = "cur"
        PROVE  loc[v].list[t].token = "cur"
    BY <1>1, <1>4, <2>4 DEF TokensTrue, UpToDate
  <2>5. MovesWell(v)
    BY <1>1, <1>4, <1>5, <2>3, <2>4 DEF MovesWell, PushHas, Hand
  <2> QED BY <1>1, <1>2, <1>5, <2>2, <2>3, <2>5, OneMoves
<1>6. CASE ~rows[r].there /\ NextRow(v) /\ stale' = stale \ {v} /\ UNCHANGED rows
  <2>1. ~HoldsAt(pc'[v])
    BY <1>1, <1>6 DEF NextRow, Goto, HoldsAt
  <2>2. \A w \in Actors \ {v} : Same(loc'[w], loc[w]) /\ pc'[w] = pc[w]
    BY <1>1, <1>6 DEF NextRow, Goto, Set, Same
  <2>3. Fits(v, pc'[v], loc'[v])
    BY <1>1 DEF HearthShelfInv, Placed, Fits, PushFits, EditFits, ConnectFits, HoldsAt
  <2>4. \A s \in Servers : loc'[v].list[s].token = "none"
    BY <2>1, <2>3 DEF Fits, NoList, NoConn
  <2>5. ASSUME NEW s \in Servers, HasRow(s), Hand(pc[v], loc[v], s)
        PROVE  conns[s].token = "cur"
    <3>1. loc[v].new.token # "cur"
      BY <1>1 DEF Fits, PushFits, NoConn
    <3>2. loc[v].list[s].token = "cur"
      BY <2>5, <3>1 DEF Hand
    <3>3. loc[v].list[s].dest = conns[s].dest
      BY <1>4, <3>2 DEF PushHas, Live
    <3>4. loc[v].server # s
      BY <1>3, <1>6, <2>5, <3>3 DEF HasRow
    <3> QED BY <1>4, <3>2, <3>4 DEF PushHas
  <2>6. \A s \in Servers : HasRow(s)' => HasRow(s)
    BY <1>2, <1>6 DEF HasRow
  <2>7. MovesWell(v)
    BY <1>1, <2>1, <2>4, <2>5, <2>6 DEF MovesWell, Live
  <2> QED BY <1>1, <1>2, <1>6, <2>2, <2>6, <2>7, OneMoves
<1>7. \/ /\ rows[r].there /\ \E to : rows' = [rows EXCEPT ![r] = to]
         /\ Goto(v, "save") /\ UNCHANGED <<loc, stale, budget>>
      \/ ~rows[r].there /\ NextRow(v) /\ stale' = stale \ {v} /\ UNCHANGED rows
  BY <1>3 DEF UpdateRow, Me
<1> QED BY <1>5, <1>6, <1>7

(* A flow takes a copy of what is stored, which has no newer token than    *)
(* that.                                                                   *)
LEMMA ApproveTokens ==
    ASSUME HearthShelfInv, TokensTrue, NEW v \in Connectors, NEW S \in SUBSET Servers,
           Approve(v, S), ~Spend("db")
    PROVE  TokensTrue'
<1>1. /\ v \in Actors /\ loc \in [Actors -> Local] /\ pc \in [Actors -> PCs]
      /\ loc[v] \in Local /\ pc[v] = "wait" /\ v \notin Pushes /\ v \notin Editors
      /\ Fits(v, "wait", loc[v]) /\ conns \in [Servers -> ConnType]
  BY InHands, HearthShelfAssumption DEF Actors, HearthShelfInv, Types, Approve
<1>2. conns' = conns /\ stale' = stale /\ revoked' = revoked /\ rows' = rows
  BY DEF Approve, serverVars
<1>3. PICK l \in Local : l = loc[v]
  BY <1>1
<1>4. PICK m : m = [l EXCEPT !.list = conns, !.intros = S]
  OBVIOUS
<1>5. m.list = conns /\ m.server = l.server /\ m.new = l.new
  BY <1>4 DEF Local
<1>6. loc' = [loc EXCEPT ![v] = m] /\ pc' = [pc EXCEPT ![v] = "intro"]
  BY <1>3, <1>4 DEF Approve, Set, Goto, Me
<1>7. /\ loc'[v] = m /\ pc'[v] = "intro" /\ ~HoldsAt(pc[v])
      /\ \A w \in Actors \ {v} : Same(loc'[w], loc[w]) /\ pc'[w] = pc[w]
  BY <1>1, <1>6 DEF HoldsAt, Same
<1>8. m.server \notin Servers
  BY <1>1, <1>3, <1>5, HearthShelfAssumption DEF Fits, ConnectFits
<1>9. MovesWell(v)
  BY <1>1, <1>5, <1>7, <1>8 DEF MovesWell, FlowHas, Newer, Hand
<1> QED BY <1>1, <1>2, <1>7, <1>9, OneMoves DEF HasRow

(* An actor that keeps its copy and its token moves well.                  *)
LEMMA KeepsInHand ==
    ASSUME TokensTrue, NEW v \in Actors, HoldsAt(pc[v]), HoldsAt(pc'[v]),
           Same(loc'[v], loc[v]), stale' = stale
    PROVE  MovesWell(v)
<1> SUFFICES ASSUME NEW s \in Servers
             PROVE  /\ v \in Connectors =>
                          /\ FlowHas(loc'[v], s, conns[s])
                          /\ Newer(loc'[v], s, conns[s]) => Newer(loc[v], s, conns[s])
                    /\ v \in Pushes => PushHas(loc'[v], s, conns[s])
                    /\ loc'[v].list[s].token = loc[v].list[s].token
                    /\ v \notin stale /\ conns[s].token = "cur" => loc[v].list[s].token = "cur"
                    /\ Hand(pc[v], loc[v], s) => Hand(pc'[v], loc'[v], s)
  BY DEF MovesWell
<1>1. v \in Connectors => FlowHas(loc[v], s, conns[s])
  BY DEF TokensTrue, FlowsTrue
<1>2. v \in Pushes => PushHas(loc[v], s, conns[s])
  BY DEF TokensTrue, PushesTrue
<1> QED BY <1>1, <1>2 DEF Same, FlowHas, PushHas, Newer, Hand, TokensTrue, UpToDate

(* Reading the row changes no token; an answer that fails is a network     *)
(* failure.                                                                *)
LEMMA GetDestinationTokens ==
    ASSUME HearthShelfInv, TokensTrue, NEW v \in Connectors, GetDestination(v), ~Spend("net")
    PROVE  TokensTrue'
<1>1. /\ v \in Actors /\ loc \in [Actors -> Local] /\ pc \in [Actors -> PCs]
      /\ loc[v] \in Local /\ pc[v] = "get" /\ HoldsAt(pc[v])
  BY DEF Actors, HearthShelfInv, Types, GetDestination, HoldsAt
<1>2. conns' = conns /\ stale' = stale /\ revoked' = revoked /\ rows' = rows
  BY DEF GetDestination, serverVars
<1>3. pc' = [pc EXCEPT ![v] = "ensure"]
  BY DEF GetDestination, Goto
<1>4. pc'[v] = "ensure" /\ HoldsAt(pc'[v])
  BY <1>1, <1>3 DEF HoldsAt
<1>5. (\A w \in Actors \ {v} : loc'[w] = loc[w]) /\ Same(loc'[v], loc[v])
  <2>1. CASE UNCHANGED loc
    BY <2>1 DEF Same
  <2>2. ASSUME NEW r \in RowIds, Set(v, [Me(v) EXCEPT !.row = r, !.seen[r] = rows[r]])
        PROVE  (\A w \in Actors \ {v} : loc'[w] = loc[w]) /\ Same(loc'[v], loc[v])
    <3>1. PICK l \in Local : l = loc[v]
      BY <1>1
    <3>2. PICK d : d = rows[r]
      OBVIOUS
    <3>3. PICK m : m = [l EXCEPT !.row = r, !.seen[r] = d]
      OBVIOUS
    <3>4. m.server = l.server /\ m.list = l.list /\ m.new = l.new /\ m.intros = l.intros
      BY <3>3 DEF Local
    <3>5. loc' = [loc EXCEPT ![v] = m]
      BY <2>2, <3>1, <3>2, <3>3 DEF Set, Me
    <3> QED BY <1>1, <3>1, <3>4, <3>5 DEF Same
  <2> QED BY <2>1, <2>2 DEF GetDestination
<1>6. MovesWell(v)
  BY <1>1, <1>2, <1>4, <1>5, KeepsInHand
<1>7. \A w \in Actors \ {v} : Same(loc'[w], loc[w]) /\ pc'[w] = pc[w]
  BY <1>1, <1>3, <1>5 DEF Same
<1> QED BY <1>1, <1>2, <1>6, <1>7, OneMoves DEF HasRow

(* The flow puts the connection with the newest token in its list; or, if  *)
(* the row that it read is gone, leaves the server without a row.          *)
LEMMA EnsureDestinationTokens ==
    ASSUME HearthShelfInv, TokensTrue, NEW v \in Connectors, EnsureDestination(v), ~Spend("db")
    PROVE  TokensTrue'
<1>1. /\ v \in Actors /\ loc \in [Actors -> Local] /\ pc \in [Actors -> PCs]
      /\ loc[v] \in Local /\ pc[v] = "ensure" /\ v \notin Pushes /\ v \notin Editors
      /\ Fits(v, "ensure", loc[v]) /\ conns \in [Servers -> ConnType]
      /\ rows \in [RowIds -> RowType] /\ NoRow \notin RowIds /\ "none" \notin Servers
  BY InHands, HearthShelfAssumption DEF Actors, HearthShelfInv, Types, EnsureDestination
<1>2. conns' = conns /\ stale' = stale /\ revoked' = revoked
  BY DEF EnsureDestination, serverVars
<1>3. PICK l \in Local : l = loc[v]
  BY <1>1
<1>4. /\ l.server \in l.intros /\ l.new.dest = l.list[l.server].dest
      /\ l.row \in {NoRow, l.new.dest}
  BY <1>1, <1>3 DEF Fits, ConnectFits
<1>5. PICK s \in Servers : s = l.server
  BY <1>4 DEF Local
<1>6. /\ HoldsAt(pc[v]) /\ \A t \in Servers : FlowHas(l, t, conns[t])
      /\ Newer(l, s, conns[s]) => Spent(s)
  BY <1>1, <1>3 DEF TokensTrue, FlowsTrue, HoldsAt
<1>7. l.new.token = "cur" /\ conns[s].token # "cur" /\ l.list[s].dest = conns[s].dest
  <2>1. l.new.token = "cur" /\ l.list[s].dest = conns[s].dest
    BY <1>4, <1>5, <1>6 DEF FlowHas
  <2>2. Spent(s)
    BY <1>5, <1>6, <2>1 DEF Newer
  <2> QED BY <2>1, <2>2 DEF Spent, Live
<1>8. ASSUME NEW t \in Servers, v \notin stale, conns[t].token = "cur" PROVE l.list[t].token = "cur"
  BY <1>1, <1>3, <1>6, <1>8 DEF TokensTrue, UpToDate
<1>9. PICK left \in SUBSET Servers : left = l.intros \ {s}
  BY DEF Local
<1>10. ASSUME NEW ln \in [Servers -> ConnType], NextIntro(v, ln)
       PROVE  /\ loc'[v].server = "none" /\ loc'[v].new = NoConn /\ loc'[v].list = ln
              /\ loc'[v].intros = left /\ HoldsAt(pc'[v])
              /\ \A w \in Actors \ {v} : Same(loc'[w], loc[w]) /\ pc'[w] = pc[w]
  <2>1. PICK i \in Local : i = Idle
    BY <1>1, IdleFits
  <2>2. PICK m : m = [i EXCEPT !.list = ln, !.intros = left]
    OBVIOUS
  <2>3. m.list = ln /\ m.intros = left /\ m.server = i.server /\ m.new = i.new
    BY <2>2 DEF Local
  <2>4. PICK k : k = IF left = {} THEN "save" ELSE "intro"
    OBVIOUS
  <2>5. loc' = [loc EXCEPT ![v] = m] /\ pc' = [pc EXCEPT ![v] = k]
    BY <1>3, <1>5, <1>9, <1>10, <2>1, <2>2, <2>4 DEF NextIntro, Set, Goto, Me
  <2>6. i.server = "none" /\ i.new = NoConn /\ HoldsAt(k)
    BY <2>1, <2>4 DEF Idle, HoldsAt
  <2> QED BY <1>1, <2>3, <2>5, <2>6 DEF Same
<1>11. PICK r : r = IF l.row # NoRow THEN l.row ELSE Least(Free)
  OBVIOUS
<1>12. CASE /\ l.row # NoRow => rows[r].there
            /\ \E to : rows' = [rows EXCEPT ![r] = to]
            /\ NextIntro(v, [Me(v).list EXCEPT ![s] = [Me(v).new EXCEPT !.dest = r]])
  <2>1. /\ r \in RowIds
        /\ rows[r].there \/ \A t \in Servers : conns[t].dest # r
    <3>1. CASE l.row # NoRow
      BY <1>11, <1>12, <3>1 DEF Local
    <3>2. CASE l.row = NoRow
      <4>1. Free \in SUBSET RowIds /\ Free # {}
        BY <1>3, <3>2 DEF Free, EnsureDestination, Me
      <4>2. Least(Free) \in Free
        BY <4>1, LeastIn
      <4>3. r \in RowIds /\ rows[r] = Absent
        BY <1>11, <3>2, <4>2 DEF Free
      <4> QED BY <1>1, <4>3 DEF HearthShelfInv, ConnsNamed, Names, Absent
    <3> QED BY <3>1, <3>2
  <2>2. \A t \in Servers : HasRow(t)' => HasRow(t)
    <3>1. \A q \in RowIds \ {r} : rows'[q] = rows[q]
      BY <1>1, <1>12, <2>1
    <3> QED BY <1>1, <1>2, <2>1, <3>1 DEF HasRow, ConnType
  <2>3. PICK n \in ConnType : n = [l.new EXCEPT !.dest = r] /\ n.token = "cur"
    <3>1. PICK c \in ConnType : c = l.new
      BY DEF Local
    <3>2. [c EXCEPT !.dest = r] \in ConnType /\ [c EXCEPT !.dest = r].token = c.token
      BY <2>1 DEF ConnType
    <3> QED BY <1>7, <3>1, <3>2
  <2>4. PICK f \in [Servers -> ConnType] : f = l.list
    BY DEF Local
  <2>5. PICK ln \in [Servers -> ConnType] : ln = [f EXCEPT ![s] = n]
    OBVIOUS
  <2>6. ln[s] = n /\ \A t \in Servers \ {s} : ln[t] = l.list[t]
    BY <2>4, <2>5
  <2>7. NextIntro(v, ln)
    BY <1>3, <1>12, <2>3, <2>4, <2>5 DEF Me
  <2>8. /\ loc'[v].server = "none" /\ loc'[v].new = NoConn /\ loc'[v].list = ln
        /\ loc'[v].intros = left /\ HoldsAt(pc'[v])
        /\ \A w \in Actors \ {v} : Same(loc'[w], loc[w]) /\ pc'[w] = pc[w]
    BY <1>10, <2>7
  <2>9. ASSUME NEW t \in Servers
        PROVE  /\ FlowHas(loc'[v], t, conns[t])
               /\ Newer(loc'[v], t, conns[t]) => Newer(l, t, conns[t])
               /\ v \notin stale /\ conns[t].token = "cur" => ln[t].token = "cur"
               /\ Hand(pc[v], l, t) => Hand(pc'[v], loc'[v], t)
    <3>1. CASE t = s
      BY <1>1, <1>5, <1>7, <1>9, <2>3, <2>6, <2>8, <3>1 DEF FlowHas, Newer, Hand
    <3>2. CASE t # s
      BY <1>1, <1>5, <1>6, <1>8, <1>9, <2>6, <2>8, <3>2 DEF FlowHas, Newer, Hand
    <3> QED BY <3>1, <3>2
  <2>10. MovesWell(v)
    BY <1>1, <1>2, <1>3, <1>6, <2>8, <2>9 DEF MovesWell
  <2> QED BY <1>1, <1>2, <2>2, <2>8, <2>10, OneMoves
<1>13. CASE l.row # NoRow /\ ~rows[r].there /\ NextIntro(v, Me(v).list) /\ UNCHANGED rows
  <2>1. PICK ln \in [Servers -> ConnType] : ln = l.list
    BY DEF Local
  <2>2. NextIntro(v, ln)
    BY <1>3, <1>13, <2>1 DEF Me
  <2>3. /\ loc'[v].server = "none" /\ loc'[v].new = NoConn /\ loc'[v].list = ln
        /\ loc'[v].intros = left /\ HoldsAt(pc'[v])
        /\ \A w \in Actors \ {v} : Same(loc'[w], loc[w]) /\ pc'[w] = pc[w]
    BY <1>10, <2>2
  <2>4. ~HasRow(s)
    BY <1>4, <1>5, <1>7, <1>11, <1>13 DEF HasRow
  <2>5. \A t \in Servers : HasRow(t)' => HasRow(t)
    BY <1>2, <1>13 DEF HasRow
  <2>6. ASSUME NEW t \in Servers
        PROVE  /\ FlowHas(loc'[v], t, conns[t])
               /\ Newer(loc'[v], t, conns[t]) => Newer(l, t, conns[t])
               /\ v \notin stale /\ conns[t].token = "cur" => ln[t].token = "cur"
               /\ HasRow(t)' /\ Hand(pc[v], l, t) => Hand(pc'[v], loc'[v], t)
    BY <1>1, <1>5, <1>6, <1>8, <1>9, <2>1, <2>3, <2>4, <2>5 DEF FlowHas, Newer, Hand
  <2>7. MovesWell(v)
    BY <1>1, <1>2, <1>3, <1>6, <2>3, <2>6 DEF MovesWell
  <2> QED BY <1>1, <1>2, <2>3, <2>5, <2>7, OneMoves
<1>14. l = Me(v)
  BY <1>3 DEF Me
<1> QED BY <1>5, <1>11, <1>12, <1>13, <1>14 DEF EnsureDestination

(* Time passes and a server cuts the install off: no token changes.        *)
LEMMA TimeTokens ==
    ASSUME HearthShelfInv, TokensTrue, NEW s \in Servers, Elapse(s) \/ Lapse(s) \/ Revoke(s)
    PROVE  TokensTrue'
<1>1. /\ loc \in [Actors -> Local] /\ conns \in [Servers -> ConnType]
      /\ rows \in [RowIds -> RowType]
  BY DEF HearthShelfInv, Types
<1>2. pc' = pc /\ stale' = stale /\ revoked \subseteq revoked'
  BY DEF Elapse, Lapse, Revoke
<1>3. \A r \in RowIds : rows'[r].there = rows[r].there
  <2>1. CASE Lapse(s)
    <3> SUFFICES ASSUME NEW r \in RowIds
                 PROVE  rows'[r].there = rows[r].there
      OBVIOUS
    <3>1. PICK d \in RowType : d = rows[r]
      BY <1>1
    <3>2. PICK k : k = Bad(d.key)
      OBVIOUS
    <3>3. rows'[r] = IF d.by = s THEN [d EXCEPT !.key = k] ELSE d
      BY <2>1, <3>1, <3>2 DEF Lapse, Spoilt
    <3> QED BY <3>1, <3>3 DEF RowType
  <2>2. CASE Elapse(s) \/ Revoke(s)
    BY <2>2 DEF Elapse, Revoke
  <2> QED BY <2>1, <2>2
<1>4. \A t \in Servers : conns'[t].token = conns[t].token /\ conns'[t].dest = conns[t].dest
  <2>1. CASE Elapse(s)
    <3>1. PICK d \in ConnType : d = Overdue(conns[s]) /\ d.dest = conns[s].dest /\ d.token = conns[s].token
      BY <1>1, OverdueConn
    <3>2. conns' = [conns EXCEPT ![s] = d]
      BY <2>1, <3>1 DEF Elapse
    <3> QED BY <1>1, <3>1, <3>2
  <2>2. CASE Lapse(s) \/ Revoke(s)
    BY <2>2 DEF Lapse, Revoke
  <2> QED BY <2>1, <2>2
<1>5. ASSUME NEW w \in Actors PROVE Same(loc'[w], loc[w])
  <2>1. PICK l \in Local : l = loc[w]
    BY <1>1
  <2>2. CASE Elapse(s)
    <3>1. PICK L : L = OverdueIn(s)
      OBVIOUS
    <3>2. /\ Alike(L[w], loc[w]) /\ L[w].list[s] = Overdue(loc[w].list[s])
          /\ \A t \in Servers \ {s} : L[w].list[t] = loc[w].list[t]
          /\ L[w].new = IF loc[w].server = s THEN Overdue(loc[w].new) ELSE loc[w].new
      <4>1. loc \in [Actors -> Local]
        BY <1>1
      <4>2. \A u \in Actors :
               /\ Alike(L[u], loc[u])
               /\ L[u].list[s] = Overdue(loc[u].list[s])
               /\ \A t \in Servers \ {s} : L[u].list[t] = loc[u].list[t]
               /\ L[u].new = IF loc[u].server = s THEN Overdue(loc[u].new) ELSE loc[u].new
        BY <3>1, <4>1, OverdueCopies
      <4> QED BY <4>2
    <3>3. l.list[s] \in ConnType /\ l.new \in ConnType
      BY DEF Local
    <3>4. L[w].list[s].token = loc[w].list[s].token /\ L[w].new.token = loc[w].new.token
      BY <2>1, <3>2, <3>3, OverdueConn
    <3>5. loc' = L
      BY <2>2, <3>1 DEF Elapse, OverdueIn
    <3> QED BY <2>1, <3>2, <3>4, <3>5 DEF Same, Alike
  <2>3. CASE Lapse(s)
    <3>1. PICK k : k = IF l.server = s THEN Bad(l.key) ELSE l.key
      OBVIOUS
    <3>2. PICK f : f = [r \in RowIds |-> Spoilt(l.seen[r], s)]
      OBVIOUS
    <3>3. PICK m : m = [l EXCEPT !.key = k, !.seen = f]
      OBVIOUS
    <3>4. loc'[w] = m
      BY <2>1, <2>3, <3>1, <3>2, <3>3 DEF Lapse
    <3>5. m.server = l.server /\ m.intros = l.intros /\ m.new = l.new /\ m.list = l.list
      BY <3>3 DEF Local
    <3> QED BY <2>1, <3>4, <3>5 DEF Same
  <2>4. CASE Revoke(s)
    BY <2>4 DEF Revoke, Same
  <2> QED BY <2>2, <2>3, <2>4
<1>6. \A t \in Servers : HasRow(t)' => HasRow(t)
  BY <1>1, <1>3, <1>4 DEF HasRow, ConnType
<1> QED BY <1>2, <1>4, <1>5, <1>6, AroundTokens


(* A server issues a new token to one actor, and takes no older one for    *)
(* the newest: what everybody else has of it is older by that.             *)
Faded(c, d) ==
    /\ c.dest = d.dest /\ c.token # "cur"
    /\ c.token \in Live => d.token \in Live
Aged(m, n, s) ==
    /\ m.server = n.server /\ m.intros = n.intros
    /\ Faded(m.list[s], n.list[s])
    /\ \A t \in Servers \ {s} : m.list[t] = n.list[t]
    /\ n.server # s => m.new = n.new

(* If the flows have what they should after such a step, everything else   *)
(* about the tokens follows.                                               *)
LEMMA IssueTokens ==
    ASSUME TokensTrue, FlowsTrue', NEW v \in Actors, NEW s \in Servers,
           \A w \in Actors \ {v} : pc'[w] = pc[w] /\ Aged(loc'[w], loc[w], s),
           \A t \in Servers \ {s} : conns'[t] = conns[t], Faded(conns'[s], conns[s]),
           stale' = stale, \A t \in Servers \ {s} : t \in revoked => t \in revoked',
           rows' = rows, HoldsAt(pc[v]), HoldsAt(pc'[v]), Hand(pc'[v], loc'[v], s),
           \A t \in Servers \ {s} : /\ loc'[v].list[t].token = loc[v].list[t].token
                                    /\ loc[v].server # t,
           v \in Pushes => \A t \in Servers : PushHas(loc'[v], t, conns'[t])
    PROVE  TokensTrue'
<1>1. PushesTrue'
  <2> SUFFICES ASSUME NEW u \in Pushes, NEW t \in Servers, HoldsAt(pc'[u])
               PROVE  PushHas(loc'[u], t, conns'[t])
    BY DEF PushesTrue, HoldsAt, PushHas, Live
  <2>1. CASE u = v
    BY <2>1
  <2>2. CASE u # v
    <3>1. u \in Actors \ {v}
      BY <2>2 DEF Actors
    <3>2. PushHas(loc[u], t, conns[t]) /\ Aged(loc'[u], loc[u], s)
      BY <3>1 DEF TokensTrue, PushesTrue
    <3>3. CASE t = s
      BY <3>2, <3>3 DEF PushHas, Aged, Faded
    <3>4. CASE t # s
      BY <3>2, <3>4 DEF PushHas, Aged
    <3> QED BY <3>3, <3>4
  <2> QED BY <2>1, <2>2
<1>2. UpToDate'
  <2> SUFFICES ASSUME NEW u \in Actors, NEW t \in Servers, HoldsAt(pc'[u]),
                      u \notin stale', conns'[t].token = "cur"
               PROVE  loc'[u].list[t].token = "cur"
    BY DEF UpToDate, HoldsAt
  <2>1. t # s /\ conns[t].token = "cur"
    BY DEF Faded
  <2>2. HoldsAt(pc[u]) /\ loc'[u].list[t].token = loc[u].list[t].token
    BY <2>1 DEF Aged
  <2> QED BY <2>1, <2>2 DEF TokensTrue, UpToDate
<1>3. Kept'
  <2> SUFFICES ASSUME NEW t \in Servers \ revoked', HasRow(t)', conns'[t].token # "cur"
               PROVE  \E u \in Actors : Hand(pc'[u], loc'[u], t)
    BY DEF Kept, InHand, Hand, Holds, HoldsAt, Me
  <2>1. CASE t = s
    BY <2>1
  <2>2. CASE t # s
    <3>1. HasRow(t) /\ t \notin revoked /\ conns[t].token # "cur"
      BY <2>2 DEF HasRow
    <3>2. PICK u \in Actors : Hand(pc[u], loc[u], t)
      BY <3>1, InHandIs DEF TokensTrue, Kept
    <3>3. Hand(pc'[u], loc'[u], t)
      <4>1. CASE u = v
        BY <2>2, <3>2, <4>1 DEF Hand
      <4>2. CASE u # v
        BY <2>2, <3>2, <4>2 DEF Hand, Aged
      <4> QED BY <4>1, <4>2
    <3> QED BY <3>3
  <2> QED BY <2>1, <2>2
<1> QED BY <1>1, <1>2, <1>3 DEF TokensTrue

(* A grace window ends: what was no longer the newest is dead.             *)
LEMMA EndGraceTokens ==
    ASSUME HearthShelfInv, TokensTrue, NEW s \in Servers, EndGrace(s)
    PROVE  TokensTrue'
<1>1. loc \in [Actors -> Local] /\ conns \in [Servers -> ConnType]
  BY DEF HearthShelfInv, Types
<1>2. pc' = pc /\ stale' = stale /\ revoked' = revoked /\ rows' = rows
  BY DEF EndGrace, serverVars
<1>3. PICK d \in ConnType : /\ d = Ended(conns[s]) /\ d.dest = conns[s].dest
                            /\ d.token = "cur" <=> conns[s].token = "cur"
                            /\ d.token \in Live => conns[s].token \in Live
  BY <1>1, EndedConn
<1>4. conns' = [conns EXCEPT ![s] = d]
  BY <1>3 DEF EndGrace
<1>5. \A t \in Servers : /\ conns'[t].dest = conns[t].dest
                         /\ conns'[t].token = "cur" <=> conns[t].token = "cur"
                         /\ conns'[t].token \in Live => conns[t].token \in Live
  BY <1>1, <1>3, <1>4
<1>6. PICK L : L = EndedIn(s)
  OBVIOUS
<1>7. loc' = L
  BY <1>6 DEF EndGrace, EndedIn
<1>8. \A w \in Actors :
         /\ Alike(L[w], loc[w])
         /\ L[w].list[s] = Ended(loc[w].list[s])
         /\ \A t \in Servers \ {s} : L[w].list[t] = loc[w].list[t]
         /\ L[w].new = IF loc[w].server = s THEN Ended(loc[w].new) ELSE loc[w].new
  BY <1>1, <1>6, EndedCopies
<1>9. ASSUME NEW w \in Actors
      PROVE  /\ loc'[w].server = loc[w].server /\ loc'[w].intros = loc[w].intros
             /\ loc'[w].new.token = "cur" <=> loc[w].new.token = "cur"
             /\ \A t \in Servers :
                   /\ loc'[w].list[t].dest = loc[w].list[t].dest
                   /\ loc'[w].list[t].token = "cur" <=> loc[w].list[t].token = "cur"
                   /\ loc'[w].list[t].token \in Live => loc[w].list[t].token \in Live
  <2>1. loc[w].list[s] \in ConnType /\ loc[w].new \in ConnType
    BY <1>1 DEF Local
  <2>2. /\ loc'[w].list[s].dest = loc[w].list[s].dest
        /\ loc'[w].list[s].token = "cur" <=> loc[w].list[s].token = "cur"
        /\ loc'[w].list[s].token \in Live => loc[w].list[s].token \in Live
        /\ loc'[w].new.token = "cur" <=> loc[w].new.token = "cur"
    BY <1>7, <1>8, <2>1, EndedConn
  <2>3. loc'[w].server = loc[w].server /\ loc'[w].intros = loc[w].intros
    BY <1>7, <1>8 DEF Alike
  <2> QED BY <1>7, <1>8, <2>2, <2>3
<1>10. Pushes \subseteq Actors /\ Connectors \subseteq Actors
  BY DEF Actors
<1>11. FlowsTrue'
  <2> SUFFICES ASSUME NEW w \in Connectors, NEW t \in Servers, HoldsAt(pc'[w])
               PROVE  /\ FlowHas(loc'[w], t, conns'[t])
                      /\ Newer(loc'[w], t, conns'[t]) => Spent(t)'
    BY DEF FlowsTrue, HoldsAt, FlowHas, Newer
  <2>1. FlowHas(loc[w], t, conns[t]) /\ (Newer(loc[w], t, conns[t]) => Spent(t))
    BY <1>2 DEF TokensTrue, FlowsTrue
  <2>2. Newer(loc'[w], t, conns'[t]) => Newer(loc[w], t, conns[t])
    BY <1>5, <1>9, <1>10 DEF Newer
  <2>3. Spent(t) => Spent(t)'
    BY <1>5, <1>9, <1>10 DEF Spent
  <2>4. FlowHas(loc'[w], t, conns'[t])
    BY <1>5, <1>9, <1>10, <2>1 DEF FlowHas
  <2> QED BY <2>1, <2>2, <2>3, <2>4
<1>12. PushesTrue'
  <2> SUFFICES ASSUME NEW u \in Pushes, NEW t \in Servers, HoldsAt(pc'[u])
               PROVE  PushHas(loc'[u], t, conns'[t])
    BY DEF PushesTrue, HoldsAt, PushHas, Live
  <2>1. PushHas(loc[u], t, conns[t])
    BY <1>2 DEF TokensTrue, PushesTrue
  <2> QED BY <1>5, <1>9, <1>10, <2>1 DEF PushHas
<1>13. UpToDate'
  <2> SUFFICES ASSUME NEW u \in Actors, NEW t \in Servers, HoldsAt(pc'[u]),
                      u \notin stale', conns'[t].token = "cur"
               PROVE  loc'[u].list[t].token = "cur"
    BY DEF UpToDate, HoldsAt
  <2>1. loc[u].list[t].token = "cur"
    BY <1>2, <1>5 DEF TokensTrue, UpToDate
  <2> QED BY <1>9, <2>1
<1>14. Kept'
  <2> SUFFICES ASSUME NEW t \in Servers \ revoked', HasRow(t)', conns'[t].token # "cur"
               PROVE  \E u \in Actors : Hand(pc'[u], loc'[u], t)
    BY DEF Kept, InHand, Hand, Holds, HoldsAt, Me
  <2>1. HasRow(t) /\ t \notin revoked /\ conns[t].token # "cur"
    BY <1>2, <1>5 DEF HasRow
  <2>2. PICK u \in Actors : Hand(pc[u], loc[u], t)
    BY <2>1, InHandIs DEF TokensTrue, Kept
  <2>3. Hand(pc'[u], loc'[u], t)
    BY <1>2, <1>9, <2>2 DEF Hand
  <2> QED BY <2>3
<1> QED BY <1>11, <1>12, <1>13, <1>14 DEF TokensTrue

(* A refresh: the server rotates the newest token, and the push has the    *)
(* one it gave; or it answers a retry, and no token changes.  No flow has  *)
(* a newer token of the server, for then no push would have a live one.    *)
LEMMA RefreshTokens ==
    ASSUME HearthShelfInv, TokensTrue, NEW v \in Pushes, NEW life \in {"fresh", "none"},
           NEW key \in {"good", "none"}, Refresh(v, life, key)
    PROVE  TokensTrue'
<1>1. /\ v \in Actors /\ loc \in [Actors -> Local] /\ pc \in [Actors -> PCs]
      /\ loc[v] \in Local /\ pc[v] = "call" /\ v \notin Connectors
      /\ Fits(v, "call", loc[v]) /\ conns \in [Servers -> ConnType]
  BY InHands, HearthShelfAssumption DEF Actors, HearthShelfInv, Types, Refresh
<1>2. stale' = stale /\ revoked' = revoked /\ rows' = rows
  BY DEF Refresh
<1>3. PICK l \in Local : l = loc[v]
  BY <1>1
<1>4. PICK s \in Servers : s = l.server
  BY <1>1, <1>3 DEF Fits, PushFits
<1>5. PICK c \in ConnType : c = l.list[s]
  BY DEF Local
<1>6. PICK d \in ConnType : d = Renewed(c, life) /\ d.dest = c.dest /\ d.token = c.token
  BY RenewedConn DEF Lives
<1>7. PICK m : m = [l EXCEPT !.list[s] = d, !.key = key]
  OBVIOUS
<1>8. /\ m.server = l.server /\ m.intros = l.intros /\ m.new = l.new /\ m.list[s] = d
      /\ \A t \in Servers \ {s} : m.list[t] = l.list[t]
  BY <1>7 DEF Local
<1>9. \A t \in Servers : m.list[t].dest = l.list[t].dest /\ m.list[t].token = l.list[t].token
  BY <1>5, <1>6, <1>8
<1>10. PICK k : k = IF key = "good" THEN "row" ELSE "save"
  OBVIOUS
<1>11. PICK L : L = Rotated(s, c)
  OBVIOUS
<1>12. Rotates(s, c) /\ loc' = [L EXCEPT ![v] = m] /\ pc' = [pc EXCEPT ![v] = k]
  BY <1>3, <1>4, <1>5, <1>6, <1>7, <1>10, <1>11 DEF Refresh, Goto, Me
<1>13. HoldsAt(k) /\ HoldsAt(pc[v])
  BY <1>1, <1>10 DEF HoldsAt
<1>14. \A t \in Servers : PushHas(l, t, conns[t])
  BY <1>3, <1>13 DEF TokensTrue, PushesTrue
<1>15. CASE c.token # "cur"
  <2>1. conns' = conns /\ L = loc
    BY <1>1, <1>11, <1>12, <1>15 DEF Rotates, Rotated
  <2>2. /\ loc'[v] = m /\ pc'[v] = k
        /\ \A w \in Actors \ {v} : Same(loc'[w], loc[w]) /\ pc'[w] = pc[w]
    BY <1>1, <1>12, <2>1 DEF Same
  <2>3. MovesWell(v)
    BY <1>1, <1>2, <1>3, <1>8, <1>9, <1>13, <2>2, KeepsInHand DEF Same
  <2> QED BY <1>1, <1>2, <2>1, <2>2, <2>3, OneMoves DEF HasRow
<1>16. CASE c.token = "cur"
  <2>1. L = OlderIn(s) /\ conns' = [conns EXCEPT ![s] = Older(conns[s])]
    BY <1>11, <1>12, <1>16 DEF Rotates, Rotated, OlderIn
  <2>2. /\ L \in [Actors -> Local]
        /\ \A w \in Actors :
              /\ Alike(L[w], loc[w])
              /\ L[w].list[s] = Older(loc[w].list[s])
              /\ \A t \in Servers \ {s} : L[w].list[t] = loc[w].list[t]
              /\ L[w].new = IF loc[w].server = s THEN Older(loc[w].new) ELSE loc[w].new
    BY <1>1, <2>1, OlderCopies
  <2>3. ASSUME NEW b \in ConnType PROVE Faded(Older(b), b)
    BY OlderConn DEF Faded, Live
  <2>4. ASSUME NEW w \in Actors PROVE Aged(L[w], loc[w], s)
    <3>1. loc[w].list[s] \in ConnType
      BY <1>1 DEF Local
    <3>2. L[w].server = loc[w].server /\ L[w].intros = loc[w].intros
      BY <2>2 DEF Alike
    <3> QED BY <2>2, <2>3, <3>1, <3>2 DEF Aged
  <2>5. Faded(conns'[s], conns[s]) /\ \A t \in Servers \ {s} : conns'[t] = conns[t]
    BY <1>1, <2>1, <2>3
  <2>6. /\ loc'[v] = m /\ pc'[v] = k
        /\ \A w \in Actors \ {v} : pc'[w] = pc[w] /\ loc'[w] = L[w]
    BY <1>1, <1>12, <2>2
  <2>7. \A w \in Actors \ {v} : pc'[w] = pc[w] /\ Aged(loc'[w], loc[w], s)
    BY <2>4, <2>6
  <2>8. l.list[s].token \in Live /\ l.list[s].dest = conns[s].dest
    BY <1>5, <1>14, <1>16 DEF Live, PushHas
  <2>9. FlowsTrue'
    <3> SUFFICES ASSUME NEW w \in Connectors, NEW t \in Servers, HoldsAt(pc'[w])
                 PROVE  /\ FlowHas(loc'[w], t, conns'[t])
                        /\ Newer(loc'[w], t, conns'[t]) => Spent(t)'
      BY DEF FlowsTrue, HoldsAt, FlowHas, Newer
    <3>1. w \in Actors \ {v}
      BY <1>1 DEF Actors
    <3>2. FlowHas(loc[w], t, conns[t]) /\ (Newer(loc[w], t, conns[t]) => Spent(t))
      BY <2>7, <3>1 DEF TokensTrue, FlowsTrue
    <3>3. Aged(loc'[w], loc[w], s)
      BY <2>7, <3>1
    <3>4. CASE t = s
      <4>1. ~Newer(loc[w], s, conns[s])
        BY <1>3, <2>8, <3>2, <3>4 DEF Spent
      <4>2. loc[w].server # s /\ loc[w].list[s].dest = conns[s].dest
        BY <3>2, <3>4, <4>1 DEF FlowHas, Newer
      <4>3. loc'[w].list[s].dest = conns'[s].dest
        BY <2>5, <3>3, <4>2 DEF Aged, Faded
      <4>4. loc'[w].server # s /\ loc'[w].list[s].token # "cur"
        BY <3>3, <4>2 DEF Aged, Faded
      <4> QED BY <3>4, <4>3, <4>4 DEF FlowHas, Newer
    <3>5. CASE t # s
      <4>1. conns'[t] = conns[t] /\ loc'[w].list[t] = loc[w].list[t]
        BY <2>5, <3>3, <3>5 DEF Aged
      <4>2. loc'[w].server = loc[w].server /\ loc'[w].intros = loc[w].intros
        BY <3>3 DEF Aged
      <4>3. loc[w].server = t => loc'[w].new = loc[w].new
        BY <3>3, <3>5 DEF Aged
      <4>4. FlowHas(loc'[w], t, conns'[t])
        BY <3>2, <4>1, <4>2, <4>3 DEF FlowHas
      <4>5. Newer(loc'[w], t, conns'[t]) => Newer(loc[w], t, conns[t])
        BY <4>1, <4>2, <4>3 DEF Newer
      <4>6. ASSUME Spent(t) PROVE Spent(t)'
        <5>1. ASSUME NEW u \in Pushes PROVE loc'[u].list[t].token = loc[u].list[t].token
          <6>1. CASE u = v
            BY <1>3, <1>9, <2>6, <6>1
          <6>2. CASE u # v
            BY <2>7, <3>5, <6>2 DEF Aged, Actors
          <6> QED BY <6>1, <6>2
        <5> QED BY <4>1, <4>6, <5>1 DEF Spent
      <4> QED BY <3>2, <4>4, <4>5, <4>6
    <3> QED BY <3>4, <3>5
  <2>10. \A t \in Servers : PushHas(m, t, conns'[t])
    <3> SUFFICES ASSUME NEW t \in Servers PROVE PushHas(m, t, conns'[t])
      OBVIOUS
    <3>1. CASE t = s
      BY <1>4, <1>8, <1>9, <2>5, <2>8, <3>1 DEF PushHas, Faded
    <3>2. CASE t # s
      BY <1>8, <1>14, <2>5, <3>2 DEF PushHas
    <3> QED BY <3>1, <3>2
  <2>11. Hand(k, m, s)
    BY <1>5, <1>9, <1>13, <1>16 DEF Hand
  <2>12. \A t \in Servers \ {s} : m.list[t].token = loc[v].list[t].token /\ loc[v].server # t
    BY <1>3, <1>4, <1>9
  <2> QED BY <1>1, <1>2, <1>13, <2>5, <2>6, <2>7, <2>9, <2>10, <2>11, <2>12, IssueTokens
<1> QED BY <1>15, <1>16

(* New credentials: the flow has the newest token, the ones before are     *)
(* dead in every copy, and the stored connection of the server is the one  *)
(* that the flow's list names.                                             *)
LEMMA IntroduceTokens ==
    ASSUME HearthShelfInv, TokensTrue, OneFlow, NEW v \in Connectors, NEW s \in Servers,
           NEW life \in {"fresh", "none"}, NEW token \in {"cur", "none"},
           Introduce(v, s, life, token), ~Spend("notoken")
    PROVE  TokensTrue'
<1>1. /\ v \in Actors /\ loc \in [Actors -> Local] /\ pc \in [Actors -> PCs]
      /\ loc[v] \in Local /\ pc[v] = "intro" /\ v \notin Pushes
      /\ Fits(v, "intro", loc[v]) /\ conns \in [Servers -> ConnType]
  BY InHands, HearthShelfAssumption DEF Actors, HearthShelfInv, Types, Introduce
<1>2. /\ stale' = stale /\ rows' = rows /\ revoked' = revoked \ {s}
      /\ s \in loc[v].intros
  BY DEF Introduce, Me
<1>3. loc[v].server = "none" /\ "none" \notin Servers
  BY <1>1, HearthShelfAssumption DEF Fits, ConnectFits
<1>4. PICK L : L = KilledIn(s)
  OBVIOUS
<1>5. /\ L \in [Actors -> Local]
      /\ \A w \in Actors :
            /\ Alike(L[w], loc[w])
            /\ L[w].list[s] = Killed(loc[w].list[s])
            /\ \A t \in Servers \ {s} : L[w].list[t] = loc[w].list[t]
            /\ L[w].new = IF loc[w].server = s THEN Killed(loc[w].new) ELSE loc[w].new
  BY <1>1, <1>4, KilledCopies
<1>6. ASSUME NEW b \in ConnType PROVE Faded(Killed(b), b) /\ Killed(b).token \notin Live
  BY KilledConn DEF Faded, Live
<1>7. ASSUME NEW w \in Actors PROVE Aged(L[w], loc[w], s) /\ L[w].list[s].token \notin Live
  <2>1. loc[w].list[s] \in ConnType
    BY <1>1 DEF Local
  <2>2. L[w].server = loc[w].server /\ L[w].intros = loc[w].intros
    BY <1>5 DEF Alike
  <2> QED BY <1>5, <1>6, <2>1, <2>2 DEF Aged
<1>8. PICK l \in Local : l = L[v]
  BY <1>1, <1>5
<1>22. token = "cur"
  BY DEF Introduce
<1>9. PICK n : n = [dest |-> Me(v).list[s].dest, token |-> token, life |-> life, needs |-> FALSE]
  OBVIOUS
<1>10. PICK m : m = [l EXCEPT !.server = s, !.new = n]
  OBVIOUS
<1>11. m.server = s /\ m.new = n /\ m.list = l.list /\ m.intros = l.intros
  BY <1>10 DEF Local
<1>12. loc' = [L EXCEPT ![v] = m] /\ pc' = [pc EXCEPT ![v] = "get"]
  BY <1>4, <1>8, <1>9, <1>10 DEF Introduce, Goto, KilledIn
<1>13. /\ loc'[v] = m /\ pc'[v] = "get"
       /\ \A w \in Actors \ {v} : pc'[w] = pc[w] /\ loc'[w] = L[w]
  BY <1>1, <1>5, <1>12
<1>14. \A w \in Actors \ {v} : pc'[w] = pc[w] /\ Aged(loc'[w], loc[w], s)
  BY <1>7, <1>13
<1>15. conns' = [conns EXCEPT ![s] = Killed(conns[s])]
  BY DEF Introduce
<1>16. /\ Faded(conns'[s], conns[s]) /\ conns'[s].token \notin Live
       /\ \A t \in Servers \ {s} : conns'[t] = conns[t]
  BY <1>1, <1>6, <1>15
<1>17. HoldsAt("get") /\ HoldsAt("intro") /\ Hand("get", m, s)
  BY <1>9, <1>11, <1>22 DEF HoldsAt, Hand
<1>18. \A t \in Servers \ {s} : m.list[t] = loc[v].list[t] /\ loc[v].server # t
  <2>1. \A t \in Servers \ {s} : L[v].list[t] = loc[v].list[t]
    BY <1>1, <1>5
  <2> QED BY <1>3, <1>8, <1>11, <2>1
<1>19. m.list[s].dest = loc[v].list[s].dest /\ m.intros = loc[v].intros
  <2>1. Alike(L[v], loc[v])
    BY <1>1, <1>5
  <2> QED BY <1>8, <1>11, <2>1 DEF Alike
<1>20. FlowsTrue'
  <2> SUFFICES ASSUME NEW t \in Servers
               PROVE  FlowHas(m, t, conns'[t]) /\ (Newer(m, t, conns'[t]) => Spent(t)')
    <3>1. ASSUME NEW w \in Connectors PROVE loc'[w] = m
      BY <1>13 DEF OneFlow
    <3> QED BY <3>1 DEF FlowsTrue, FlowHas, Newer
  <2>1. FlowHas(loc[v], t, conns[t]) /\ (Newer(loc[v], t, conns[t]) => Spent(t))
    BY <1>1, <1>17 DEF TokensTrue, FlowsTrue
  <2>2. CASE t = s
    <3>1. m.list[s].dest = conns'[s].dest
      BY <1>2, <1>16, <1>19, <2>1, <2>2 DEF FlowHas, Faded
    <3>2. \A u \in Pushes : loc'[u].list[s].token \notin Live
      BY <1>1, <1>7, <1>13 DEF Actors
    <3> QED BY <1>9, <1>11, <1>16, <1>22, <2>2, <3>1, <3>2 DEF FlowHas, Spent
  <2>3. CASE t # s
    <3>1. m.server # t /\ m.list[t] = loc[v].list[t] /\ conns'[t] = conns[t]
      BY <1>11, <1>16, <1>18, <2>3
    <3>2. FlowHas(m, t, conns'[t])
      BY <1>19, <2>1, <3>1 DEF FlowHas
    <3>3. Newer(m, t, conns'[t]) => Newer(loc[v], t, conns[t])
      BY <3>1 DEF Newer
    <3>4. \A u \in Pushes : loc'[u].list[t] = loc[u].list[t]
      BY <1>1, <1>14, <2>3 DEF Aged, Actors
    <3>5. Spent(t) => Spent(t)'
      BY <3>1, <3>4 DEF Spent
    <3> QED BY <2>1, <3>2, <3>3, <3>5
  <2> QED BY <2>2, <2>3
<1>21. \A t \in Servers \ {s} : t \in revoked => t \in revoked'
  BY <1>2
<1> QED BY <1>1, <1>2, <1>13, <1>14, <1>16, <1>17, <1>18, <1>20, <1>21, IssueTokens

(* A copy that is not stale is written: what it has the newest token of is *)
(* stored from then on, and it does not lose what is stored.               *)
LEMMA SaveTokens ==
    ASSUME HearthShelfInv, TokensTrue, Calm, OneFlow, NEW v \in Pushes \cup Connectors,
           pc[v] = "save", SaveConnections(v, loc[v].list), v \notin stale,
           ~HoldsAt(pc'[v]), HearthShelfInv',
           \A w \in Actors \ {v} : loc'[w] = loc[w] /\ pc'[w] = pc[w],
           rows' = rows, revoked' = revoked
    PROVE  TokensTrue'
<1>1. /\ v \in Actors /\ HoldsAt(pc[v]) /\ Fits(v, "save", loc[v])
      /\ FollowsAt(v, "save", loc[v])
  BY InHands DEF Actors, HoldsAt
<1>2. PICK N : N = loc[v].list
  OBVIOUS
<1>3. conns' = N /\ stale' = {w \in Actors \ {v} : Holds(w)}
  BY <1>2 DEF SaveConnections
<1>4. \A t \in Servers : loc'[v].list[t].token = "none"
  BY <1>1 DEF HearthShelfInv, Placed, Fits, NoList, NoConn, HoldsAt, PushFits, EditFits, ConnectFits
<1>5. \A t \in Servers : conns[t].token = "cur" => N[t].token = "cur"
  BY <1>1, <1>2 DEF TokensTrue, UpToDate
<1>6. ASSUME NEW t \in Servers
      PROVE  \/ N[t].dest = conns[t].dest
             \/ N[t].token = "cur" /\ Spent(t)
  <2>1. CASE v \in Pushes
    <3>1. v \notin Connectors
      BY <2>1, HearthShelfAssumption
    <3> QED BY <1>1, <1>2, <3>1 DEF FollowsAt, HoldsAt
  <2>2. CASE v \in Connectors
    <3>1. FlowHas(loc[v], t, conns[t]) /\ (Newer(loc[v], t, conns[t]) => Spent(t))
      BY <1>1, <2>2 DEF TokensTrue, FlowsTrue
    <3> QED BY <1>2, <3>1 DEF FlowHas, Newer
  <2> QED BY <2>1, <2>2
<1>7. FlowsTrue'
  <2> SUFFICES ASSUME NEW w \in Connectors, NEW t \in Servers, HoldsAt(pc'[w])
               PROVE  FlowHas(loc'[w], t, N[t]) /\ (Newer(loc'[w], t, N[t]) => Spent(t)')
    BY <1>3 DEF FlowsTrue, HoldsAt, FlowHas, Newer
  <2>1. w # v /\ w \in Actors
    BY DEF Actors
  <2>2. v \in Pushes /\ v \notin Connectors
    BY <2>1, HearthShelfAssumption DEF OneFlow
  <2>3. N[t].dest = conns[t].dest
    BY <1>1, <1>2, <2>2 DEF FollowsAt, HoldsAt
  <2>4. /\ FlowHas(loc[w], t, conns[t]) /\ loc'[w] = loc[w]
        /\ Newer(loc[w], t, conns[t]) => Spent(t)
    BY <2>1 DEF TokensTrue, FlowsTrue
  <2>5. Newer(loc[w], t, N[t]) => Newer(loc[w], t, conns[t])
    BY <1>5 DEF Newer
  <2>6. Spent(t) => N[t].token \notin Live
    BY <1>2, <2>2 DEF Spent
  <2>7. Spent(t) => Spent(t)'
    <3> SUFFICES ASSUME Spent(t), NEW u \in Pushes
                 PROVE  loc'[u].list[t].token \notin Live
      BY <1>3, <2>6 DEF Spent
    <3>1. CASE u = v
      BY <1>4, <3>1 DEF Live
    <3>2. CASE u # v
      BY <3>2 DEF Spent, Actors
    <3> QED BY <3>1, <3>2
  <2>8. FlowHas(loc[w], t, N[t])
    BY <2>3, <2>4, <2>6 DEF FlowHas, Newer, Live
  <2> QED BY <2>4, <2>5, <2>7, <2>8
<1>8. PushesTrue'
  <2> SUFFICES ASSUME NEW u \in Pushes, NEW t \in Servers, HoldsAt(pc'[u])
               PROVE  PushHas(loc'[u], t, N[t])
    BY <1>3 DEF PushesTrue, HoldsAt, PushHas, Live
  <2>1. u # v /\ u \in Actors
    BY DEF Actors
  <2>2. PushHas(loc[u], t, conns[t]) /\ loc'[u] = loc[u]
    BY <2>1 DEF TokensTrue, PushesTrue
  <2>3. loc[u].list[t].token \in Live => N[t].dest = conns[t].dest
    BY <1>6 DEF Spent
  <2> QED BY <1>5, <2>2, <2>3 DEF PushHas
<1>9. UpToDate'
  <2>1. \A u \in Actors : Holds(u)' => u \in stale'
    BY <1>3 DEF Holds, HoldsAt
  <2> QED BY <2>1 DEF UpToDate, Holds, HoldsAt
<1>10. Kept'
  <2> SUFFICES ASSUME NEW t \in Servers \ revoked', HasRow(t)', N[t].token # "cur"
               PROVE  \E u \in Actors : Hand(pc'[u], loc'[u], t)
    BY <1>3 DEF Kept, InHand, Hand, Holds, HoldsAt, Me
  <2>1. N[t].dest = conns[t].dest
    BY <1>6
  <2>2. HasRow(t) /\ conns[t].token # "cur"
    BY <1>3, <1>5, <2>1 DEF HasRow
  <2>3. PICK u \in Actors : Hand(pc[u], loc[u], t)
    BY <2>2, InHandIs DEF TokensTrue, Kept
  <2>4. u # v
    <3>1. loc[v].new.token = "none"
      BY <1>1 DEF Fits, PushFits, ConnectFits, NoConn
    <3> QED BY <1>2, <2>3, <3>1 DEF Hand
  <2> QED BY <2>3, <2>4
<1> QED BY <1>7, <1>8, <1>9, <1>10 DEF TokensTrue

(* The saves of a push and of a connect flow are such writes, while        *)
(* nothing fails.                                                          *)
LEMMA SavesTokens ==
    ASSUME HearthShelfInv, HearthShelfInv', TokensTrue, Calm, OneFlow, ~overwrote', ~Spend("db"),
           NEW v \in Pushes \cup Connectors,
           (v \in Pushes /\ SaveRenewed(v)) \/ (v \in Connectors /\ SaveConnected(v))
    PROVE  TokensTrue'
<1>1. /\ v \in Actors /\ loc \in [Actors -> Local] /\ pc \in [Actors -> PCs]
  BY DEF Actors, HearthShelfInv, Types
<1>2. pc[v] = "save" /\ SaveConnections(v, loc[v].list) /\ rows' = rows /\ revoked' = revoked
  BY DEF SaveRenewed, SaveConnected, serverVars, Me
<1>3. v \notin stale
  BY <1>2 DEF SaveConnections
<1>4. NextRow(v) \/ Stop(v)
  BY DEF SaveRenewed, SaveConnected
<1>5. ~HoldsAt(pc'[v]) /\ \A w \in Actors \ {v} : loc'[w] = loc[w] /\ pc'[w] = pc[w]
  BY <1>1, <1>4 DEF NextRow, Stop, Goto, Set, HoldsAt
<1> QED BY <1>2, <1>3, <1>5, SaveTokens

-----------------------------------------------------------------------------
(* While nothing failed, nothing has failed before, and no step is one     *)
(* that fails.                                                             *)
LEMMA SmoothStep ==
    ASSUME HearthShelfInv, Next, Undisturbed'
    PROVE  /\ Undisturbed /\ Calm /\ ~overwrote'
           /\ ~Spend("db") /\ ~Spend("net") /\ ~Spend("crash") /\ ~Spend("notoken")
<1>1. Types /\ {"db", "net", "crash", "notoken"} \subseteq Events \ {"any"}
  BY DEF HearthShelfInv, Events
<1>2. /\ ~overwrote' /\ Spared("db")' /\ Spared("net")' /\ Spared("crash")'
      /\ Spared("notoken")'
  BY DEF Undisturbed, Spared
<1>3. /\ ~Spend("db") /\ ~Spend("net") /\ ~Spend("crash") /\ ~Spend("notoken")
      /\ ~BegunAmiss
  BY <1>1, <1>2, SpentOn, AmissSpent
<1>4. /\ UNCHANGED budget \/ Begun \/ \E k \in Events \ {"any"} : Spend(k)
      /\ UNCHANGED overwrote \/ \E v \in Actors : SaveConnections(v, Me(v).list)
  <2>1. ASSUME NEW v \in Pushes, PushStep(v)
        PROVE  /\ UNCHANGED budget \/ Spend("nolife") \/ Spend("nokey")
               /\ UNCHANGED overwrote \/ SaveConnections(v, Me(v).list)
    <3>1. UNCHANGED overwrote \/ SaveConnections(v, Me(v).list)
      BY <2>1 DEF PushStep, ListEnabled, LoadConnections, Refresh, Denied, RefreshFails,
         UpdateRow, SaveRenewed, NotSaved
    <3>2. UNCHANGED budget \/ Spend("nolife") \/ Spend("nokey")
      BY <1>3, <2>1 DEF PushStep, ListEnabled, LoadConnections, Refresh, Denied, RefreshFails,
         UpdateRow, SaveRenewed
    <3> QED BY <3>1, <3>2
  <2>2. ASSUME NEW e \in Editors, EditStep(e)
        PROVE  (UNCHANGED budget \/ Spend("edit")) /\ UNCHANGED overwrote
    BY <1>3, <2>2 DEF EditStep, ReadRow, Toggle, Rewrite, Delete, WriteRow, Create
  <2>3. ASSUME NEW v \in Connectors, ConnectStep(v)
        PROVE  /\ UNCHANGED budget \/ Begun \/ Spend("nolife")
               /\ UNCHANGED overwrote \/ SaveConnections(v, Me(v).list)
    <3>1. CASE SaveConnected(v)
      BY <1>3, <3>1 DEF SaveConnected
    <3>2. CASE GetDestination(v) \/ EnsureDestination(v)
      BY <1>3, <3>2 DEF GetDestination, EnsureDestination
    <3>3. CASE \E s \in Servers, life \in {"fresh", "none"}, token \in {"cur", "none"} :
                  Introduce(v, s, life, token)
      BY <1>3, <3>3 DEF Introduce
    <3>4. CASE \E S \in SUBSET Servers : Approve(v, S)
      BY <1>3, <3>4 DEF Approve
    <3>5. CASE \/ ConnectStart(v) \/ Poll(v) \/ Register(v) \/ SaveApp(v) \/ SaveSecret(v)
              \/ GiveUp(v)
      BY <1>3, <3>5 DEF ConnectStart, Poll, Register, SaveApp, SaveSecret, GiveUp, Begun,
         BegunAmiss
    <3>6. \A s \in Servers : ~IntroduceFails(v, s)
      BY <1>3 DEF IntroduceFails
    <3> QED BY <2>3, <3>1, <3>2, <3>3, <3>4, <3>5, <3>6 DEF ConnectStep
  <2>4. ASSUME NEW s \in Servers, Elapse(s) \/ Lapse(s) \/ EndGrace(s) \/ Revoke(s)
        PROVE  (UNCHANGED budget \/ Spend("revoke")) /\ UNCHANGED overwrote
    BY <2>4 DEF Elapse, Lapse, EndGrace, Revoke
  <2>5. ~Crash
    BY <1>3 DEF Crash
  <2>6. {"nolife", "nokey", "edit", "revoke"} \subseteq Events \ {"any"}
    BY DEF Events
  <2> QED BY <2>1, <2>2, <2>3, <2>4, <2>5, <2>6 DEF Next, Actors
<1>5. \A j \in Events : budget'[j] <= budget[j]
  BY <1>1, <1>4, Spending
<1>6. ~overwrote
  BY <1>1, <1>2, <1>4 DEF SaveConnections, Types
<1>7. \A k \in {"db", "net", "crash", "notoken"} : Spared(k)
  <2> SUFFICES ASSUME NEW k \in {"db", "net", "crash", "notoken"} PROVE Spared(k)
    OBVIOUS
  <2>1. k \in Events /\ budget'[k] = Budget[k]
    BY <1>1, <1>2 DEF Spared
  <2>2. budget'[k] <= budget[k] /\ budget[k] <= Budget[k] /\ budget[k] \in Nat /\ Budget[k] \in Nat
    BY <1>1, <1>5, <2>1, HearthShelfAssumption DEF Types
  <2> QED BY <2>1, <2>2 DEF Spared
<1> QED BY <1>2, <1>3, <1>6, <1>7 DEF Undisturbed, Calm

(* Every step keeps where the newest tokens are.                           *)
LEMMA NextTokens ==
    ASSUME HearthShelfInv, TokensInv, OneFlow, [Next]_vars
    PROVE  TokensInv'
<1>1. CASE UNCHANGED vars
  <2>1. TokensInv' <=> TokensInv
    BY <1>1 DEF vars, serverVars, TokensInv, Undisturbed, Spared, TokensTrue, FlowsTrue,
       PushesTrue, UpToDate, Kept, FlowHas, Newer, PushHas, Spent, HasRow, InHand, Holds, Me,
       HoldsAt, Live
  <2> QED BY <2>1
<1>2. CASE Next
  <2> SUFFICES ASSUME Undisturbed' PROVE TokensTrue'
    BY DEF TokensInv
  <2>1. /\ Undisturbed /\ Calm /\ ~overwrote'
        /\ ~Spend("db") /\ ~Spend("net") /\ ~Spend("crash") /\ ~Spend("notoken")
    BY <1>2, SmoothStep
  <2>2. TokensTrue /\ HearthShelfInv'
    BY <1>2, <2>1, NextKeeps DEF TokensInv
  <2>3. ASSUME NEW v \in Pushes, PushStep(v) PROVE TokensTrue'
    <3>1. CASE ListEnabled(v)
      BY <2>2, <3>1, PushOutsideTokens
    <3>2. CASE LoadConnections(v)
      BY <2>2, <3>2, LoadTokens
    <3>3. CASE \E life \in {"fresh", "none"}, key \in {"good", "none"} : Refresh(v, life, key)
      BY <2>2, <3>3, RefreshTokens
    <3>4. CASE Denied(v)
      BY <2>2, <3>4, DeniedTokens
    <3>5. ~RefreshFails(v)
      BY <2>1 DEF RefreshFails
    <3>6. CASE UpdateRow(v)
      BY <2>1, <2>2, <3>6, UpdateRowTokens
    <3>7. CASE SaveRenewed(v)
      BY <2>1, <2>2, <3>7, SavesTokens
    <3> QED BY <2>3, <3>1, <3>2, <3>3, <3>4, <3>5, <3>6, <3>7 DEF PushStep
  <2>4. ASSUME NEW e \in Editors, EditStep(e) PROVE TokensTrue'
    BY <2>2, <2>4, EditTokens
  <2>5. ASSUME NEW v \in Connectors, ConnectStep(v) PROVE TokensTrue'
    <3>1. CASE \/ ConnectStart(v) \/ Poll(v) \/ Register(v) \/ SaveApp(v) \/ SaveSecret(v)
              \/ GiveUp(v)
      BY <2>2, <3>1, BeginTokens
    <3>2. CASE \E S \in SUBSET Servers \ {{}} : Approve(v, S)
      BY <2>1, <2>2, <3>2, ApproveTokens
    <3>3. CASE \E s \in Servers, life \in {"fresh", "none"}, token \in {"cur", "none"} :
                  Introduce(v, s, life, token)
      BY <2>1, <2>2, <3>3, IntroduceTokens
    <3>4. \A s \in Servers : ~IntroduceFails(v, s)
      BY <2>1 DEF IntroduceFails
    <3>5. CASE GetDestination(v)
      BY <2>1, <2>2, <3>5, GetDestinationTokens
    <3>6. CASE EnsureDestination(v)
      BY <2>1, <2>2, <3>6, EnsureDestinationTokens
    <3>7. CASE SaveConnected(v)
      BY <2>1, <2>2, <3>7, SavesTokens
    <3> QED BY <2>5, <3>1, <3>2, <3>3, <3>4, <3>5, <3>6, <3>7 DEF ConnectStep
  <2>6. ASSUME NEW s \in Servers, Elapse(s) \/ Lapse(s) \/ EndGrace(s) \/ Revoke(s)
        PROVE  TokensTrue'
    BY <2>2, <2>6, TimeTokens, EndGraceTokens
  <2>7. ~Crash
    BY <2>1 DEF Crash
  <2> QED BY <1>2, <2>3, <2>4, <2>5, <2>6, <2>7 DEF Next
<1> QED BY <1>1, <1>2

(* The newest refresh token of a server that has not revoked the install   *)
(* is never left with the server alone, with any number of servers, rows,  *)
(* pushes and requests beside one connect flow at a time.                  *)
THEOREM NewestKept == OneFlow /\ Spec => []NewestTokenKept
<1> SUFFICES ASSUME OneFlow PROVE Spec => []NewestTokenKept
  OBVIOUS
<1>1. Init => TokensInv
  <2> SUFFICES ASSUME Init PROVE TokensTrue
    BY DEF TokensInv
  <2>1. /\ \A v \in Actors : ~HoldsAt(pc[v])
        /\ Pushes \subseteq Actors /\ Connectors \subseteq Actors
    BY DEF Init, HoldsAt, Actors
  <2>2. FlowsTrue /\ PushesTrue /\ UpToDate
    BY <2>1 DEF FlowsTrue, PushesTrue, UpToDate
  <2>3. \A s \in Servers : conns[s].token = "cur" \/ conns[s].dest = NoRow
    <3>1. PICK linked : conns = [s \in Servers |->
                          IF s \notin linked THEN NoConn
                          ELSE [dest |-> RowOf[s], token |-> "cur",
                                life |-> "fresh", needs |-> FALSE]]
      BY DEF Init
    <3> QED BY <3>1 DEF NoConn
  <2>4. Kept
    BY <2>3 DEF Kept, HasRow
  <2> QED BY <2>2, <2>4 DEF TokensTrue
<1>2. TokensInv /\ HearthShelfInv /\ [Next]_vars => TokensInv'
  BY NextTokens
<1>3. TokensInv => NewestTokenKept
  BY DEF TokensInv, TokensTrue, Kept, NewestTokenKept
<1>4. Spec => []TokensInv
  BY <1>1, <1>2, HearthShelfInvariant, PTL DEF Spec
<1> QED BY <1>3, <1>4, PTL
=============================================================================
