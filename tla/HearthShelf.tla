---------------------------- MODULE HearthShelf ----------------------------
(***************************************************************************)
(* The destination rows, and the connections to HearthShelf servers that   *)
(* keep some of them working: a user connects servers through a device     *)
(* code, every push renews the credentials that are due before it uses the *)
(* rows, and users edit rows meanwhile.                                    *)
(*                                                                         *)
(* Source: internal/hearthshelf/, renewHearthShelf and ListEnabled of      *)
(* internal/library/destinations.go, internal/web/hearthshelf_handlers.go, *)
(* destinations_handlers.go, and the statements of                         *)
(* library_destinations_sqlite.go.                                         *)
(*                                                                         *)
(* All connections are one settings value, read and written whole, and a   *)
(* row is updated whole: both are copied, changed and written back.        *)
(*                                                                         *)
(* A refresh token is "cur", the newest of its server, "prev", the one     *)
(* before, which the server accepts in a grace window, or "dead"; when a   *)
(* server rotates, every copy of its tokens ages by one.  An ABS key is    *)
(* "good" until it lapses.  What a connection knows of the lifetime is     *)
(* "fresh", "due" (within renewSkew of the end, or past it) or "none".     *)
(***************************************************************************)
EXTENDS Integers, FiniteSets

CONSTANTS
    Servers,      \* HearthShelf servers
    RowIds,       \* ids of destination rows, numbered: bound on rows ever made
    Pushes,       \* callers of ListEnabled: fan-outs, scans and reconciles
    Editors,      \* requests that change a row
    Connectors,   \* connect flows
    Linked,       \* servers connected at the start, unless none is
    Budget        \* bound: how often each event may happen; "any": in all,
                  \* connecting not counted

NoRow  == 0
Actors == Pushes \cup Editors \cup Connectors
Events == {"net", "db", "crash", "edit", "connect", "revoke", "nokey",
           "nolife", "notoken", "any"}

ASSUME HearthShelfAssumption ==
    /\ RowIds \subseteq Nat \ {NoRow} /\ IsFiniteSet(RowIds)
    /\ IsFiniteSet(Servers) /\ Linked \subseteq Servers
    /\ "none" \notin Servers /\ "user" \notin Servers
    /\ Pushes \cap Editors = {} /\ Pushes \cap Connectors = {}
    /\ Editors \cap Connectors = {}
    /\ Cardinality(Linked) <= Cardinality(RowIds)
    /\ Budget \in [Events -> Nat]

VARIABLES
    \* the servers
    revoked,    \* servers that have cut this install off
    age,        \* how old the newest credentials of a server are
    apps,       \* how many registrations of this install there were
    \* the database
    rows,       \* library_destinations
    conns,      \* hs_connections
    identity,   \* hs_app_id and hs_app_secret: the registration each is of
    \* the program
    pc, loc,
    \* history and bounds
    stale,      \* actors whose copy of the connections is not the newest
    overwrote,  \* whether a stale copy of the connections was written
    budget

serverVars == <<revoked, age, apps>>
vars == <<serverVars, rows, conns, identity, pc, loc, stale, overwrote, budget>>

Absent == [there |-> FALSE, enabled |-> FALSE, key |-> "none", by |-> "none"]
NoConn == [dest |-> NoRow, token |-> "none", life |-> "none", needs |-> FALSE]
NoList == [s \in Servers |-> NoConn]

(* An actor's locals: the rows it read and has still to look at, the row   *)
(* and the server it is at, its copy of the connections, the servers that  *)
(* were approved, the connection it makes, the key and the registration it *)
(* was given.                                                              *)
Idle == [seen |-> [r \in RowIds |-> Absent], todo |-> {}, row |-> NoRow,
         server |-> "none", list |-> NoList, intros |-> {}, new |-> NoConn,
         key |-> "none", reg |-> 0]

-----------------------------------------------------------------------------
(* Helpers *)

Spend(k) ==
    /\ budget[k] > 0 /\ budget["any"] > 0
    /\ budget' = [budget EXCEPT ![k] = @ - 1, !["any"] = @ - 1]
Me(v) == loc[v]
Goto(v, l) == pc' = [pc EXCEPT ![v] = l]
Set(v, l)  == loc' = [loc EXCEPT ![v] = l]
Least(S) == CHOOSE r \in S : \A q \in S : r <= q
Holds(v) == pc[v] \in {"call", "row", "save", "intro", "get", "ensure"}
Stop(v)  == Goto(v, "idle") /\ Set(v, Idle)

(* What happens to a server's credentials shows in every copy of them.     *)
Older(c)  == [c EXCEPT !.token = IF @ = "cur" THEN "prev"
                                 ELSE IF @ = "prev" THEN "dead" ELSE @]
Killed(c) == [c EXCEPT !.token = IF @ = "none" THEN @ ELSE "dead"]
Ended(c)  == [c EXCEPT !.token = IF @ = "prev" THEN "dead" ELSE @]
Overdue(c) == [c EXCEPT !.life = IF @ = "fresh" THEN "due" ELSE @]

InCopies(Op(_), s) ==
    [v \in Actors |-> [loc[v] EXCEPT !.list[s] = Op(@),
                                     !.new = IF loc[v].server = s THEN Op(@) ELSE @]]
Bad(k) == IF k = "good" THEN "bad" ELSE k
Spoilt(d, s) == IF d.by = s THEN [d EXCEPT !.key = Bad(@)] ELSE d

(* SaveConnections writes the whole list; a copy that was read before      *)
(* another write undoes it.                                                *)
SaveConnections(v, list) ==
    /\ conns' = list
    /\ overwrote' = (overwrote \/ v \in stale)
    /\ stale' = {w \in Actors \ {v} : Holds(w)}
NotSaved(v) == stale' = stale \ {v} /\ UNCHANGED <<conns, overwrote>>

-----------------------------------------------------------------------------
(* A push: ListEnabled, and renewHearthShelf of each row *)

(* ListEnabledLibraryDestinations: the rows as they are now, if any.  The  *)
(* keys are not kept here: nothing that is written comes from them.        *)
ListEnabled(v) ==
    /\ v \in Pushes /\ pc[v] = "idle"
    /\ LET on == {r \in RowIds : rows[r].there /\ rows[r].enabled}
       IN  IF on = {} THEN UNCHANGED <<pc, loc>>
           ELSE /\ Set(v, [Me(v) EXCEPT !.todo = on, !.seen = [r \in RowIds |->
                        IF r \in on THEN [rows[r] EXCEPT !.key = "none"] ELSE Absent]])
                /\ Goto(v, "load")
    /\ UNCHANGED <<serverVars, rows, conns, identity, stale, overwrote, budget>>

(* The row is done with, renewed or not; the push uses the key it has.     *)
Left(v)   == Me(v).todo \ {Least(Me(v).todo)}
After(v)  == IF Left(v) = {} THEN Idle
             ELSE [Idle EXCEPT !.todo = Left(v),
                     !.seen = [r \in RowIds |-> IF r \in Left(v) THEN Me(v).seen[r]
                                                ELSE Absent]]
NextRow(v) ==
    /\ Goto(v, IF Left(v) = {} THEN "idle" ELSE "load")
    /\ Set(v, After(v))

NeedsRenewal(c) == ~c.needs /\ c.life = "due"

(* RenewDestination up to the call: the connection of the row, if there is *)
(* one with a token that is at or near expiry.                             *)
LoadConnections(v) ==
    /\ pc[v] = "load"
    /\ LET r   == Least(Me(v).todo)
           due == {s \in Servers : /\ conns[s].dest = r /\ conns[s].token # "none"
                                   /\ NeedsRenewal(conns[s])}
       IN  \/ \E s \in due :
                 /\ Set(v, [Me(v) EXCEPT !.row = r, !.server = s, !.list = conns])
                 /\ Goto(v, "call")
                 /\ UNCHANGED budget
           \/ due = {} /\ NextRow(v) /\ UNCHANGED budget
           \/ due # {} /\ NextRow(v) /\ Spend("db")
    /\ UNCHANGED <<serverVars, rows, conns, identity, stale, overwrote>>

(* What the connection becomes: an answer without a token keeps the one    *)
(* there is.                                                               *)
Renewed(c, life) == [c EXCEPT !.life = life, !.needs = FALSE]

(* Refresh.  The server rotates the newest token, answers a retry with the *)
(* one before without rotating, and says 401 to any other.                 *)
Accepts(s, c) == s \notin revoked /\ c.token \in {"cur", "prev"}
Rotates(s, c) ==
    /\ Accepts(s, c)
    /\ age' = [age EXCEPT ![s] = "fresh"]
    /\ conns' = [conns EXCEPT ![s] = IF c.token = "cur" THEN Older(@) ELSE @]
Rotated(s, c) == IF c.token = "cur" THEN InCopies(Older, s) ELSE loc

(* The answer states a lifetime or none, and has an ABS key or none.       *)
MutRefresh(v, life, key) ==
    /\ pc[v] = "call" /\ life = "fresh" /\ key = "good"
    /\ LET s == Me(v).server
       IN  /\ Rotates(s, Me(v).list[s])
           /\ loc' = [Rotated(s, Me(v).list[s]) EXCEPT
                        ![v] = [@ EXCEPT !.key = key,
                                  !.list[s] = Older(Renewed(Me(v).list[s], life))]]
    /\ Goto(v, "row")
    /\ UNCHANGED <<revoked, apps, rows, identity, stale, overwrote, budget>>
Refresh(v, life, key) ==
    /\ pc[v] = "call"
    /\ \/ life = "none" /\ key = "good" /\ Spend("nolife")
       \/ life = "fresh" /\ key = "none" /\ Spend("nokey")
       \/ life = "fresh" /\ key = "good" /\ UNCHANGED budget
    /\ LET s == Me(v).server
           c == Me(v).list[s]
       IN  /\ Rotates(s, c)
           /\ loc' = [Rotated(s, c) EXCEPT ![v] =
                        [Me(v) EXCEPT !.list[s] = Renewed(c, life), !.key = key]]
    /\ Goto(v, IF key = "good" THEN "row" ELSE "save")
    /\ UNCHANGED <<revoked, apps, rows, identity, stale, overwrote>>

(* A 401 is remembered, so that no later push asks again.                  *)
Denied(v) ==
    /\ pc[v] = "call" /\ ~Accepts(Me(v).server, Me(v).list[Me(v).server])
    /\ Set(v, [Me(v) EXCEPT !.list[Me(v).server].needs = TRUE])
    /\ Goto(v, "save")
    /\ UNCHANGED <<serverVars, rows, conns, identity, stale, overwrote, budget>>

(* The call fails otherwise: the server was not reached, or its answer is  *)
(* lost.                                                                   *)
RefreshFails(v) ==
    /\ pc[v] = "call" /\ Spend("net")
    /\ LET s == Me(v).server
           c == Me(v).list[s]
       IN  \/ NextRow(v) /\ UNCHANGED <<age, conns>>
           \/ /\ Rotates(s, c)
              /\ loc' = [Rotated(s, c) EXCEPT ![v] = After(v)]
              /\ Goto(v, IF Left(v) = {} THEN "idle" ELSE "load")
    /\ stale' = stale \ {v}
    /\ UNCHANGED <<revoked, apps, rows, identity, overwrote>>

(* UpdateLibraryDestination with the row as ListEnabled read it.  If that  *)
(* fails, or the row is gone, the connections are not saved either.        *)
MutUpdateRow(v) ==
    /\ pc[v] = "row" /\ Goto(v, "save")
    /\ UNCHANGED <<serverVars, rows, conns, identity, loc, stale, overwrote, budget>>
UpdateRow(v) ==
    /\ pc[v] = "row"
    /\ LET r == Me(v).row
       IN  \/ /\ rows[r].there
              /\ rows' = [rows EXCEPT ![r] = [Me(v).seen[r] EXCEPT !.key = Me(v).key]]
              /\ Goto(v, "save")
              /\ UNCHANGED <<loc, stale, budget>>
           \/ /\ IF rows[r].there THEN Spend("db") ELSE UNCHANGED budget
              /\ NextRow(v) /\ stale' = stale \ {v}
              /\ UNCHANGED rows
    /\ UNCHANGED <<serverVars, conns, identity, overwrote>>

SaveRenewed(v) ==
    /\ pc[v] = "save" /\ v \in Pushes
    /\ \/ SaveConnections(v, Me(v).list) /\ UNCHANGED budget
       \/ NotSaved(v) /\ Spend("db")
    /\ NextRow(v)
    /\ UNCHANGED <<serverVars, rows, identity>>

-----------------------------------------------------------------------------
(* Requests that change a row: the row is read, then written back whole *)

ReadRow(e, r) ==
    /\ e \in Editors /\ pc[e] = "idle" /\ rows[r].there
    /\ Spend("edit")
    /\ Set(e, [Me(e) EXCEPT !.row = r, !.seen[r] = rows[r]])
    /\ pc' \in {[pc EXCEPT ![e] = l] : l \in {"toggle", "rewrite", "delete"}}
    /\ UNCHANGED <<serverVars, rows, conns, identity, stale, overwrote>>

WriteRow(e, to) ==
    /\ \/ rows[Me(e).row].there /\ rows' = [rows EXCEPT ![Me(e).row] = to]
             /\ UNCHANGED budget
       \/ ~rows[Me(e).row].there /\ UNCHANGED <<rows, budget>>
       \/ Spend("db") /\ UNCHANGED rows
    /\ Stop(e)
    /\ UNCHANGED <<serverVars, conns, identity, stale, overwrote>>

(* handleDestinationToggle; handleDestinationUpdate with its secrets left  *)
(* blank, and recordDestinationHealth, which change nothing modelled;      *)
(* handleDestinationDelete, which leaves the connection.                   *)
Mine(e)   == Me(e).seen[Me(e).row]
Toggle(e) == pc[e] = "toggle" /\ WriteRow(e, [Mine(e) EXCEPT !.enabled = ~@])
Rewrite(e) == pc[e] = "rewrite" /\ WriteRow(e, Mine(e))
Delete(e) == pc[e] = "delete" /\ WriteRow(e, [Absent EXCEPT !.by = Mine(e).by])

(* handleDestinationsCreate: an Audiobookshelf row of the user's own.      *)
Free == {r \in RowIds : rows[r] = Absent}
Create(e) ==
    /\ e \in Editors /\ pc[e] = "idle" /\ Free # {}
    /\ Spend("edit")
    /\ rows' = [rows EXCEPT ![Least(Free)] =
                  [there |-> TRUE, enabled |-> TRUE, key |-> "good", by |-> "user"]]
    /\ UNCHANGED <<serverVars, conns, identity, pc, loc, stale, overwrote>>

-----------------------------------------------------------------------------
(* A connect flow *)

(* hsIdentity: the registration of this install, stored in two settings    *)
(* and made where they are not both there, or where one cannot be read:    *)
(* LoadIdentity takes a failing read for a missing value.                  *)
NoIdentity == [app |-> 0, secret |-> 0]
MutKnown == identity.app # 0
Known    == identity.app # 0 /\ identity.secret # 0

ConnectStart(v) ==
    /\ v \in Connectors /\ pc[v] = "idle" /\ budget["connect"] > 0
    /\ \/ /\ Goto(v, IF Known THEN "wait" ELSE "register")
          /\ budget' = [budget EXCEPT !["connect"] = @ - 1]
       \/ /\ Known /\ Goto(v, "register")
          /\ budget["db"] > 0 /\ budget["any"] > 0
          /\ budget' = [budget EXCEPT !["connect"] = @ - 1, !["db"] = @ - 1,
                                      !["any"] = @ - 1]
    /\ UNCHANGED <<serverVars, rows, conns, identity, loc, stale, overwrote>>

(* Each poll reads the identity again; it changes nothing if it can.       *)
Poll(v) ==
    /\ pc[v] = "wait" /\ Spend("db")
    /\ Goto(v, "register")
    /\ UNCHANGED <<serverVars, rows, conns, identity, loc, stale, overwrote>>

Register(v) ==
    /\ pc[v] = "register"
    /\ apps' = apps + 1
    /\ Set(v, [Me(v) EXCEPT !.reg = apps'])
    /\ Goto(v, "saveapp")
    /\ UNCHANGED <<revoked, age, rows, conns, identity, stale, overwrote, budget>>
SaveApp(v) ==
    /\ pc[v] = "saveapp"
    /\ identity' = [identity EXCEPT !.app = Me(v).reg]
    /\ Goto(v, "savesecret")
    /\ UNCHANGED <<serverVars, rows, conns, loc, stale, overwrote, budget>>
SaveSecret(v) ==
    /\ pc[v] = "savesecret"
    /\ identity' = [identity EXCEPT !.secret = Me(v).reg]
    /\ Goto(v, "wait") /\ Set(v, [Me(v) EXCEPT !.reg = 0])
    /\ UNCHANGED <<serverVars, rows, conns, stale, overwrote, budget>>

(* The flow ends without a connection: declined, expired, abandoned, or a  *)
(* statement or a call of it failed.                                       *)
GiveUp(v) ==
    /\ pc[v] \in {"register", "saveapp", "savesecret", "wait"}
    /\ Stop(v)
    /\ UNCHANGED <<serverVars, rows, conns, identity, stale, overwrote, budget>>

(* PollDeviceFlow: the user has approved some servers; the connections are *)
(* loaded once for all of them.  LoadConnections takes a failing read for  *)
(* an empty list, which the flow then adds to and writes.                  *)
Approve(v, S) ==
    /\ pc[v] = "wait"
    /\ \/ Set(v, [Me(v) EXCEPT !.list = conns, !.intros = S]) /\ UNCHANGED budget
       \/ Set(v, [Me(v) EXCEPT !.list = NoList, !.intros = S]) /\ Spend("db")
    /\ Goto(v, "intro")
    /\ UNCHANGED <<serverVars, rows, conns, identity, stale, overwrote>>

(* A server is done with; after the last one the list is saved.            *)
NextIntro(v, list) ==
    LET left == Me(v).intros \ {Me(v).server}
    IN  /\ Goto(v, IF left = {} THEN "save" ELSE "intro")
        /\ Set(v, [Idle EXCEPT !.list = list, !.intros = left])

(* Introduce: the server issues new credentials, with a lifetime and a     *)
(* refresh token or without; the destination of an earlier connection to   *)
(* it is carried over.                                                     *)
Introduce(v, s, life, token) ==
    /\ pc[v] = "intro" /\ s \in Me(v).intros
    /\ \/ token = "none" /\ Spend("notoken")
       \/ token = "cur" /\ life = "none" /\ Spend("nolife")
       \/ token = "cur" /\ life = "fresh" /\ UNCHANGED budget
    /\ conns' = [conns EXCEPT ![s] = Killed(@)]
    /\ loc' = [InCopies(Killed, s) EXCEPT
                 ![v] = [@ EXCEPT !.server = s,
                           !.new = [dest |-> Me(v).list[s].dest, token |-> token,
                                    life |-> life, needs |-> FALSE]]]
    /\ revoked' = revoked \ {s} /\ age' = [age EXCEPT ![s] = "fresh"]
    /\ Goto(v, "get")
    /\ UNCHANGED <<apps, rows, identity, stale, overwrote>>
IntroduceFails(v, s) ==
    /\ pc[v] = "intro" /\ s \in Me(v).intros
    /\ Spend("net")
    /\ LET left == Me(v).intros \ {s}
       IN  Set(v, [Me(v) EXCEPT !.intros = left]) /\ Goto(v, IF left = {} THEN "save" ELSE "intro")
    /\ UNCHANGED <<serverVars, rows, conns, identity, stale, overwrote>>

(* The libraries are listed and EnsureDestination reads the row; no key,   *)
(* no library or no answer leaves the server out.                          *)
GetDestination(v) ==
    /\ pc[v] = "get"
    /\ \/ \E r \in {Me(v).new.dest} \cap {q \in RowIds : rows[q].there} :
             /\ Set(v, [Me(v) EXCEPT !.row = r, !.seen[r] = rows[r]])
             /\ Goto(v, "ensure")
             /\ UNCHANGED budget
       \/ /\ IF Me(v).new.dest \in {q \in RowIds : rows[q].there} THEN Spend("db")
             ELSE UNCHANGED budget
          /\ Goto(v, "ensure") /\ UNCHANGED loc
       \/ Spend("net") /\ NextIntro(v, Me(v).list)
    /\ UNCHANGED <<serverVars, rows, conns, identity, stale, overwrote>>

(* EnsureDestination writes: the row that was found is updated and         *)
(* enabled; otherwise a row is made and its id kept.  UpsertConnection.    *)
MutEnsureDestination(v) ==
    /\ pc[v] = "ensure"
    /\ LET s == Me(v).server
           r == IF Me(v).row # NoRow THEN Me(v).row ELSE Least(Free)
           to == [there |-> TRUE, enabled |-> TRUE, key |-> "good", by |-> s]
       IN  /\ rows' = [rows EXCEPT ![r] = to]
           /\ NextIntro(v, [Me(v).list EXCEPT ![s] = Me(v).new])
    /\ UNCHANGED <<serverVars, conns, identity, stale, overwrote, budget>>
EnsureDestination(v) ==
    /\ pc[v] = "ensure" /\ (Me(v).row = NoRow => Free # {})
    /\ LET s == Me(v).server
           r == IF Me(v).row # NoRow THEN Me(v).row ELSE Least(Free)
           to == [there |-> TRUE, enabled |-> TRUE, key |-> "good", by |-> s]
       IN  \/ /\ Me(v).row # NoRow => rows[r].there
              /\ rows' = [rows EXCEPT ![r] = to]
              /\ NextIntro(v, [Me(v).list EXCEPT ![s] = [Me(v).new EXCEPT !.dest = r]])
              /\ UNCHANGED budget
           \/ /\ IF Me(v).row # NoRow /\ ~rows[r].there THEN UNCHANGED budget
                 ELSE Spend("db")
              /\ NextIntro(v, Me(v).list)
              /\ UNCHANGED rows
    /\ UNCHANGED <<serverVars, conns, identity, stale, overwrote>>

SaveConnected(v) ==
    /\ pc[v] = "save" /\ v \in Connectors
    /\ \/ SaveConnections(v, Me(v).list) /\ UNCHANGED budget
       \/ NotSaved(v) /\ Spend("db")
    /\ Stop(v)
    /\ UNCHANGED <<serverVars, rows, identity>>

-----------------------------------------------------------------------------
(* The servers, time, and a restart *)

(* The newest credentials come near their end,                             *)
Elapse(s) ==
    /\ age[s] = "fresh"
    /\ age' = [age EXCEPT ![s] = "due"]
    /\ conns' = [conns EXCEPT ![s] = Overdue(@)]
    /\ loc' = InCopies(Overdue, s)
    /\ UNCHANGED <<revoked, apps, rows, identity, pc, stale, overwrote, budget>>

(* and the keys are not accepted any more; a lifetime does not pass while  *)
(* one answer is being written.                                            *)
Lapse(s) ==
    /\ age[s] = "due"
    /\ \A v \in Actors : loc[v].server = s => pc[v] \notin {"row", "get", "ensure"}
    /\ age' = [age EXCEPT ![s] = "lapsed"]
    /\ rows' = [r \in RowIds |-> Spoilt(rows[r], s)]
    /\ loc' = [v \in Actors |->
                 [loc[v] EXCEPT
                    !.key = IF loc[v].server = s THEN Bad(@) ELSE @,
                    !.seen = [r \in RowIds |-> Spoilt(@[r], s)]]]
    /\ UNCHANGED <<revoked, apps, conns, identity, pc, stale, overwrote, budget>>

EndGrace(s) ==
    /\ conns' = [conns EXCEPT ![s] = Ended(@)]
    /\ loc' = InCopies(Ended, s)
    /\ <<conns, loc>>' # <<conns, loc>>
    /\ UNCHANGED <<serverVars, rows, identity, pc, stale, overwrote, budget>>

Revoke(s) ==
    /\ s \notin revoked /\ Spend("revoke")
    /\ revoked' = revoked \cup {s}
    /\ UNCHANGED <<age, apps, rows, conns, identity, pc, loc, stale, overwrote>>

Crash ==
    /\ Spend("crash")
    /\ pc' = [v \in Actors |-> "idle"] /\ loc' = [v \in Actors |-> Idle]
    /\ stale' = {}
    /\ UNCHANGED <<serverVars, rows, conns, identity, overwrote>>

-----------------------------------------------------------------------------
RowOf == CHOOSE f \in [Linked -> RowIds] :
            \A x, y \in Linked : x # y => f[x] # f[y]
Made(linked, r) == {s \in linked : RowOf[s] = r}

(* A new install, one that stopped while it registered, or one whose       *)
(* servers were connected before.                                          *)
Init ==
    /\ \E linked \in {{}, Linked} :
          /\ rows = [r \in RowIds |->
                       IF Made(linked, r) = {} THEN Absent
                       ELSE [there |-> TRUE, enabled |-> TRUE, key |-> "good",
                             by |-> CHOOSE s \in Made(linked, r) : TRUE]]
          /\ conns = [s \in Servers |->
                        IF s \notin linked THEN NoConn
                        ELSE [dest |-> RowOf[s], token |-> "cur",
                              life |-> "fresh", needs |-> FALSE]]
          /\ identity \in IF linked = {} THEN {NoIdentity, [app |-> 1, secret |-> 0]}
                          ELSE {[app |-> 1, secret |-> 1]}
    /\ revoked = {} /\ age = [s \in Servers |-> "fresh"] /\ apps = identity.app
    /\ pc = [v \in Actors |-> "idle"] /\ loc = [v \in Actors |-> Idle]
    /\ stale = {} /\ overwrote = FALSE /\ budget = Budget

PushStep(v) ==
    \/ ListEnabled(v) \/ LoadConnections(v)
    \/ \E life \in {"fresh", "none"}, key \in {"good", "none"} : Refresh(v, life, key)
    \/ Denied(v) \/ RefreshFails(v) \/ UpdateRow(v) \/ SaveRenewed(v)

EditStep(e) ==
    \/ \E r \in RowIds : ReadRow(e, r)
    \/ Toggle(e) \/ Rewrite(e) \/ Delete(e) \/ Create(e)

ConnectStep(v) ==
    \/ ConnectStart(v) \/ Poll(v) \/ Register(v) \/ SaveApp(v) \/ SaveSecret(v)
    \/ GiveUp(v)
    \/ \E S \in SUBSET Servers \ {{}} : Approve(v, S)
    \/ \E s \in Servers :
          \/ \E life \in {"fresh", "none"}, token \in {"cur", "none"} :
                Introduce(v, s, life, token)
          \/ IntroduceFails(v, s)
    \/ GetDestination(v) \/ EnsureDestination(v) \/ SaveConnected(v)

Next ==
    \/ \E v \in Pushes : PushStep(v)
    \/ \E e \in Editors : EditStep(e)
    \/ \E v \in Connectors : ConnectStep(v)
    \/ \E s \in Servers : Elapse(s) \/ Lapse(s) \/ EndGrace(s) \/ Revoke(s)
    \/ Crash

Spec == Init /\ [][Next]_vars

(* Books go on being organized and syncs are scheduled, so pushes recur;   *)
(* and time passes.                                                        *)
FairSpec ==
    /\ Spec
    /\ \A v \in Pushes : WF_vars(PushStep(v))
    /\ \A s \in Servers : WF_vars(Elapse(s))

-----------------------------------------------------------------------------
(* Properties *)

Tokens == {"none", "cur", "prev", "dead"}
Lives  == {"none", "fresh", "due"}
Keys   == {"none", "good", "bad"}
ConnType == [dest : RowIds \cup {NoRow}, token : Tokens, life : Lives, needs : BOOLEAN]
RowType  == [there : BOOLEAN, enabled : BOOLEAN, key : Keys,
             by : Servers \cup {"none", "user"}]

HearthShelfTypeOK ==
    /\ revoked \subseteq Servers /\ age \in [Servers -> {"fresh", "due", "lapsed"}]
    /\ rows \in [RowIds -> RowType]
    /\ conns \in [Servers -> ConnType]
    /\ \A s \in Servers : conns[s] # NoConn => conns[s].dest \in RowIds
    /\ identity \in [app : Nat, secret : Nat]
    /\ \A v \in Actors :
          /\ Me(v).list \in [Servers -> ConnType] /\ Me(v).new \in ConnType
          /\ Me(v).seen \in [RowIds -> RowType] /\ Me(v).key \in Keys
          /\ Me(v).todo \subseteq RowIds /\ Me(v).row \in RowIds \cup {NoRow}
    /\ stale \subseteq {v \in Actors : Holds(v)}

Spared(k) == budget[k] = Budget[k]
Undisturbed == ~overwrote /\ Spared("db") /\ Spared("crash") /\ Spared("net")
               /\ Spared("notoken")
HasRow(s)   == conns[s].dest # NoRow /\ rows[conns[s].dest].there
InHand(s)   == \E v \in Actors : Holds(v) /\
                  \/ Me(v).list[s].token = "cur"
                  \/ Me(v).server = s /\ Me(v).new.token = "cur"

(* The newest refresh token of a server that has not revoked us is never   *)
(* left with the server alone: it is stored, or a renewal or connect flow  *)
(* is about to store it, through rotations, grace windows, reconnects and  *)
(* edits of the row, as long as nothing failed, no two writers of the      *)
(* connections overlapped, and every server gave a token when it was       *)
(* connected (renew.go:82-130).                                            *)
NewestTokenKept ==
    Undisturbed =>
       \A s \in Servers \ revoked :
          HasRow(s) => conns[s].token = "cur" \/ InHand(s)

(* Every row that a connect flow made for a server belongs to the server's *)
(* connection or to that of a flow still under way: connecting again       *)
(* updates the row rather than leaving an orphan beside a new one          *)
(* (hearthshelf_handlers.go:176).                                          *)
NoOrphans ==
    (Spared("db") /\ Spared("crash") /\ ~overwrote) =>
       \A r \in RowIds :
          rows[r].there /\ rows[r].by \in Servers =>
             \/ conns[rows[r].by].dest = r
             \/ \E v \in Connectors : Me(v).list[rows[r].by].dest = r

(* A device flow is begun and polled only with an app id and a secret of   *)
(* the same registration, also on an install that stopped between the two  *)
(* writes (store.go:101): as long as no read failed, for one that does     *)
(* makes the flow register over a known identity (store.go:81), and a stop *)
(* between its two writes then leaves halves of two registrations.         *)
IdentityWhole ==
    Spared("db") =>
       \A v \in Connectors :
          pc[v] \in {"wait", "intro", "get", "ensure"} => identity.app = identity.secret

(* Together: what connecting leaves is whole.                              *)
ConnectsWhole == NoOrphans /\ IdentityWhole

AsksRevoked(s) == s \in revoked /\ \E v \in Pushes : loc[v].server = s /\ Denied(v)
Overwrites == \E v \in stale : pc[v] = "save" /\ pc'[v] # "save" /\ conns' = Me(v).list

(* A server that has revoked us is asked a few times more at most, not at  *)
(* every push: the push that gets its 401 records that for all later ones  *)
(* (client.go:90).  The record is lost where a writer with an older copy   *)
(* of the connections overlaps (renew.go:92): it is made again, and lasts  *)
(* unless older copies go on being written for ever.                       *)
StopsAsking ==
    \A s \in Servers : []<><<Overwrites>>_vars \/ <>[][~AsksRevoked(s)]_vars

(* The key of an enabled, connected destination whose server gave a token  *)
(* and states a lifetime is good again and again, or else the connection   *)
(* says that the user must reconnect.                                      *)
Renewable(s) ==
    /\ HasRow(s) /\ rows[conns[s].dest].enabled
    /\ conns[s].life # "none" /\ conns[s].token # "none"
KeyHeals ==
    \A s \in Servers :
       []<>(Renewable(s) /\ ~conns[s].needs => rows[conns[s].dest].key = "good")

(* Together: what recurring pushes come to.                                *)
RenewalsSettle == StopsAsking /\ KeyHeals
=============================================================================
