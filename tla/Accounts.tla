------------------------------ MODULE Accounts ------------------------------
(***************************************************************************)
(* The Audible accounts: their rows, the clients that the AccountManager   *)
(* keeps in memory, the field s.audible that older code still reads, the   *)
(* sign-ins that are pending, and the requests that work on them at once.  *)
(*                                                                         *)
(* Source: internal/library/accounts.go and firstboot_accounts.go,         *)
(* internal/web/accounts_handlers.go, the sign-in handlers of              *)
(* internal/web/server.go and the wizard of internal/web/setup_handlers.go.*)
(*                                                                         *)
(* A request is a list of steps, each one access of the database, of the   *)
(* memory or of Amazon; what runs between two of them belongs to others.   *)
(* A sign-in link stands for its PKCE verifier, its device serial and its  *)
(* device profile, and the credentials it leads to are called by its       *)
(* number.  Account ids are numbers, in the order that rows are listed in. *)
(* The marketplace that a client was built with, and the sealing of blobs  *)
(* that an older version left in plain text, are not modelled.             *)
(***************************************************************************)
EXTENDS Integers, FiniteSets, Sequences

CONSTANTS
    NumAccounts,  \* bound: how many accounts are ever created
    NumLinks,     \* bound: how many sign-in links are ever shown
    Markets,      \* the regions
    Requests,     \* the requests that can be in progress
    Budget        \* bound: how often each event may happen; "any": in all

Ids    == 1..NumAccounts
Legacy == NumLinks + 1     \* the credentials in credentials.json
Events == {"add", "remove", "region", "market", "setup", "start", "wizard",
           "callback", "fail", "restart", "any"}

ASSUME AccountsAssumption ==
    /\ NumAccounts \in Nat \ {0} /\ NumLinks \in Nat
    /\ Markets # {}
    /\ Budget \in [Events -> Nat]

VARIABLES
    \* the database and the disk
    rows,        \* audible_accounts: credentials and region of each row
    setting,     \* audible_marketplace
    file,        \* whether an older version left credentials.json
    \* the program
    clients,     \* AccountManager.clients, by account
    audible,     \* the client that s.audible points to
    pending,     \* pendingAuth.entries: the link of each account
    req,         \* the requests
    \* Amazon
    spent,       \* the links whose authorization code was exchanged
    \* history and bounds
    links,       \* the account that each link was made for
    added,       \* the accounts that a user asked to add
    removed,     \* the credentials of accounts that a user removed
    signed,      \* the last sign-in of each account that succeeded
    disturbed,   \* whether two requests overlapped or a step failed
    budget

vars == <<rows, setting, file, clients, audible, pending, req, spent, links, added,
          removed, signed, disturbed, budget>>

NoRow  == [creds |-> 0, market |-> "none"]
Nothing  == [a \in {} |-> 0]     \* the function on no account
NoClient == [acct |-> 0, creds |-> 0]
Closed == [op |-> "none", todo |-> <<>>, acct |-> 0, market |-> "none", link |-> 0,
           code |-> 0, seen |-> NoRow, list |-> Nothing]

-----------------------------------------------------------------------------
(* Helpers *)

Spend(k) ==
    /\ budget[k] > 0 /\ budget["any"] > 0
    /\ budget' = [budget EXCEPT ![k] = @ - 1, !["any"] = @ - 1]
Forget(f, a)  == [x \in DOMAIN f \ {a} |-> f[x]]
With(f, a, v) == [x \in DOMAIN f \cup {a} |-> IF x = a THEN v ELSE f[x]]
Born == Cardinality(DOMAIN signed)
IdleNow == \A r \in Requests : req[r] = Closed

(* The account loaded first; 0: none.                                      *)
Primary(d) == IF d = {} THEN 0 ELSE CHOOSE a \in d : \A b \in d : a <= b
PrimaryAccountID == Primary(DOMAIN clients)

(* The client that downloads a book of account a.                          *)
ClientForBook(a) ==
    LET b == IF a \in DOMAIN clients THEN a ELSE PrimaryAccountID
    IN  IF b = 0 THEN NoClient ELSE [acct |-> b, creds |-> clients[b]]

IsAuthenticated == \E a \in DOMAIN clients : clients[a] # 0

Reload == <<"list", "swap", "repoint">>

(* A request begins with the steps p and the locals l, unless it ends at   *)
(* once.                                                                   *)
Begin(r, k, p, l) ==
    /\ req[r] = Closed /\ Spend(k)
    /\ req' = [req EXCEPT ![r] = IF p = <<>> THEN Closed
                                 ELSE [l EXCEPT !.op = k, !.todo = p]]
    /\ disturbed' = (disturbed \/ ~IdleNow)

(* The head of the steps of r is done; the others, or t instead, remain,   *)
(* and the locals are l.                                                   *)
Me(r)         == req[r]
At(r, s)      == Me(r).todo # <<>> /\ Head(Me(r).todo) = s
Then(r, t, l) ==
    req' = [req EXCEPT ![r] = IF t = <<>> THEN Closed ELSE [l EXCEPT !.todo = t]]
Tail1(r)      == Tail(Me(r).todo)
Step(r, l)    == Then(r, Tail1(r), l)
Done(r)       == Step(r, Me(r))
End(r)        == Then(r, <<>>, Me(r))

-----------------------------------------------------------------------------
(* The requests *)

handleAccountAdd(r) ==
    \E m \in Markets :
       /\ Begin(r, "add", <<"create">> \o Reload \o <<"remember">>,
                [Closed EXCEPT !.market = m])
       /\ UNCHANGED <<rows, setting, file, clients, audible, pending, spent, links,
                      added, removed, signed>>

MutRemove(r) ==
    \E a \in Ids : a <= Born
       /\ Begin(r, "remove", <<"delete">>, [Closed EXCEPT !.acct = a])
       /\ UNCHANGED <<rows, setting, file, clients, audible, pending, spent, links,
                      added, removed, signed>>

handleAccountRemove(r) ==
    \E a \in Ids : a <= Born
       /\ Begin(r, "remove", <<"delete">> \o Reload, [Closed EXCEPT !.acct = a])
       /\ UNCHANGED <<rows, setting, file, clients, audible, pending, spent, links,
                      added, removed, signed>>

(* The account that the form names, else the first one.                    *)
resolveAccountID(a) == IF a # 0 THEN a ELSE PrimaryAccountID

handleAccountRegion(r) ==
    \E a \in 0..Born, m \in Markets :
       LET id == resolveAccountID(a)
       IN /\ Begin(r, "region",
                   IF id = 0 THEN <<>> ELSE <<"get", "put", "setting">> \o Reload,
                   [Closed EXCEPT !.acct = id, !.market = m])
          /\ UNCHANGED <<rows, setting, file, clients, audible, pending, spent, links,
                         added, removed, signed>>

(* The region form of the settings page, and the one of the wizard.        *)
SelectRegion(r, k) ==
    \E m \in Markets :
       /\ Begin(r, k, <<"setting", "ensure", "get", "put">> \o Reload,
                [Closed EXCEPT !.market = m])
       /\ UNCHANGED <<rows, setting, file, clients, audible, pending, spent, links,
                      added, removed, signed>>
handleAudibleMarketplaceSelect(r) == SelectRegion(r, "market")
handleSetupMarketplace(r)         == SelectRegion(r, "setup")

(* Without a region in the form the setting's is taken.                    *)
handleAuthStart(r) ==
    \E a \in 0..Born, m \in Markets \cup {setting} :
       LET id == resolveAccountID(a)
       IN /\ Begin(r, "start",
                   IF id = 0 THEN <<"create", "setting">> \o Reload \o <<"remember">>
                             ELSE <<"get", "put", "remember">>,
                   [Closed EXCEPT !.acct = id, !.market = m])
          /\ UNCHANGED <<rows, setting, file, clients, audible, pending, spent, links,
                         added, removed, signed>>

(* The wizard's Audible step makes a link as soon as it is shown.          *)
renderSetup(r) ==
    /\ Begin(r, "wizard", IF IsAuthenticated THEN <<>> ELSE <<"ensure", "remember">>,
             Closed)
    /\ UNCHANGED <<rows, setting, file, clients, audible, pending, spent, links, added,
                   removed, signed>>

(* The page of link f comes back with the code of link c, or Amazon's own  *)
(* redirect does, with the code alone.                                     *)
MutCallback(r) ==
    \E f \in 0..Len(links), c \in 1..Len(links) :
       LET id == PrimaryAccountID
       IN /\ Begin(r, "callback",
                   IF id = 0 THEN <<>>
                   ELSE <<"look", "take", "exchange", "get", "put">> \o Reload,
                   [Closed EXCEPT !.acct = id, !.link = f, !.code = c])
          /\ UNCHANGED <<rows, setting, file, clients, audible, pending, spent, links,
                         added, removed, signed>>

handleAuthCallback(r) ==
    \E f \in 0..Len(links), c \in 1..Len(links) :
       LET id == resolveAccountID(IF f = 0 THEN 0 ELSE links[f])
       IN /\ Begin(r, "callback",
                   IF id = 0 THEN <<>>
                   ELSE <<"look", "take", "exchange", "get", "put">> \o Reload,
                   [Closed EXCEPT !.acct = id, !.link = f, !.code = c])
          /\ UNCHANGED <<rows, setting, file, clients, audible, pending, spent, links,
                         added, removed, signed>>

-----------------------------------------------------------------------------
(* The steps *)

CreateAudibleAccount(r) ==
    LET id == Born + 1 IN
    /\ At(r, "create") /\ id \in Ids
    /\ rows' = With(rows, id, [creds |-> 0, market |-> IF Me(r).op \in {"add", "start"}
                                                      THEN Me(r).market ELSE setting])
    /\ signed' = With(signed, id, 0)
    /\ added' = IF Me(r).op = "add" THEN added \cup {id} ELSE added
    /\ Step(r, [Me(r) EXCEPT !.acct = id])
    /\ UNCHANGED <<setting, file, clients, audible, pending, spent, links, removed,
                   disturbed, budget>>

(* A first account if memory knows of none; its row has the setting's      *)
(* region, which the caller that has another then writes over.             *)
ensurePrimaryAccount(r) ==
    /\ At(r, "ensure")
    /\ IF PrimaryAccountID # 0
       THEN Step(r, [Me(r) EXCEPT !.acct = PrimaryAccountID])
       ELSE Then(r, <<"create">> \o Reload \o Tail1(r), Me(r))
    /\ UNCHANGED <<rows, setting, file, clients, audible, pending, spent, links, added,
                   removed, signed, disturbed, budget>>

DeleteAudibleAccount(r) ==
    LET a == Me(r).acct IN
    /\ At(r, "delete")
    /\ rows' = Forget(rows, a)
    /\ removed' = IF a \in DOMAIN rows THEN removed \cup ({rows[a].creds} \ {0}) ELSE removed
    /\ Done(r)
    /\ UNCHANGED <<setting, file, clients, audible, pending, spent, links, added, signed,
                   disturbed, budget>>

(* An account whose row is gone ends the request; a sign-in goes on.       *)
GetAudibleAccount(r) ==
    LET a == Me(r).acct IN
    /\ At(r, "get")
    /\ IF a \in DOMAIN rows
       THEN Step(r, [Me(r) EXCEPT !.seen = rows[a]])
       ELSE Then(r, IF Me(r).op = "start" THEN Tail(Tail1(r)) ELSE <<>>, Me(r))
    /\ UNCHANGED <<rows, setting, file, clients, audible, pending, spent, links, added,
                   removed, signed, disturbed, budget>>

(* The whole row goes back, with the credentials and their region after a  *)
(* sign-in, with the region of the form otherwise.                         *)
UpdateAudibleAccount(r) ==
    LET a   == Me(r).acct
        new == IF Me(r).op = "callback" THEN [creds |-> Me(r).link, market |-> Me(r).market]
               ELSE [Me(r).seen EXCEPT !.market = Me(r).market]
    IN
    /\ At(r, "put")
    /\ rows' = IF a \in DOMAIN rows THEN [rows EXCEPT ![a] = new] ELSE rows
    /\ signed' = IF Me(r).op = "callback" THEN [signed EXCEPT ![a] = Me(r).link] ELSE signed
    /\ Done(r)
    /\ UNCHANGED <<setting, file, clients, audible, pending, spent, links, added, removed,
                   disturbed, budget>>

(* The region of an account that is not the first stays its own.           *)
SetSetting(r) ==
    /\ At(r, "setting")
    /\ setting' = IF Me(r).op = "region" /\ Me(r).acct # PrimaryAccountID
                  THEN setting ELSE Me(r).market
    /\ Done(r)
    /\ UNCHANGED <<rows, file, clients, audible, pending, spent, links, added, removed,
                   signed, disturbed, budget>>

(* Reload reads the rows, and later puts the clients it built from them    *)
(* in the place of the others.                                             *)
ListAccounts(r) ==
    /\ At(r, "list")
    /\ Step(r, [Me(r) EXCEPT !.list = [a \in DOMAIN rows |-> rows[a].creds]])
    /\ UNCHANGED <<rows, setting, file, clients, audible, pending, spent, links, added,
                   removed, signed, disturbed, budget>>
SwapClients(r) ==
    /\ At(r, "swap")
    /\ clients' = Me(r).list
    /\ Step(r, [Me(r) EXCEPT !.list = Nothing])
    /\ UNCHANGED <<rows, setting, file, audible, pending, spent, links, added, removed,
                   signed, disturbed, budget>>

(* Without any account s.audible keeps what it points to.                  *)
Repoint(c, old) == IF DOMAIN c = {} THEN old
                   ELSE [acct |-> Primary(DOMAIN c), creds |-> c[Primary(DOMAIN c)]]
refreshPrimaryAudible(r) ==
    /\ At(r, "repoint")
    /\ audible' = Repoint(clients, audible)
    /\ Done(r)
    /\ UNCHANGED <<rows, setting, file, clients, pending, spent, links, added, removed,
                   signed, disturbed, budget>>

MutRemember(r) ==
    LET a == Me(r).acct  n == Len(links) + 1 IN
    /\ At(r, "remember") /\ n <= NumLinks
    /\ links' = Append(links, a)
    /\ pending' = IF PrimaryAccountID = 0 THEN pending ELSE With(pending, PrimaryAccountID, n)
    /\ Done(r)
    /\ UNCHANGED <<rows, setting, file, clients, audible, spent, added, removed, signed,
                   disturbed, budget>>

(* The page that shows a new link replaces the one that was pending.       *)
rememberPendingAuth(r) ==
    LET a == Me(r).acct  n == Len(links) + 1 IN
    /\ At(r, "remember") /\ n <= NumLinks
    /\ links' = Append(links, a)
    /\ pending' = IF a = 0 THEN pending ELSE With(pending, a, n)
    /\ Done(r)
    /\ UNCHANGED <<rows, setting, file, clients, audible, spent, added, removed, signed,
                   disturbed, budget>>

-----------------------------------------------------------------------------
(* The end of a sign-in *)

(* The client is for the region that the row has now.                      *)
LookRegion(r) ==
    LET a == Me(r).acct IN
    /\ At(r, "look")
    /\ \E us \in Markets :
          Step(r, [Me(r) EXCEPT !.market = IF a \in DOMAIN rows THEN rows[a].market
                                           ELSE us])
    /\ UNCHANGED <<rows, setting, file, clients, audible, pending, spent, links, added,
                   removed, signed, disturbed, budget>>

(* A page other than that of the pending link is refused, and the pending  *)
(* entry is used up before Amazon has answered.                            *)
registrationForCallback(r) ==
    LET a == Me(r).acct  f == Me(r).link IN
    /\ At(r, "take")
    /\ IF a \in DOMAIN pending
       THEN IF f \in {0, pending[a]}
            THEN /\ pending' = Forget(pending, a)
                 /\ Step(r, [Me(r) EXCEPT !.link = pending[a]])
            ELSE End(r) /\ UNCHANGED pending
       ELSE /\ IF f # 0 THEN Done(r) ELSE End(r)
            /\ UNCHANGED pending
    /\ UNCHANGED <<rows, setting, file, clients, audible, spent, links, added, removed,
                   signed, disturbed, budget>>

(* Amazon takes a code once, with the verifier of the link it is of.       *)
Authenticate(r) ==
    LET f == Me(r).link IN
    /\ At(r, "exchange")
    /\ \/ f = Me(r).code /\ f \notin spent
          /\ spent' = spent \cup {f} /\ Done(r)
       \/ End(r) /\ UNCHANGED spent
    /\ UNCHANGED <<rows, setting, file, clients, audible, pending, links, added, removed,
                   signed, disturbed, budget>>

(* A step on the database fails.  A region that could not be written does  *)
(* not stop a sign-in or the region forms of the settings and the wizard;  *)
(* without an account, the wizard shows a link that is of none.            *)
StepFails(r) ==
    LET s == Head(Me(r).todo)  k == Me(r).op IN
    /\ Me(r).todo # <<>> /\ s \in {"create", "delete", "put", "setting", "list"}
    /\ Spend("fail") /\ disturbed' = TRUE
    /\ Then(r, CASE s = "list" -> Tail(Tail1(r))
                 [] s = "put" /\ k \in {"start", "market", "setup"} -> Tail1(r)
                 [] s = "setting" /\ k # "market" -> Tail1(r)
                 [] s = "create" /\ k = "wizard" -> <<"remember">>
                 [] OTHER -> <<>>, Me(r))
    /\ UNCHANGED <<rows, setting, file, clients, audible, pending, spent, links, added,
                   removed, signed>>

(* The process starts again: with no row at all, one is made from the      *)
(* credentials.json that an older version left, which stays on the disk.   *)
Synthesizes == DOMAIN rows = {} /\ file /\ Born < NumAccounts
Boot ==
    LET c == [a \in DOMAIN rows' |-> rows'[a].creds] IN
    /\ Spend("restart")
    /\ IF Synthesizes
       THEN /\ rows' = With(rows, Born + 1, [creds |-> Legacy, market |-> setting])
            /\ signed' = With(signed, Born + 1, Legacy)
       ELSE UNCHANGED <<rows, signed>>
    /\ clients' = c /\ audible' = Repoint(c, NoClient)
    /\ pending' = Nothing /\ req' = [r \in Requests |-> Closed]
    /\ disturbed' = (disturbed \/ ~IdleNow)
    /\ UNCHANGED <<setting, file, spent, links, added, removed>>

-----------------------------------------------------------------------------

(* The first start of this version, after an older one or none.            *)
Init ==
    /\ setting \in Markets /\ file \in BOOLEAN
    /\ rows = IF file THEN With(Nothing, 1, [creds |-> Legacy, market |-> setting])
              ELSE Nothing
    /\ clients = [a \in DOMAIN rows |-> Legacy]
    /\ signed = clients
    /\ audible = Repoint(clients, NoClient)
    /\ pending = Nothing /\ req = [r \in Requests |-> Closed]
    /\ spent = {} /\ links = <<>> /\ added = {} /\ removed = {}
    /\ disturbed = FALSE /\ budget = Budget

Request(r) ==
    \/ handleAccountAdd(r) \/ handleAccountRemove(r) \/ handleAccountRegion(r)
    \/ handleAudibleMarketplaceSelect(r) \/ handleSetupMarketplace(r)
    \/ handleAuthStart(r) \/ renderSetup(r) \/ handleAuthCallback(r)

RequestStep(r) ==
    \/ CreateAudibleAccount(r) \/ ensurePrimaryAccount(r) \/ DeleteAudibleAccount(r)
    \/ GetAudibleAccount(r) \/ UpdateAudibleAccount(r) \/ SetSetting(r)
    \/ ListAccounts(r) \/ SwapClients(r) \/ refreshPrimaryAudible(r)
    \/ rememberPendingAuth(r) \/ LookRegion(r) \/ registrationForCallback(r)
    \/ Authenticate(r)

Next ==
    \/ \E r \in Requests : Request(r) \/ RequestStep(r) \/ StepFails(r)
    \/ Boot

Spec == Init /\ [][Next]_vars

-----------------------------------------------------------------------------
(* Properties *)

(* Rows and clients are of accounts that were created, and what they hold  *)
(* are credentials that a sign-in gave.                                    *)
AccountsTypeOK ==
    /\ DOMAIN signed = 1..Born /\ Born <= NumAccounts
    /\ DOMAIN rows \subseteq DOMAIN signed /\ DOMAIN clients \subseteq DOMAIN signed
    /\ \A a \in DOMAIN rows : rows[a].creds \in {0, Legacy} \cup spent
                              /\ rows[a].market \in Markets
    /\ \A a \in DOMAIN clients : clients[a] \in {0, Legacy} \cup spent
    /\ setting \in Markets /\ audible.acct \in {0} \cup DOMAIN signed
    /\ \A a \in DOMAIN pending : a \in DOMAIN signed /\ links[pending[a]] = a

(* The credentials of an account come from a sign-in that was started for  *)
(* it, however many sign-ins are under way, whichever page comes back with *)
(* which code, and though a redirect names no account                      *)
(* (web/accounts_handlers.go:269 and web/server.go:4187); and credentials  *)
(* whose account was removed do not come back, but for those that          *)
(* credentials.json still holds (library/firstboot_accounts.go:28).        *)
SignInPaired ==
    \A a \in DOMAIN rows :
       LET c == rows[a].creds
       IN /\ c \in 1..Len(links) => links[c] \in {a, 0}
          /\ c \notin removed \ {Legacy}

(* When no request is in progress, and none overlapped another or failed,  *)
(* every account there is downloads its own books with the credentials of  *)
(* its last sign-in that was reported as done (library/accounts.go:140 and *)
(* web/server.go:4224), no account that is gone has a client, the older    *)
(* code uses the first account, and no account was made beside one that    *)
(* there was but on request.                                               *)
Settled == IdleNow /\ ~disturbed
RightClient ==
    Settled =>
       /\ \A a \in DOMAIN rows : /\ rows[a].creds = signed[a]
                                 /\ ClientForBook(a) = [acct |-> a, creds |-> signed[a]]
       /\ DOMAIN clients = DOMAIN rows
       /\ rows # Nothing => audible = ClientForBook(Primary(DOMAIN rows))
       /\ Cardinality(DOMAIN rows \ added) <= 1

=============================================================================
