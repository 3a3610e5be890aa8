------------------------------ MODULE Install ------------------------------
(***************************************************************************)
(* An installation and what changes it as a whole: the database file and   *)
(* its safety copies, the start of the program with what it reads from the *)
(* settings, the setup wizard, the settings page, the access mode, the     *)
(* factory reset and the restore of a backup, with the process ending or a *)
(* step failing at any moment.                                             *)
(*                                                                         *)
(* Source: cmd/server/main.go, internal/web/server.go, setup_handlers.go   *)
(* and auth_handlers.go, internal/auth/users.go, internal/scheduler/       *)
(* cron.go, internal/database/sqlite.go.                                   *)
(*                                                                         *)
(* A request is a list of steps, each one access of the database, of the   *)
(* disk or of the memory of the program, as in Accounts.  Of a database    *)
(* the model keeps who can sign in and four settings, one for each way     *)
(* that the program follows its settings; of a schedule, whether there is  *)
(* one.  The -wal and -shm files go where their database goes.             *)
(***************************************************************************)
EXTENDS Integers, FiniteSets, Sequences

CONSTANTS
    Requests,   \* the requests that can be in progress
    Forms,      \* what users enter on the settings page
    Backups,    \* the databases that users upload
    Befores,    \* the databases that earlier versions left
    Budget      \* bound: how often each event may happen; "any": in all

Events == {"save", "finish", "skip", "again", "admin", "noadmin", "method", "password",
           "oidc", "callback", "reset", "restore", "restart", "fail", "crash", "any"}

(* The settings; "" is a setting that is absent or empty.                  *)
Answers == {"", "yes", "no"}
Formats == {"", "m4b", "mp3"}
Database ==
    [method : {"", "none", "forms"}, sched : {"", "daily"}, on : Answers, auto : Answers,
     format : Formats, id : Nat, user : BOOLEAN, required : {"", "enabled", "localhost"},
     onboarded : BOOLEAN, sso : BOOLEAN, client : BOOLEAN]

(* Single sign-on works once it is enabled and its client is configured;   *)
(* then anyone whom the provider accepts is made a user.                   *)
Ready(c) == c.sso /\ c.client
Way(c)   == c.user \/ Ready(c)

ASSUME InstallAssumption ==
    /\ Forms \cup Backups \cup Befores \subseteq Database
    /\ \A f \in Forms : f.on # "" /\ f.auto # "" /\ f.format # ""
    /\ \A c \in Backups \cup Befores : c.method = "forms" => Way(c)
    /\ \A c \in Backups \cup Befores : c.id = 0
    /\ Budget \in [Events -> Nat]

VARIABLES
    \* the disk
    db,        \* audible.db
    staged,    \* audible.db.restore-upload
    safe,      \* audible.db.pre-restore-<second>, by second
    \* the program
    up,        \* whether it runs
    open,      \* whether its handle on the database is open
    running,   \* whether the pipeline was started
    exiting,   \* whether a SIGTERM is on its way
    live,      \* what scheduler, pipeline and wizard go by
    req,       \* the requests
    \* the world
    envAdmin,  \* whether the environment names an administrator
    now,       \* the second
    \* history and bounds
    lived,     \* the databases that the program has run with
    excused,   \* what happened that a property excludes
    budget

world == <<envAdmin, now, lived>>
vars  == <<db, staged, safe, up, open, running, exiting, live, req, envAdmin, now, lived,
          excused, budget>>

NoDB   == [id |-> -1]     \* no file
BadDB  == [id |-> -2]     \* a file that is no database of this program
Empty  == [method |-> "", sched |-> "", on |-> "", auto |-> "", format |-> "", id |-> 0,
           user |-> FALSE, required |-> "", onboarded |-> FALSE, sso |-> FALSE,
           client |-> FALSE]
NoLive == [auto |-> "no", format |-> "m4b", onboarded |-> FALSE, cron |-> FALSE]
Closed == [op |-> "none", todo |-> <<>>, form |-> Empty, changed |-> {}, seen |-> FALSE,
           upload |-> NoDB, copy |-> -1]
Nothing == [x \in {} |-> x]   \* no safety copies

-----------------------------------------------------------------------------
(* Helpers *)

Spend(k) ==
    /\ budget[k] > 0 /\ budget["any"] > 0
    /\ budget' = [budget EXCEPT ![k] = @ - 1, !["any"] = @ - 1]
Forget(f, a)  == [x \in DOMAIN f \ {a} |-> f[x]]
With(f, a, v) == [x \in DOMAIN f \cup {a} |-> IF x = a THEN v ELSE f[x]]
IdleNow == \A r \in Requests : req[r] = Closed
Busy(K) == \E r \in Requests : req[r].op \in K

(* The requests that write both a setting and what follows it.             *)
Writers == {"save", "finish", "skip", "again", "reset"}

(* A request begins with the steps p, a form and an upload.                *)
Begin(r, k, p, f, u) ==
    /\ up /\ req[r] = Closed /\ Spend(k)
    /\ req' = [req EXCEPT ![r] = [op |-> k, todo |-> p, form |-> f, changed |-> {},
                                  seen |-> FALSE, upload |-> u, copy |-> -1]]
    /\ excused' = excused
         \cup (IF k \in Writers /\ Busy(Writers) THEN {"race"} ELSE {})
         \cup (IF (k = "reset" /\ ~IdleNow) \/ Busy({"reset"}) THEN {"crossed"} ELSE {})
         \cup (IF k = "restore" /\ (Busy({"restore"}) \/ ~open) THEN {"twice"} ELSE {})
    /\ UNCHANGED <<db, staged, safe, up, open, running, exiting, live, world>>

At(r, s)      == req[r].todo # <<>> /\ Head(req[r].todo) = s
(* It goes on with the steps t, and with what it knows now, l.             *)
Then(r, t, l) == req' = [req EXCEPT ![r] = IF t = <<>> THEN Closed ELSE [l EXCEPT !.todo = t]]
Tail1(r)      == Tail(req[r].todo)
Learn(r, l)   == Then(r, Tail1(r), l)
Step(r)       == Learn(r, req[r])

(* A step that leaves the database as d.                                   *)
Write(d) == open /\ db' = d

-----------------------------------------------------------------------------
(* The requests *)

(* The settings page.                                                      *)
handleSaveSettings(r) ==
    \E f \in Forms :
       Begin(r, "save", <<"sched", "on", "auto", "autolive", "read", "cron", "format",
                          "formatlive">>, f, NoDB)

(* The wizard's last page, its skip link and the button that opens it      *)
(* again.                                                                  *)
setOnboarded == <<"onboarded", "mirror">>
handleSetupFinish(r) ==
    \E a \in {"yes", "no"} :
       Begin(r, "finish", setOnboarded \o <<"choice", "autolive">>,
             [Empty EXCEPT !.onboarded = TRUE, !.auto = a], NoDB)
handleSetupSkip(r) ==
    Begin(r, "skip", setOnboarded, [Empty EXCEPT !.onboarded = TRUE], NoDB)
handleSetupRestart(r) == Begin(r, "again", setOnboarded, Empty, NoDB)

(* The wizard's page for the administrator, refused once it is through.    *)
handleSetupAdminPost(r) ==
    /\ ~live.onboarded
    /\ Begin(r, "admin", <<"find", "upsert", "method", "require">>,
             [Empty EXCEPT !.method = "forms", !.required = "enabled"], NoDB)
handleSetupAdminSkip(r) ==
    /\ ~live.onboarded
    /\ Begin(r, "noadmin", <<"method">>, [Empty EXCEPT !.method = "none"], NoDB)

MutAuthMethod(r) ==
    \E m \in {"none", "forms"}, q \in {"enabled", "localhost"} :
       Begin(r, "method", <<"method", "required">>,
             [Empty EXCEPT !.method = m, !.required = q], NoDB)

(* The access mode: forms only where there is a user, or one can come by   *)
(* single sign-on.                                                         *)
handleSecurityAuthMethod(r) ==
    \E m \in {"none", "forms"}, q \in {"enabled", "localhost"} :
       Begin(r, "method",
             (IF m = "forms" THEN <<"count", "ready">> ELSE <<>>) \o <<"method", "required">>,
             [Empty EXCEPT !.method = m, !.required = q], NoDB)

(* A password that was accepted, alone or with the wish for forms.         *)
handleSecurityPassword(r) ==
    \E wish \in {<<>>, <<"method">>} :
       Begin(r, "password", <<"find", "upsert">> \o wish,
             [Empty EXCEPT !.method = "forms"], NoDB)

(* Single sign-on, enabled only with a client that the provider answers;   *)
(* it is disabled whether or not there is a user.                          *)
handleSecurityOIDC(r) ==
    \E on, whole \in BOOLEAN :
       /\ on => whole
       /\ Begin(r, "oidc", <<"sso", "client">>,
                [Empty EXCEPT !.sso = on, !.client = whole], NoDB)

(* Somebody comes back from the provider and is made a user.               *)
handleOIDCCallback(r) == Begin(r, "callback", <<"ready", "find", "upsert">>, Empty, NoDB)

StopAndWait == <<"stop", "wait">>
MutFactoryReset(r) ==
    Begin(r, "reset", StopAndWait \o <<"users", "settings", "others", "start">>,
          Empty, NoDB)
handleFactoryReset(r) ==
    Begin(r, "reset", StopAndWait \o <<"users", "settings", "others", "start",
                                       "mirror">>, Empty, NoDB)

handleDBRestore(r) ==
    \E u \in Backups \cup {BadDB} :
       Begin(r, "restore", <<"upload", "validate">> \o StopAndWait \o
                           <<"close", "aside", "install", "signal">>, Empty, u)

handleRestart(r) == Begin(r, "restart", <<"signal">>, Empty, NoDB)

-----------------------------------------------------------------------------
(* The settings and what follows them *)

(* A setting is written where it differs; only then does anything follow.  *)
setSetting(r) ==
    \E s \in {"sched", "on", "auto"} :
       /\ At(r, s) /\ open
       /\ db' = [db EXCEPT ![s] = req[r].form[s]]
       /\ IF db[s] = req[r].form[s] THEN Step(r)
          ELSE Learn(r, [req[r] EXCEPT !.changed = @ \cup {s}])
       /\ UNCHANGED <<staged, safe, up, open, running, exiting, live, world, excused, budget>>
SetAutoQueueNew(r) ==
    /\ At(r, "autolive") /\ Step(r)
    /\ live' = IF "auto" \in req[r].changed THEN [live EXCEPT !.auto = req[r].form.auto]
               ELSE live
    /\ UNCHANGED <<db, staged, safe, up, open, running, exiting, world, excused, budget>>

(* Schedule and switch are read again together, since both decide.         *)
Scheduled(c) == c.on # "no" /\ c.sched # ""
ReadSchedule(r) ==
    /\ At(r, "read")
    /\ IF req[r].changed \cap {"sched", "on"} = {}
       THEN Then(r, Tail(Tail1(r)), req[r])
       ELSE Learn(r, [req[r] EXCEPT !.seen = open /\ Scheduled(db)])
    /\ UNCHANGED <<db, staged, safe, up, open, running, exiting, live, world, excused, budget>>
SetSyncSchedule(r) ==
    /\ At(r, "cron") /\ Step(r)
    /\ live' = [live EXCEPT !.cron = req[r].seen]
    /\ UNCHANGED <<db, staged, safe, up, open, running, exiting, world, excused, budget>>

(* A format is applied whenever the database has it.                       *)
PutFormat(r) ==
    /\ At(r, "format") /\ Write([db EXCEPT !.format = req[r].form.format]) /\ Step(r)
    /\ UNCHANGED <<staged, safe, up, open, running, exiting, live, world, excused, budget>>
SetOutputFormat(r) ==
    /\ At(r, "formatlive") /\ Step(r)
    /\ live' = [live EXCEPT !.format = req[r].form.format]
    /\ UNCHANGED <<db, staged, safe, up, open, running, exiting, world, excused, budget>>

(* The wizard's choice is applied whether or not it could be written.      *)
PutChoice(r) ==
    /\ At(r, "choice") /\ Write([db EXCEPT !.auto = req[r].form.auto])
    /\ Learn(r, [req[r] EXCEPT !.changed = {"auto"}])
    /\ UNCHANGED <<staged, safe, up, open, running, exiting, live, world, excused, budget>>
PutOnboarded(r) ==
    /\ At(r, "onboarded") /\ Write([db EXCEPT !.onboarded = req[r].form.onboarded]) /\ Step(r)
    /\ UNCHANGED <<staged, safe, up, open, running, exiting, live, world, excused, budget>>
StoreOnboarded(r) ==
    /\ At(r, "mirror") /\ Step(r)
    /\ live' = [live EXCEPT !.onboarded = req[r].form.onboarded]
    /\ UNCHANGED <<db, staged, safe, up, open, running, exiting, world, excused, budget>>

-----------------------------------------------------------------------------
(* Who can sign in *)

(* The user of the name that was given, if there is one.                   *)
GetUserByUsername(r) ==
    /\ At(r, "find") /\ open
    /\ \E same \in BOOLEAN : Learn(r, [req[r] EXCEPT !.seen = db.user /\ same])
    /\ UNCHANGED <<db, staged, safe, up, open, running, exiting, live, world, excused, budget>>

(* An update of a row that is gone changes nothing, and says nothing; an   *)
(* insert fails on a name that was taken in between.                       *)
UpsertUser(r) ==
    /\ At(r, "upsert")
    /\ \/ Write(IF req[r].seen THEN db ELSE [db EXCEPT !.user = TRUE]) /\ Step(r)
       \/ open /\ ~req[r].seen /\ db.user /\ Then(r, <<>>, req[r]) /\ UNCHANGED db
    /\ UNCHANGED <<staged, safe, up, open, running, exiting, live, world, excused, budget>>

(* Where there is a user, single sign-on is not asked about.               *)
CountUsers(r) ==
    /\ At(r, "count") /\ open
    /\ Then(r, IF db.user THEN Tail(Tail1(r)) ELSE Tail1(r), req[r])
    /\ UNCHANGED <<db, staged, safe, up, open, running, exiting, live, world, excused, budget>>

(* The provider may not answer.                                            *)
oidcReady(r) ==
    /\ At(r, "ready") /\ open
    /\ (Ready(db) /\ Step(r)) \/ Then(r, <<>>, req[r])
    /\ UNCHANGED <<db, staged, safe, up, open, running, exiting, live, world, excused, budget>>

PutOIDC(r) ==
    /\ \/ At(r, "sso") /\ Write([db EXCEPT !.sso = req[r].form.sso])
       \/ At(r, "client") /\ Write([db EXCEPT !.client = req[r].form.client])
    /\ Step(r)
    /\ excused' = IF Way(db) /\ ~Way(db') THEN excused \cup {"off"} ELSE excused
    /\ UNCHANGED <<staged, safe, up, open, running, exiting, live, world, budget>>

PutMethod(r) ==
    /\ At(r, "method") /\ Write([db EXCEPT !.method = req[r].form.method]) /\ Step(r)
    /\ UNCHANGED <<staged, safe, up, open, running, exiting, live, world, excused, budget>>
PutRequired(r) ==
    /\ \/ At(r, "required") /\ Write([db EXCEPT !.required = req[r].form.required])
       \/ At(r, "require") /\ Write(IF db.required # "" THEN db
                                    ELSE [db EXCEPT !.required = "enabled"])
    /\ Step(r)
    /\ UNCHANGED <<staged, safe, up, open, running, exiting, live, world, excused, budget>>

-----------------------------------------------------------------------------
(* The factory reset and the restore *)

StopPipeline(r) ==
    /\ At(r, "stop") /\ Step(r)
    /\ running' = FALSE
    /\ UNCHANGED <<db, staged, safe, up, open, exiting, live, world, excused, budget>>
WaitPipeline(r) ==
    /\ At(r, "wait") /\ ~running /\ Step(r)
    /\ UNCHANGED <<db, staged, safe, up, open, running, exiting, live, world, excused, budget>>
StartPipeline(r) ==
    /\ At(r, "start") /\ Step(r)
    /\ running' = TRUE
    /\ UNCHANGED <<db, staged, safe, up, open, exiting, live, world, excused, budget>>

(* The tables are emptied one after the other: sessions and users before   *)
(* the settings, which say that users sign in.                             *)
Reset(r) ==
    /\ \/ At(r, "users") /\ Write([db EXCEPT !.user = FALSE])
       \/ At(r, "settings") /\ open /\ db' = [Empty EXCEPT !.id = db.id, !.user = db.user]
       \/ At(r, "others") /\ Write(db)
    /\ Step(r)
    /\ UNCHANGED <<staged, safe, up, open, running, exiting, live, world, excused, budget>>

SaveUploadedFile(r) ==
    /\ At(r, "upload") /\ Step(r)
    /\ staged' = req[r].upload
    /\ UNCHANGED <<db, safe, up, open, running, exiting, live, world, excused, budget>>

validateSQLiteBackup(r) ==
    /\ At(r, "validate")
    /\ IF staged \in {NoDB, BadDB}
       THEN staged' = NoDB /\ Then(r, <<>>, req[r])
       ELSE Step(r) /\ UNCHANGED staged
    /\ UNCHANGED <<db, safe, up, open, running, exiting, live, world, excused, budget>>

CloseDB(r) ==
    /\ At(r, "close") /\ Step(r)
    /\ open' = FALSE
    /\ UNCHANGED <<db, staged, safe, up, running, exiting, live, world, excused, budget>>

MutMoveAside(r) ==
    /\ At(r, "aside")
    /\ IF db = NoDB THEN Step(r) /\ UNCHANGED <<db, safe, now>>
       ELSE \E t \in {now, now + 1} :
               /\ safe' = With(safe, 0, db) /\ db' = NoDB /\ now' = t
               /\ Learn(r, [req[r] EXCEPT !.copy = 0])
    /\ UNCHANGED <<staged, up, open, running, exiting, live, envAdmin, lived, excused, budget>>

(* A safety copy of the same second is written over.                       *)
MoveAside(r) ==
    /\ At(r, "aside")
    /\ IF db = NoDB THEN Step(r) /\ UNCHANGED <<db, safe, now>>
       ELSE \E t \in {now, now + 1} :
               /\ safe' = With(safe, t, db) /\ db' = NoDB /\ now' = t
               /\ Learn(r, [req[r] EXCEPT !.copy = t])
    /\ UNCHANGED <<staged, up, open, running, exiting, live, envAdmin, lived, excused, budget>>

InstallUpload(r) ==
    /\ At(r, "install") /\ staged # NoDB
    /\ db' = staged /\ staged' = NoDB
    /\ Step(r)
    /\ UNCHANGED <<safe, up, open, running, exiting, live, world, excused, budget>>

(* The safety copy goes back to its place.                                 *)
RollBack(r) ==
    LET t == req[r].copy IN
    /\ At(r, "rollback") /\ Step(r)
    /\ IF t \in DOMAIN safe
       THEN db' = safe[t] /\ safe' = Forget(safe, t)
       ELSE UNCHANGED <<db, safe>>
    /\ staged' = NoDB
    /\ UNCHANGED <<up, open, running, exiting, live, world, excused, budget>>

scheduleRestart(r) ==
    /\ At(r, "signal") /\ Step(r)
    /\ exiting' = TRUE
    /\ UNCHANGED <<db, staged, safe, up, open, running, live, world, excused, budget>>

-----------------------------------------------------------------------------
(* Failures, ends and starts *)

DBSteps == {"sched", "on", "auto", "format", "choice", "onboarded", "find", "upsert",
            "count", "ready", "method", "require", "required", "sso", "client", "users",
            "settings", "others"}

(* What is left of a request after its step s failed; users that could not *)
(* be counted count as none.                                               *)
Left(r, s) ==
    CASE s \in {"format", "onboarded"}                      -> Tail(Tail1(r))
      [] s \in {"find", "upsert", "ready", "upload"}        -> <<>>
      [] s = "method" /\ req[r].op = "password"             -> <<>>
      [] s \in {"users", "settings", "others"}              -> <<"start">>
      [] s = "aside"                                        -> <<"signal">>
      [] s = "install"                                      -> <<"rollback">> \o Tail1(r)
      [] OTHER                                              -> Tail1(r)

(* A step on the database fails once its handle is closed, the upload      *)
(* cannot be installed once it is gone, and any step may fail.             *)
StepFails(r) ==
    LET s == Head(req[r].todo) IN
    /\ req[r].todo # <<>>
    /\ \/ s \in DBSteps /\ ~open /\ UNCHANGED budget
       \/ s = "install" /\ staged = NoDB /\ UNCHANGED budget
       \/ s \in DBSteps \cup {"upload", "aside", "install", "rollback"} /\ Spend("fail")
    /\ Then(r, Left(r, s), IF s = "choice" THEN [req[r] EXCEPT !.changed = {"auto"}]
                           ELSE req[r])
    /\ staged' = CASE s = "upload" -> BadDB
                   [] s \in {"aside", "rollback"} -> NoDB
                   [] OTHER -> staged
    /\ excused' = excused \cup CASE s = "settings" -> {"cut", "slip"}
                                 [] s \in {"choice", "others"} -> {"slip"}
                                 [] s = "rollback" -> {"torn"}
                                 [] OTHER -> {}
    /\ UNCHANGED <<db, safe, up, open, running, exiting, live, world>>

(* The process ends, by the signal or by a crash.                          *)
ProcessEnds ==
    /\ up
    /\ (exiting /\ UNCHANGED budget) \/ Spend("crash")
    /\ up' = FALSE /\ open' = FALSE /\ running' = FALSE /\ exiting' = FALSE
    /\ req' = [r \in Requests |-> Closed]
    /\ excused' = excused
         \cup (IF \E r \in Requests : At(r, "settings") THEN {"cut"} ELSE {})
         \cup (IF \E r \in Requests : At(r, "install") \/ At(r, "rollback") THEN {"torn"}
               ELSE {})
    /\ UNCHANGED <<db, staged, safe, live, world>>

(* The access mode of an installation that has none.                       *)
seedAuthDefaults(c) ==
    IF c.method # "" THEN c
    ELSE IF envAdmin /\ ~c.user
         THEN [c EXCEPT !.user = TRUE, !.method = "forms", !.required = "enabled"]
         ELSE [c EXCEPT !.method = "none", !.required = "localhost"]

MutDBSettings(c) ==
    [c EXCEPT !.sched = IF @ = "" THEN "daily" ELSE @, !.on = IF @ = "" THEN "yes" ELSE @,
              !.auto = IF @ = "" THEN "no" ELSE @]

(* A setting without a value gets the default, in the database as well.    *)
applyDBSettings(c) ==
    [c EXCEPT !.sched = IF @ = "" THEN "daily" ELSE @, !.on = IF @ = "" THEN "yes" ELSE @,
              !.auto = IF @ = "" THEN "no" ELSE @, !.format = IF @ = "" THEN "m4b" ELSE @]

FollowedBy(c) == [auto |-> c.auto, format |-> c.format, onboarded |-> c.onboarded,
                  cron |-> c.on = "yes" /\ c.sched # ""]

initDatabase == IF db = NoDB THEN Empty ELSE db

(* The program starts, unless the file is no database; without a file it   *)
(* makes one.                                                              *)
Boot ==
    LET c  == applyDBSettings(seedAuthDefaults(initDatabase))
        id == IF c.id = 0 THEN Cardinality(lived) + 1 ELSE c.id
    IN
    /\ ~up /\ db # BadDB
    /\ db' = [c EXCEPT !.id = id] /\ lived' = lived \cup {id}
    /\ excused' = (excused \ {"race", "slip"})
                  \cup (IF db = NoDB /\ lived # {} THEN {"anew"} ELSE {})
    /\ up' = TRUE /\ open' = TRUE /\ running' = TRUE
    /\ live' = FollowedBy(c)
    /\ now' = now + 1
    /\ UNCHANGED <<staged, safe, exiting, req, envAdmin, budget>>

-----------------------------------------------------------------------------

(* Nothing, or the database of an earlier version.                         *)
Init ==
    /\ db \in {NoDB} \cup Befores /\ staged = NoDB /\ safe = Nothing
    /\ up = FALSE /\ open = FALSE /\ running = FALSE /\ exiting = FALSE
    /\ live = NoLive /\ req = [r \in Requests |-> Closed]
    /\ envAdmin \in BOOLEAN /\ now = 0
    /\ lived = {} /\ excused = {} /\ budget = Budget

Request(r) ==
    \/ handleSaveSettings(r) \/ handleSetupFinish(r) \/ handleSetupSkip(r)
    \/ handleSetupRestart(r) \/ handleSetupAdminPost(r) \/ handleSetupAdminSkip(r)
    \/ handleSecurityAuthMethod(r) \/ handleSecurityPassword(r)
    \/ handleSecurityOIDC(r) \/ handleOIDCCallback(r)
    \/ handleFactoryReset(r) \/ handleDBRestore(r) \/ handleRestart(r)

RequestStep(r) ==
    \/ setSetting(r) \/ SetAutoQueueNew(r) \/ ReadSchedule(r) \/ SetSyncSchedule(r)
    \/ PutFormat(r) \/ SetOutputFormat(r) \/ PutChoice(r) \/ PutOnboarded(r)
    \/ StoreOnboarded(r) \/ GetUserByUsername(r) \/ UpsertUser(r) \/ CountUsers(r)
    \/ oidcReady(r) \/ PutOIDC(r) \/ PutMethod(r) \/ PutRequired(r)
    \/ StopPipeline(r) \/ WaitPipeline(r) \/ StartPipeline(r) \/ Reset(r)
    \/ SaveUploadedFile(r) \/ validateSQLiteBackup(r)
    \/ CloseDB(r) \/ MoveAside(r) \/ InstallUpload(r) \/ RollBack(r) \/ scheduleRestart(r)

Next ==
    \/ \E r \in Requests : Request(r) \/ RequestStep(r) \/ StepFails(r)
    \/ ProcessEnds \/ Boot

Spec == Init /\ [][Next]_vars

-----------------------------------------------------------------------------
(* Properties *)

InstallTypeOK ==
    /\ db \in Database \cup {NoDB, BadDB} /\ staged \in Database \cup {NoDB, BadDB}
    /\ \A t \in DOMAIN safe : t \in 1..now /\ safe[t] \in Database \cup {BadDB}
    /\ {up, open, running, exiting} \subseteq BOOLEAN
    /\ live \in [cron : BOOLEAN, auto : {"yes", "no"}, format : {"m4b", "mp3"},
                 onboarded : BOOLEAN]
    /\ (open => up) /\ (running => up) /\ (exiting => up)
    /\ \A i \in lived : i \in 1..Cardinality(lived)

(* However restores, crashes and failing renames are mixed, as long as no  *)
(* two restores meet in one run: every database that the program has run   *)
(* with is in its place or in a safety copy, a refused upload is not       *)
(* installed, and unless the process ended between the renames or the      *)
(* rollback failed too, no start finds the database missing                *)
(* (web/server.go:3831, 3849 and 3907).                                    *)
DatabaseKept ==
    "twice" \notin excused =>
       /\ lived \subseteq {db.id} \cup {safe[t].id : t \in DOMAIN safe}
       /\ db # BadDB
       /\ "anew" \in excused => "torn" \in excused

(* When no request is in progress and the process is not about to end, the *)
(* pipeline runs and the database is open: a reset that failed started it  *)
(* again, a restore that failed is followed by a restart, and two of them  *)
(* at once do not leave it stopped (web/server.go:3938 and 3842).          *)
Settled     == up /\ IdleNow /\ ~exiting
WorkersBack == Settled => running /\ open

(* Then also, whatever step failed, unless two requests wrote settings at  *)
(* once: scheduler, pipeline and wizard go by what the database says of    *)
(* them, as they would after a restart (web/server.go:3527, cmd/server/    *)
(* main.go:357, web/setup_handlers.go:72).  A setting that a factory reset *)
(* took away waits for the restart.                                        *)
LiveFollows ==
    Settled /\ excused \cap {"race", "slip"} = {} =>
       /\ db.auto # "" => live.auto = db.auto
       /\ db.format # "" => live.format = db.format
       /\ db.on # "" => live.cron = Scheduled(db)
       /\ live.onboarded = db.onboarded

(* Together: what a request leaves when it is over.                        *)
SettledWell == WorkersBack /\ LiveFollows

(* A password is asked for only where somebody can sign in: where there is *)
(* a user, or single sign-on is enabled and configured, which makes one of *)
(* whoever comes first ("Switching to forms without a user would lock      *)
(* everyone out", web/auth_handlers.go:250-263).  Not covered are a reset  *)
(* that is cut short between the users and the settings or meets another   *)
(* request, and single sign-on that is disabled while nobody is a user,    *)
(* which the code does not refuse.                                         *)
SomeoneCanSignIn ==
    Settled /\ excused \cap {"crossed", "cut", "off"} = {} /\ db.method = "forms" => Way(db)
=============================================================================
