----------------------------- MODULE MCInstall ------------------------------
(* Install on small instances; see README.md.                              *)
EXTENDS Install, TLC

CONSTANTS r1, r2
CONSTANTS Saves, Finishes, Skips, Agains, Admins, NoAdmins, Methods, Passwords, SSOs,
          Callbacks, Resets, Restores, Restarts, Failures, Crashes, EventsInAll

MCBudget == [save |-> Saves, finish |-> Finishes, skip |-> Skips, again |-> Agains,
             admin |-> Admins, noadmin |-> NoAdmins, method |-> Methods,
             password |-> Passwords, oidc |-> SSOs, callback |-> Callbacks,
             reset |-> Resets, restore |-> Restores,
             restart |-> Restarts, fail |-> Failures, crash |-> Crashes,
             any |-> EventsInAll]

(* Each setting takes each value, beside more than one of the others.      *)
Page(s, o, a, f) ==
    [Empty EXCEPT !.sched = s, !.on = o, !.auto = a, !.format = f]
MCForms == {Page("daily", "yes", "yes", "m4b"), Page("daily", "no", "no", "mp3"),
            Page("", "yes", "no", "m4b")}

(* A backup of an installation that users sign in to, one of an            *)
(* installation that was just set up, and one where the first user is      *)
(* still to come by single sign-on.                                        *)
InUse == [method |-> "forms", sched |-> "daily", on |-> "no", auto |-> "yes",
          format |-> "mp3", id |-> 0, user |-> TRUE, required |-> "enabled",
          onboarded |-> TRUE, sso |-> FALSE, client |-> TRUE]
MCBackups == {InUse, [Empty EXCEPT !.method = "none", !.required = "localhost"],
              [InUse EXCEPT !.user = FALSE, !.sso = TRUE]}

(* The database of a version that knew of no access modes.                 *)
MCBefores == {[InUse EXCEPT !.user = FALSE, !.method = "", !.required = "", !.on = "yes"]}

Same == Permutations({r1, r2})
=============================================================================
