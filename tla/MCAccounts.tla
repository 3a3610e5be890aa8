----------------------------- MODULE MCAccounts -----------------------------
(* Accounts on small instances; see README.md.                             *)
EXTENDS Accounts, TLC

CONSTANTS r1, r2, uk, us
CONSTANTS Adds, Removes, Regions, Selects, Setups, Starts, Wizards, Callbacks, Failures,
          Restarts, EventsInAll

MCBudget == [add |-> Adds, remove |-> Removes, region |-> Regions, market |-> Selects,
             setup |-> Setups, start |-> Starts, wizard |-> Wizards,
             callback |-> Callbacks, fail |-> Failures, restart |-> Restarts,
             any |-> EventsInAll]

Same == Permutations({r1, r2}) \cup Permutations({uk, us})
=============================================================================
