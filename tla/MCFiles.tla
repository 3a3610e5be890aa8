------------------------------ MODULE MCFiles ------------------------------
(* Files on small instances; see README.md.                                *)
EXTENDS Files

CONSTANTS b1, n1, n2, k1, k2, r1, e1, t1, s1, q1
CONSTANTS Converts, Reorganizes, Erases, Retags, Resyncs, Scans, Renames, Cancels,
          Failures, DbFaults, Crashes, EventsInAll

MCBudget == [convert |-> Converts, reorganize |-> Reorganizes, erase |-> Erases,
             retag |-> Retags, resync |-> Resyncs,
             scan |-> Scans, rename |-> Renames, cancel |-> Cancels,
             fail |-> Failures, db |-> DbFaults, crash |-> Crashes,
             any |-> EventsInAll]
=============================================================================
