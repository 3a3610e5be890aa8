--------------------------- MODULE MCLibrarySync ---------------------------
(* The library sync on small instances; see README.md.                     *)
EXTENDS LibrarySync

CONSTANTS b1, b2, u1
CONSTANTS Fetches, DbFaults, Scans, ServerFaults, Shelves, Flips, Removals,
          Queues, Crashes, EventsInAll

(* One account lists both books, the first only one of them.               *)
MCShelf == [a \in Accounts |-> IF a = 1 THEN {b1} ELSE Books]

MCBudget == [fetch |-> Fetches, db |-> DbFaults, scan |-> Scans,
             server |-> ServerFaults, shelf |-> Shelves, flip |-> Flips,
             remove |-> Removals, queue |-> Queues, crash |-> Crashes,
             any |-> EventsInAll]
=============================================================================
