--------------------------- MODULE MCLibraryScan ---------------------------
(* Scans beside the pipeline on small instances; see README.md.            *)
EXTENDS LibraryScan

CONSTANTS b1, b2, d1, x1, p1
CONSTANTS Pauses, Cancels, Crashes, Stops

MCBudget == [pause |-> Pauses, cancel |-> Cancels, crash |-> Crashes, stop |-> Stops]
=============================================================================
