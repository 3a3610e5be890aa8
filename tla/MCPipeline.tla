----------------------------- MODULE MCPipeline -----------------------------
(* The pipeline on small instances; see README.md for the bounds.          *)
EXTENDS Pipeline, TLC

CONSTANTS b1, b2, d1, d2, x1, p1, p2
CONSTANTS Pauses, Cancels, Crashes, Stops

MCBudget == [pause |-> Pauses, cancel |-> Cancels, crash |-> Crashes, stop |-> Stops]

Symmetry == Permutations(DownloadWorkers)
=============================================================================
