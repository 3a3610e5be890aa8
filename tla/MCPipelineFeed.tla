--------------------------- MODULE MCPipelineFeed ---------------------------
(* PipelineFeed on a small instance; see README.md.                        *)
EXTENDS PipelineFeed

CONSTANTS b1, d1, d2, e1, p1, k1
CONSTANTS Queues, Fails, Cancels, Converts, Stops, Leaves, EventsInAll

MCBudget == [queue |-> Queues, fail |-> Fails, cancel |-> Cancels, convert |-> Converts,
             stop |-> Stops, leave |-> Leaves, any |-> EventsInAll]
=============================================================================
