--------------------------- MODULE MCHearthShelf ---------------------------
(* HearthShelf on small instances; see README.md.                          *)
EXTENDS HearthShelf

CONSTANTS s1, s2, p1, p2, e1, c1
CONSTANTS NetFaults, DbFaults, Crashes, Edits, Connects, Revocations,
          NoKeys, NoLifetimes, NoTokens, EventsInAll

MCBudget == [net |-> NetFaults, db |-> DbFaults, crash |-> Crashes,
             edit |-> Edits, connect |-> Connects, revoke |-> Revocations,
             nokey |-> NoKeys, nolife |-> NoLifetimes, notoken |-> NoTokens,
             any |-> EventsInAll]
=============================================================================
