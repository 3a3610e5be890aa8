---------------------------- MODULE MCDelivery ----------------------------
(* Delivery on small instances; see README.md.                             *)
EXTENDS Delivery

CONSTANTS b1, b2, b3
CONSTANTS NetFaults, Timeouts, DbFaults, Cancels, Crashes, EventsInAll

(* Each backend by itself, and two at once.                                *)
MCLayouts ==
    {[d \in Dests |-> IF d = 1 THEN k ELSE "off"] : k \in Kinds \ {"off"}}
    \cup {[d \in Dests |-> IF d = 1 THEN "plex" ELSE "jellyfin"]}

MCBudget == [net |-> NetFaults, time |-> Timeouts, db |-> DbFaults,
             cancel |-> Cancels, crash |-> Crashes, any |-> EventsInAll]

(* Two books have one title, which contains the third's.                   *)
MCTitle  == [b \in Books |-> IF b = b3 THEN 2 ELSE 1]
MCWithin == [b \in Books |-> IF b = b3 THEN {b1, b2} ELSE {}]
=============================================================================
