------------------------------ MODULE JobQueue ------------------------------
(***************************************************************************)
(* What the download queue promises: tickets that are opened, held by one  *)
(* owner at a time while they are worked on, settled by that owner and     *)
(* never again, and that survive the loss of their owners.                 *)
(***************************************************************************)
CONSTANTS Tickets
VARIABLES state, worked     \* the tickets somebody is working on

vars == <<state, worked>>
Final == {"complete", "failed"}

Init == state = [t \in Tickets |-> "none"] /\ worked = {}

Submit(t) ==
    /\ state[t] = "none"
    /\ state' = [state EXCEPT ![t] = "open"]
    /\ UNCHANGED worked

(* Only an open ticket is taken, so that no two owners work on it.         *)
Claim(t) ==
    /\ state[t] = "open" /\ t \notin worked
    /\ state' = [state EXCEPT ![t] = "held"]
    /\ worked' = worked \cup {t}

(* The owner gives a ticket back.                                          *)
Yield(t) ==
    /\ state[t] = "held" /\ t \in worked
    /\ state' = [state EXCEPT ![t] = "open"]
    /\ worked' = worked \ {t}

(* The owner settles it.                                                   *)
Settle(t) ==
    /\ state[t] = "held" /\ t \in worked
    /\ \E s \in Final : state' = [state EXCEPT ![t] = s]
    /\ worked' = worked \ {t}

(* Owners disappear: one of them (a cancelled stage, a write refused at    *)
(* shutdown) or all (a crash, a stopped pool).                             *)
Lose ==
    /\ \E gone \in SUBSET worked : worked' = worked \ gone
    /\ UNCHANGED state

(* Open tickets are withdrawn.                                             *)
Withdraw ==
    /\ \E out \in SUBSET {t \in Tickets : state[t] = "open"} :
          state' = [t \in Tickets |-> IF t \in out THEN "cancelled" ELSE state[t]]
    /\ UNCHANGED worked

(* Failed tickets are replaced by fresh ones.                              *)
Resubmit ==
    /\ \E old \in SUBSET {t \in Tickets : state[t] = "failed"},
          new \in SUBSET {t \in Tickets : state[t] = "none"} :
          /\ old # {} /\ new # {}
          /\ state' = [t \in Tickets |-> IF t \in old THEN "cancelled"
                                         ELSE IF t \in new THEN "open" ELSE state[t]]
    /\ UNCHANGED worked

(* A failed ticket is struck off: what it asked for has been done.         *)
StrikeOff(t) ==
    /\ state[t] = "failed"
    /\ state' = [state EXCEPT ![t] = "cancelled"]
    /\ UNCHANGED worked

(* With every owner gone, held tickets are open again.                     *)
Recover ==
    /\ worked = {}
    /\ state' = [t \in Tickets |-> IF state[t] = "held" THEN "open" ELSE state[t]]
    /\ UNCHANGED worked

Reset == worked = {} /\ state' = [t \in Tickets |-> "none"] /\ UNCHANGED worked

Next ==
    \/ \E t \in Tickets :
          Submit(t) \/ Claim(t) \/ Yield(t) \/ Settle(t) \/ StrikeOff(t)
    \/ Lose \/ Withdraw \/ Resubmit \/ Recover \/ Reset

Spec == Init /\ [][Next]_vars
=============================================================================
