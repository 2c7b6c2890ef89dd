---------------------------- MODULE TicketLedger ----------------------------
(***************************************************************************)
(* What the battle tickets of Gensoulkyo promise, whatever lobby process   *)
(* serves a request: a ticket is issued once, is then either granted or    *)
(* retired, once and for good, and at most one caller is told that its     *)
(* consume was the fresh one.                                              *)
(***************************************************************************)
EXTENDS Integers

CONSTANT Tickets

VARIABLES
    stage,   \* where each ticket stands
    fresh    \* how many callers were told their consume is not a duplicate

vars == <<stage, fresh>>

Init ==
    /\ stage = [t \in Tickets |-> "unused"]
    /\ fresh = [t \in Tickets |-> 0]

Issue(t) ==
    /\ stage[t] = "unused"
    /\ stage' = [stage EXCEPT ![t] = "issued"]
    /\ UNCHANGED fresh

(* The answer to the caller may be lost; it is never given twice.           *)
Grant(t) ==
    /\ stage[t] = "issued"
    /\ stage' = [stage EXCEPT ![t] = "granted"]
    /\ \/ fresh' = [fresh EXCEPT ![t] = 1]
       \/ UNCHANGED fresh

(* Expired or revoked; one statement may retire many tickets.               *)
Retire(ts) ==
    /\ \A t \in ts : stage[t] = "issued"
    /\ stage' = [t \in Tickets |-> IF t \in ts THEN "retired" ELSE stage[t]]
    /\ UNCHANGED fresh

Next ==
    \/ \E t \in Tickets : Issue(t) \/ Grant(t)
    \/ \E ts \in SUBSET Tickets : Retire(ts)

Spec == Init /\ [][Next]_vars
=============================================================================
