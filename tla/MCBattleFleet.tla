--------------------------- MODULE MCBattleFleet ---------------------------
(* Instances of BattleFleet: one agent with a small range of ports, one     *)
(* other server and the local placeholder.                                  *)
EXTENDS BattleFleet, TLC

CapacityOne == [s \in Servers \cup {Local} |-> IF s = Agent THEN PortMax - PortMin + 1 ELSE 1]
(* One thing goes wrong at a time: an RPC, or a process.                    *)
OneTrouble == faults + crashes <= 1
Symmetry == Permutations(Matches) \cup Permutations(Slots)
=============================================================================
