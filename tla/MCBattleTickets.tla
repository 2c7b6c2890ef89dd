--------------------------- MODULE MCBattleTickets ---------------------------
(***************************************************************************)
(* BattleTickets on a small instance.                                      *)
(***************************************************************************)
EXTENDS BattleTickets, TLC

(* Lobbies, users and endpoints are interchangeable.                        *)
Symmetry == Permutations(Lobbies) \cup Permutations(Users) \cup Permutations(Endpoints)
==============================================================================
