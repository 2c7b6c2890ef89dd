------------------------------- MODULE MCLobby -------------------------------
(***************************************************************************)
(* Lobby on a small instance.                                              *)
(***************************************************************************)
EXTENDS Lobby, TLC

(* Players are interchangeable.                                             *)
Symmetry == Permutations(Users)

(* One thing goes wrong in a behaviour.  A lookup can only fail on a ticket *)
(* that a restart has put out of the cache, so that is allowed on top.      *)
OneTrouble == faults + crashes + restarts <= IF missing = {} THEN 1 ELSE 2
==============================================================================
