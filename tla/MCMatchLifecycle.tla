-------------------------- MODULE MCMatchLifecycle --------------------------
(***************************************************************************)
(* MatchLifecycle on a small instance.                                     *)
(***************************************************************************)
EXTENDS MatchLifecycle, TLC

(* Players, matches and result hashes are interchangeable.                  *)
Symmetry == Permutations(Players) \cup Permutations(Hashes) \cup Permutations(Matches)

(* For the run about rematches: the matches that come of a rematch are left *)
(* alone, so that the requests for the first match are explored in full.    *)
RematchesIdle ==
    \A m \in Matches : parent[m] # NoMatch =>
       /\ status[m] = "loading"
       /\ ready[m] = {}
       /\ ~bound[m]
       /\ \A p \in Players : dropAge[m][p] = Unset
=============================================================================
