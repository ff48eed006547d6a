-------------------------- MODULE MCMutationQueue --------------------------
(***************************************************************************)
(* Instances of MutationQueue for TLC: the kinds of job a run begins, and  *)
(* the symmetry of the safety runs.                                        *)
(***************************************************************************)
EXTENDS MutationQueue, TLC

FencedKinds == {"place", "sync", "unknown"}
MoveKind == {"move"}

Symmetry == Permutations(Jobs) \cup Permutations(Flows)

=============================================================================
