--------------------------- MODULE MCGoogleOutbox ---------------------------
(***************************************************************************)
(* Instances of GoogleOutbox for TLC.                                      *)
(***************************************************************************)
EXTENDS GoogleOutbox, TLC

Symmetry == Permutations(OutboxTasks)

=============================================================================
