---------------------------- MODULE MCReminders -----------------------------
(***************************************************************************)
(* An instance of Reminders for TLC.                                       *)
(***************************************************************************)
EXTENDS Reminders, TLC

Symmetry == Permutations(Instances) \cup Permutations(Blocks) \cup Permutations(Browsers)

=============================================================================
