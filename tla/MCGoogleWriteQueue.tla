------------------------ MODULE MCGoogleWriteQueue ------------------------
(***************************************************************************)
(* An instance of GoogleWriteQueue for TLC.  The run checks liveness, so   *)
(* the workers are not a symmetry set.                                     *)
(***************************************************************************)
EXTENDS GoogleWriteQueue

\* The account is linked at first: one that is not is as one that was
\* disconnected before anything else happened.
InitLinked == Init /\ grant = "linked"

SpecLinked == InitLinked /\ [][Next]_vars /\ Fairness

=============================================================================
