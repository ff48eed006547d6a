---------------------------- MODULE MCTaskCreate ----------------------------
(***************************************************************************)
(* TaskCreate for TLC: the form and createFromPayload, two contents.       *)
(***************************************************************************)
EXTENDS TaskCreate
=============================================================================
