--------------------------- MODULE MCVoiceSession ---------------------------
(* Two commands, an edit of a stored row and a create, and a day plan of one
   create.  A group of one delete and a plan both take two ids. *)
EXTENDS VoiceSession

MCTargetOf == [o \in Ops |-> IF o = "edit" THEN "row" ELSE NoEntity]
=============================================================================
