----------------------------- MODULE MCUserLock -----------------------------
(***************************************************************************)
(* An instance of UserLock for TLC.                                        *)
(***************************************************************************)
EXTENDS UserLock

\* Two users whose lock names hash to one key.
TwoShareAKey == [u \in Users |-> CHOOSE k \in Keys : TRUE]

\* Users with one key, and processes, are interchangeable: one call is taken
\* to be of one fixed user in one fixed process. (Symmetry sets of TLC are not
\* sound for the liveness properties of the run.)
InitOneFixed ==
    /\ Init
    /\ LET c == CHOOSE c \in Calls : TRUE
       IN  /\ call[c].user = CHOOSE u \in Users : TRUE
           /\ call[c].process = CHOOSE p \in Processes : TRUE

SpecOneFixed == InitOneFixed /\ [][Next]_vars /\ Fairness

=============================================================================
