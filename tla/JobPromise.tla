----------------------------- MODULE JobPromise -----------------------------
(***************************************************************************)
(* What the durable mutation queue promises the client that polls          *)
(* GET /schedule-jobs/:id: an accepted job is open until it gets exactly   *)
(* one final answer, that answer never changes, and it does come.  The     *)
(* row may disappear only after the answer (the 7-day retention).          *)
(***************************************************************************)

CONSTANTS Jobs

VARIABLE answer

Answers == {"none", "open", "done", "failed", "purged"}

TypeOK == answer \in [Jobs -> Answers]

\* A job may have been accepted before this process booted.
Init == answer \in [Jobs -> {"none", "open"}]

\* The mutation and its job row commit.
Accept(j) ==
    /\ answer[j] = "none"
    /\ answer' = [answer EXCEPT ![j] = "open"]

\* The one final answer.
Decide(j) ==
    /\ answer[j] = "open"
    /\ \E a \in {"done", "failed"} : answer' = [answer EXCEPT ![j] = a]

Forget(j) ==
    /\ answer[j] \in {"done", "failed"}
    /\ answer' = [answer EXCEPT ![j] = "purged"]

Next == \E j \in Jobs : Accept(j) \/ Decide(j) \/ Forget(j)

Safety == Init /\ [][Next]_answer

Spec == Safety /\ \A j \in Jobs : WF_answer(Decide(j))

=============================================================================
