----------------------------- MODULE TaskCreate -----------------------------
(***************************************************************************)
(* One user's creates: the keys the browser gives them                     *)
(* (utils/requestKey.ts, useEventEditor.tsx) and what the server makes of  *)
(* a key (create and replayCreate in tasks.service.ts), with the deletion   *)
(* of a task, of old keys and of the whole account beside them.            *)
(*                                                                         *)
(* A task and the record of its key are named by the request that made     *)
(* them; a key is a slot of the browser and a number.  Answers are          *)
(* delivered or lost, requests die with their process, and the user lock    *)
(* may be lost while its work runs (UserLock says when).                    *)
(***************************************************************************)
EXTENDS Naturals

CONSTANTS Requests,       \* numbered in the order they are sent
          NoRequest,
          Slots, NoSlot,  \* where keys live: the editor's form, createFromPayload
          Forms,          \* the slots that are a form: one send at a time
          Bodies, NoBody,
          MaxOpens,       \* bound: times a form is opened
          MaxLapses,      \* bound: keys that grow older than the retention window
          MaxLost         \* bound: times the lock is lost, and requests that die

ASSUME RequestsAssumption == Requests \subseteq Nat /\ NoRequest \notin Requests
ASSUME NoBodyAssumption == NoBody \notin Bodies /\ NoSlot \notin Slots
ASSUME FormsAssumption == Forms \subseteq Slots
ASSUME BoundsAssumption == MaxOpens \in Nat /\ MaxLapses \in Nat /\ MaxLost \in Nat

VARIABLES slot,     \* [Slots -> Slot], the SubmissionKey refs
          request,  \* [Requests -> Request]
          tasks,    \* the tasks that exist
          records,  \* rows of request_idempotency
          lapsed,   \* records whose retention has passed, purged or not
          made,     \* every task a transaction committed
          lock,     \* the request that has the user lock
          account,  \* the user's row exists
          wipe,     \* the transaction that deletes the account
          spent     \* the bounds used so far

vars == <<slot, request, tasks, records, lapsed, made, lock, account, wipe, spent>>

\* sent: the body the key was last sent with; last: the last request sent
\* (a form: since it was opened).
Slot == [open : BOOLEAN, key : Nat, sent : Bodies \cup {NoBody}, last : Requests \cup {NoRequest}]

\* "sent": before the first look for its key; "queued": for the user lock;
\* "inside": before the second look; "saving": before its transaction;
\* "again": the unique index refused it; "done": it has an answer.
Working == {"sent", "queued", "inside", "saving", "again"}
Answers == {"none", "task", "gone", "refused", "error"}
Request == [pc : Working \cup {"unsent", "done", "dead"}, slot : Slots \cup {NoSlot},
            key : Nat, body : Bodies \cup {NoBody},
            answer : Answers, task : Requests \cup {NoRequest},
            heard : {"none", "waiting", "ok", "gone", "failed"}]

\* at: what the transaction has deleted so far; records, tasks: the rows its
\* deletes found, which others see until it commits; during: the creates that
\* committed since it began (a history, which no action reads).
WipeState == [at : {"none", "records", "tasks"}, records : SUBSET Requests, tasks : SUBSET Requests,
         during : SUBSET Requests]
NoWipe == [at |-> "none", records |-> {}, tasks |-> {}, during |-> {}]

TypeOK ==
    /\ slot \in [Slots -> Slot]
    /\ request \in [Requests -> Request]
    /\ tasks \subseteq Requests /\ records \subseteq Requests
    /\ lapsed \subseteq Requests /\ made \subseteq Requests
    /\ lock \in Requests \cup {NoRequest}
    /\ account \in BOOLEAN
    /\ wipe \in WipeState
    /\ spent \in [opens : Nat, lapses : Nat, lost : Nat]

Unsent == [pc |-> "unsent", slot |-> NoSlot, key |-> 0, body |-> NoBody,
           answer |-> "none", task |-> NoRequest, heard |-> "none"]

Init ==
    /\ slot = [s \in Slots |-> [open |-> s \notin Forms, key |-> 1,
                                sent |-> NoBody, last |-> NoRequest]]
    /\ request = [r \in Requests |-> Unsent]
    /\ tasks = {} /\ records = {} /\ lapsed = {} /\ made = {}
    /\ lock = NoRequest
    /\ account = TRUE
    /\ wipe = NoWipe
    /\ spent = [opens |-> 0, lapses |-> 0, lost |-> 0]

-----------------------------------------------------------------------------
(* The browser. *)

Is(r, pc) == request[r].pc = pc
SameKey(q, r) == request[q].slot = request[r].slot /\ request[q].key = request[r].key
SameBody(q, r) == request[q].body = request[r].body

\* isSubmitting of the form.
Submitting(s) == \E r \in Requests : request[r].slot = s /\ request[r].heard = "waiting"

\* newRequestKey, in a slot.
Fresh(s) == [slot[s] EXCEPT !.key = @ + 1, !.sent = NoBody]

\* openCreate, openCreateFromPrefill: an opened form has a key of its own, also
\* while an earlier send of the form is under way.
Open(s) ==
    /\ s \in Forms /\ spent.opens < MaxOpens
    /\ slot' = [slot EXCEPT ![s] = [Fresh(s) EXCEPT !.open = TRUE, !.last = NoRequest]]
    /\ spent' = [spent EXCEPT !.opens = @ + 1]
    /\ UNCHANGED <<request, tasks, records, lapsed, made, lock, account, wipe>>

\* keyForSubmission.
KeyFor(s, b) == IF slot[s].sent \in {NoBody, b} THEN slot[s].key ELSE slot[s].key + 1

\* submit of the form, createFromPayload.
Send(s, r, b) ==
    /\ Is(r, "unsent") /\ \A q \in Requests : q < r => ~Is(q, "unsent")
    /\ slot[s].open
    /\ s \in Forms => ~Submitting(s)
    /\ slot' = [slot EXCEPT ![s].key = KeyFor(s, b), ![s].sent = b, ![s].last = r]
    /\ request' = [request EXCEPT ![r] = [Unsent EXCEPT !.pc = "sent", !.slot = s, !.body = b,
                                                        !.key = KeyFor(s, b), !.heard = "waiting"]]
    /\ UNCHANGED <<tasks, records, lapsed, made, lock, account, wipe, spent>>

\* The answer arrives: a success closes the form, or frees the payload's key;
\* "gone" (410) spends the key of the slot; any other keeps it.
Hear(r) ==
    /\ request[r].heard = "waiting" /\ Is(r, "done")
    /\ LET s == request[r].slot
           a == request[r].answer IN
       /\ request' = [request EXCEPT ![r].heard = CASE a = "task" -> "ok"
                                                    [] a = "gone" -> "gone"
                                                    [] OTHER -> "failed"]
       /\ slot' = [slot EXCEPT ![s] =
                     CASE a = "task" /\ s \in Forms -> [@ EXCEPT !.open = FALSE]
                       [] a = "task" /\ s \notin Forms -> Fresh(s)
                       [] a = "gone" -> Fresh(s)
                       [] OTHER -> @]
    /\ UNCHANGED <<tasks, records, lapsed, made, lock, account, wipe, spent>>

\* The connection fails: the browser does not know what became of it.
Unheard(r) ==
    /\ request[r].heard = "waiting"
    /\ request' = [request EXCEPT ![r].heard = "failed"]
    /\ UNCHANGED <<slot, tasks, records, lapsed, made, lock, account, wipe, spent>>

-----------------------------------------------------------------------------
(* The server. *)

\* Slip: the record is looked for by its user alone.
NamedByUser(r) == records \ lapsed

\* The record of a request's key, after replayCreate has purged the old ones.
Named(r) == {q \in records \ lapsed : SameKey(q, r)}

\* replayCreate, once a record is found: whose body, and is its task there.
Verdict(r, q) ==
    IF ~SameBody(q, r) THEN "refused" ELSE IF q \in tasks THEN "task" ELSE "gone"

Unlocked(r) == IF lock = r THEN NoRequest ELSE lock

\* replayCreate at pc from: an answer, or on to pc to.  Between its reads only
\* the task may go, and it answers as if the task had gone before.
Replay(r, from, to) ==
    /\ Is(r, from)
    /\ records' = records \ lapsed
    /\ \/ /\ Named(r) = {}
          /\ request' = [request EXCEPT ![r].pc = to]
          /\ lock' = lock
       \/ \E q \in Named(r) :
            /\ request' = [request EXCEPT ![r].pc = "done", ![r].answer = Verdict(r, q),
                                          ![r].task = IF Verdict(r, q) = "task" THEN q ELSE NoRequest]
            /\ lock' = Unlocked(r)
    /\ UNCHANGED <<slot, tasks, lapsed, made, account, wipe, spent>>

\* create before the lock: the first look for the key, then reads of settings
\* and phases that change nothing.
Look(r) == Replay(r, "sent", "queued")

\* runExclusive.
Enter(r) ==
    /\ Is(r, "queued") /\ lock = NoRequest
    /\ lock' = r
    /\ request' = [request EXCEPT ![r].pc = "inside"]
    /\ UNCHANGED <<slot, tasks, records, lapsed, made, account, wipe, spent>>

\* The second look, under the lock.
LookAgain(r) == Replay(r, "inside", "saving")

\* The unique index on user, operation and key; it sees old rows too.
Taken(r) == \E q \in records : SameKey(q, r)

\* The row in the way is one the wipe has deleted: the insert waits for its end.
Waits(r) == \E q \in records \cap wipe.records : SameKey(q, r)

\* Slip: tasks do not refer to their user's row.
AlwaysThere == TRUE

\* The foreign key of tasks.userId.
UserThere == account

\* Answered without a task.
Refuse(r, a) == request' = [request EXCEPT ![r].pc = "done", ![r].answer = a]

\* The transaction: task, record and job, or none of them.
Save(r) ==
    /\ Is(r, "saving")
    /\ lock' = Unlocked(r)
    /\ \/ /\ UserThere /\ ~Taken(r)
          /\ tasks' = tasks \cup {r} /\ records' = records \cup {r} /\ made' = made \cup {r}
          /\ request' = [request EXCEPT ![r].pc = "done", ![r].answer = "task", ![r].task = r]
          /\ wipe' = IF wipe.at = "none" THEN wipe ELSE [wipe EXCEPT !.during = @ \cup {r}]
       \/ /\ UserThere /\ Taken(r) /\ ~Waits(r)
          /\ request' = [request EXCEPT ![r].pc = "again"]
          /\ UNCHANGED <<tasks, records, made, wipe>>
       \/ /\ Refuse(r, "error")    \* the database fails, or the user is gone
          /\ UNCHANGED <<tasks, records, made, wipe>>
    /\ UNCHANGED <<slot, lapsed, account, spent>>

\* The unique violation is caught: whoever took the key answers.
AfterConflict(r) ==
    /\ Is(r, "again")
    /\ records' = records \ lapsed
    /\ \/ /\ Named(r) = {} /\ Refuse(r, "error")
       \/ \E q \in Named(r) :
            request' = [request EXCEPT ![r].pc = "done", ![r].answer = Verdict(r, q),
                                       ![r].task = IF Verdict(r, q) = "task" THEN q ELSE NoRequest]
    /\ UNCHANGED <<slot, tasks, lapsed, made, lock, account, wipe, spent>>

-----------------------------------------------------------------------------
(* What happens beside it. *)

\* Slip: the record goes with the task it names.
KeyFreed(q) == records \ {q}

\* remove: the record of a task outlives it.
KeyAfter(q) == records

\* remove: the user deletes a task.
Remove(q) ==
    /\ q \in tasks
    /\ tasks' = tasks \ {q}
    /\ records' = KeyAfter(q)
    /\ UNCHANGED <<slot, request, lapsed, made, lock, account, wipe, spent>>

\* Thirty days after a record was made.
Lapse(q) ==
    /\ q \in records \ lapsed /\ spent.lapses < MaxLapses
    /\ lapsed' = lapsed \cup {q}
    /\ spent' = [spent EXCEPT !.lapses = @ + 1]
    /\ UNCHANGED <<slot, request, tasks, records, made, lock, account, wipe>>

\* The session of the lock is lost; its work goes on.
LoseLock ==
    /\ lock # NoRequest /\ spent.lost < MaxLost
    /\ lock' = NoRequest
    /\ spent' = [spent EXCEPT !.lost = @ + 1]
    /\ UNCHANGED <<slot, request, tasks, records, lapsed, made, account, wipe>>

\* The process of a request dies; its session and its transaction with it.
Die(r) ==
    /\ request[r].pc \in Working /\ spent.lost < MaxLost
    /\ request' = [request EXCEPT ![r].pc = "dead"]
    /\ lock' = Unlocked(r)
    /\ spent' = [spent EXCEPT !.lost = @ + 1]
    /\ UNCHANGED <<slot, tasks, records, lapsed, made, account, wipe>>

\* wipeLocalData, one READ COMMITTED transaction without the user lock: it
\* deletes the records it finds,
WipeRecords ==
    /\ account /\ wipe.at = "none"
    /\ wipe' = [NoWipe EXCEPT !.at = "records", !.records = records]
    /\ UNCHANGED <<slot, request, tasks, records, lapsed, made, lock, account, spent>>

\* then the tasks it finds,
WipeTasks ==
    /\ wipe.at = "records"
    /\ wipe' = [wipe EXCEPT !.at = "tasks", !.tasks = tasks]
    /\ UNCHANGED <<slot, request, tasks, records, lapsed, made, lock, account, spent>>

\* The foreign key of tasks.userId again: no task is left that refers to the user.
NoTaskRefers == tasks \subseteq wipe.tasks

\* then the user, and commits.
WipeUser ==
    /\ wipe.at = "tasks" /\ NoTaskRefers
    /\ account' = FALSE
    /\ tasks' = tasks \ wipe.tasks /\ records' = records \ wipe.records
    /\ wipe' = [NoWipe EXCEPT !.during = wipe.during]
    /\ UNCHANGED <<slot, request, lapsed, made, lock, spent>>

\* A task made since refers to the user, a deadlock, the database or the
\* process fails: the wipe is undone.
WipeFails ==
    /\ wipe.at # "none"
    /\ wipe' = NoWipe
    /\ UNCHANGED <<slot, request, tasks, records, lapsed, made, lock, account, spent>>

Next ==
    \/ \E s \in Slots : Open(s) \/ \E r \in Requests, b \in Bodies : Send(s, r, b)
    \/ \E r \in Requests : Look(r) \/ Enter(r) \/ LookAgain(r) \/ Save(r) \/ AfterConflict(r)
                            \/ Hear(r) \/ Unheard(r) \/ Remove(r) \/ Lapse(r) \/ Die(r)
    \/ LoseLock
    \/ WipeRecords \/ WipeTasks \/ WipeUser \/ WipeFails

Spec == Init /\ [][Next]_vars

-----------------------------------------------------------------------------

\* However often an operation is sent, by retries, by tries that run side by
\* side, with the lock or without, before its task was deleted or after: one
\* key makes one task, until its record is older than the retention window.
OneTaskPerKey ==
    \A q, r \in made : SameKey(q, r) /\ q # r => q \in lapsed \/ r \in lapsed

\* A create answers with the task its own operation made, from the content it
\* sent, never with the task of another form.
AnswerIsOwn ==
    \A r \in Requests : request[r].answer = "task" =>
        LET q == request[r].task IN q \in made /\ SameKey(q, r) /\ SameBody(q, r)

\* The browser never sends one key with two contents: keyForSubmission and the
\* server's 422 never meet.
NeverRefused == \A r \in Requests : request[r].answer # "refused"

\* Every answer fits its request: a task is its own, and nothing is refused.
AnswersFit == AnswerIsOwn /\ NeverRefused

\* A deleted account has no task, and no create that was on its way brings one
\* back.  The only keys left are of creates that committed while the deletion
\* was under way (after it had deleted the keys, before it deleted the tasks).
WipedStaysEmpty == ~account => tasks = {} /\ records \subseteq wipe.during

\* A send with the content of the last send of its slot (of this opening of the
\* form), which has not succeeded, is a retry: it has the key of that send.
RetryKeepsKey(S) ==
    \A s \in S, r \in Requests :
        LET l == slot[s].last IN
        /\ l # NoRequest
        /\ slot'[s].last = r /\ r # l
        /\ request[l].heard \notin {"ok", "gone"}
        /\ request'[r].body = request[l].body
        => request'[r].key = request[l].key

\* Save pressed again in a form after an error or a lost answer.
FormRetryKeepsKey == [][RetryKeepsKey(Forms)]_vars

\* The comment on createFromPayload: a retry of the same payload keeps its key.
PayloadRetryKeepsKey == [][RetryKeepsKey(Slots \ Forms)]_vars
=============================================================================
