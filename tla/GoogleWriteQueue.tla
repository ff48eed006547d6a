-------------------------- MODULE GoogleWriteQueue --------------------------
(***************************************************************************)
(* Google writes of one user: the upsert rows of pending_google_writes, the *)
(* transactions that record them (google-sync-outbox), the workers that     *)
(* send them (pending-google-write.service) and the reconnect listener.     *)
(*                                                                         *)
(* A task's content is the number of its latest change, or 0 when it has no *)
(* event: it is parked or canceled.  Google holds the content it was last   *)
(* told, and the task stores an event id while that is not 0.  Edits made   *)
(* inside Google are not modelled.                                         *)
(* connected() remembers its answer for minutes in every process, and a     *)
(* revoked grant passes it until the access token expires: a worker may act *)
(* on either answer at any time.                                            *)
(***************************************************************************)
EXTENDS Naturals

CONSTANTS Tasks,        \* tasks of the user
          NoTask,       \* the task of an idle worker
          Workers,      \* senders that can be at work at a time, any process
          MaxAttempts,  \* GOOGLE_WRITE_MAX_ATTEMPTS (8 in the code)
          MaxEdits,     \* bound: edits per task
          MaxSyncs,     \* bound: calls of syncTask
          MaxGrants,    \* bound: changes of the grant
          MaxCrashes,   \* bound: processes that die
          MaxStalls,    \* bound: living workers that lose their lease
          SlowCommit,   \* may a reconnect overtake an edit that is committing?
          SlowSweep     \* may a sweep claim a row it read before the attempts
                        \* were reset and another worker claimed it again?

ASSUME NoTaskAssumption == NoTask \notin Tasks
ASSUME BoundsAssumption ==
    /\ MaxAttempts \in Nat \ {0}
    /\ MaxEdits \in Nat /\ MaxSyncs \in Nat /\ MaxGrants \in Nat
    /\ MaxCrashes \in Nat /\ MaxStalls \in Nat
    /\ SlowCommit \in BOOLEAN /\ SlowSweep \in BOOLEAN

VARIABLES row,      \* [Tasks -> Row], the upsert row of each task
          seated,   \* tasks that recur or have a scheduled end, past or future
          local,    \* [Tasks -> Nat], the committed content
          google,   \* [Tasks -> Nat], what Google shows
          unnoted,  \* tasks with an open transaction that found no grant
          grant,    \* "linked", "revoked" (tokens kept, refused) or "none"
          listener, \* the reconnect listener: "rest", "find", "reconcile", "revive"
          todo,     \* tasks the listener still has to record
          bumped,   \* the row it bumped and has not yet reopened
          worker,   \* [Workers -> Worker]
          spent,    \* the bounds used so far
          hist      \* for the properties only: [Tasks -> Hist]

vars == <<row, seated, local, google, unnoted, grant, listener, todo, bumped,
          worker, spent, hist>>
data == <<seated, local, google, unnoted>>
link == <<grant, listener, todo, bumped>>

\* id: the row's uuid; a sent row is deleted and the next one has a new id.
\* tried is for the properties only: the content of the attempt that failed for
\* good.
Row == [status : {"none", "pending", "running", "failed"}, id : Nat,
        attempts : Nat, revision : Nat, due : BOOLEAN,
        lease : {"null", "live", "expired"}, tried : Nat]
NoRow == [status |-> "none", id |-> 0, attempts |-> 0, revision |-> 0,
          due |-> FALSE, lease |-> "null", tried |-> 0]

\* "found": the row as read; "claimed": the CAS won; "sending": the task was
\* read; "sent" / "broken": Google answered / the call failed; "requeue" and
\* "renew": the second statement of an outcome; "reopen": recordGoogleWrite
\* outside a transaction, after its bump.
Sending == {"claimed", "sending", "sent", "broken", "requeue", "renew"}
PCs == {"idle", "found", "reopen"} \cup Sending

\* seen: what a claim compares of the row as read, attempts replaced by the
\* claimed number; content: the task as read.
Worker == [pc : PCs, task : Tasks \cup {NoTask}, seen : Row, content : Nat]
AtRest == [pc |-> "idle", task |-> NoTask, seen |-> NoRow, content |-> 0]

\* No row, or a task with the id its row had.
Bumped == [task : Tasks \cup {NoTask}, id : Nat]
NoBump == [task |-> NoTask, id |-> 0]

Spent == [edits : [Tasks -> Nat], syncs : Nat, grants : Nat, crashes : Nat, stalls : Nat]

Hist == [away      : BOOLEAN,   \* its latest change found no grant: no row
         missed    : BOOLEAN,   \* the reconnect left it at that
         overtaken : BOOLEAN]   \* an outcome was written over a newer claim

TypeOK ==
    /\ row \in [Tasks -> Row]
    /\ seated \subseteq Tasks
    /\ local \in [Tasks -> Nat] /\ google \in [Tasks -> Nat]
    /\ unnoted \subseteq Tasks
    /\ grant \in {"linked", "revoked", "none"}
    /\ listener \in {"rest", "find", "reconcile", "revive"}
    /\ todo \subseteq Tasks /\ bumped \in Bumped
    /\ worker \in [Workers -> Worker]
    /\ spent \in Spent
    /\ hist \in [Tasks -> Hist]

-----------------------------------------------------------------------------

HasTokens == grant # "none"

Spend(f, max) == spent[f] < max /\ spent' = [spent EXCEPT ![f] = @ + 1]

Idle(w) == worker[w].pc = "idle"
Goto(w, pc) == worker' = [worker EXCEPT ![w].pc = pc]
Leave(w) == worker' = [worker EXCEPT ![w] = AtRest]

\* On to the second statement of an outcome; the content sent is forgotten.
GoOn(w, pc) == worker' = [worker EXCEPT ![w].pc = pc, ![w].content = 0]

\* What a claim compares of a row.
Compared(r) == [r EXCEPT !.due = FALSE, !.lease = "null"]

\* The fence of send: { id, status: 'running', attempts }.
Owned(w) ==
    LET r == row[worker[w].task]
        s == worker[w].seen
    IN  r.status = "running" /\ r.id = s.id /\ r.attempts = s.attempts

\* The row is still at the revision this worker read.
SameRevision(w) == row[worker[w].task].revision = worker[w].seen.revision

\* recordGoogleWrite's first statement on an existing row.
Bump(r) == [r EXCEPT !.revision = @ + 1]

\* Its other two: reopen a failed row, and let a waiting one be sent later.
Reopen(r, due) ==
    IF r.status \in {"failed", "pending"}
    THEN [r EXCEPT !.status = "pending", !.due = due, !.lease = "null",
                   !.attempts = IF r.status = "failed" THEN 0 ELSE @, !.tried = 0]
    ELSE r

Insert(r, due) ==
    [NoRow EXCEPT !.status = "pending", !.id = r.id + 1, !.due = due]

\* recordGoogleWrite inside a transaction.
Recorded(r, due) ==
    IF r.status = "none" THEN Insert(r, due) ELSE Reopen(Bump(r), due)

\* A sent row is deleted; its id is never used again.
Deleted(r) == [NoRow EXCEPT !.id = r.id]

\* A waiting row, and one with a fresh set of attempts.
Retried(r, due) ==
    [r EXCEPT !.status = "pending", !.due = due, !.lease = "null", !.tried = 0]
Renewed(r, due) == [Retried(r, due) EXCEPT !.attempts = 0]

\* A row that is being sent: one more attempt.
Claimed(r) == [r EXCEPT !.status = "running", !.attempts = @ + 1]

\* A row whose last attempt, of this content, was refused.
Failed(r, content) ==
    [r EXCEPT !.status = "failed", !.due = FALSE, !.lease = "null", !.tried = content]

\* The worker of the latest claim of this row still lives.
HasLiveOwner(t) ==
    \E w \in Workers : /\ worker[w].pc \in Sending
                       /\ worker[w].task = t
                       /\ worker[w].seen.id = row[t].id
                       /\ worker[w].seen.attempts = row[t].attempts

-----------------------------------------------------------------------------

Init ==
    /\ row = [t \in Tasks |-> NoRow]
    /\ seated \in SUBSET Tasks
    /\ local = [t \in Tasks |-> IF t \in seated THEN 1 ELSE 0] /\ google = local
    /\ unnoted = {}
    /\ grant \in {"linked", "none"}
    /\ listener = "rest" /\ todo = {} /\ bumped = NoBump
    /\ worker = [w \in Workers |-> AtRest]
    /\ spent = [edits |-> [t \in Tasks |-> 0], syncs |-> 0, grants |-> 0, crashes |-> 0, stalls |-> 0]
    /\ hist = [t \in Tasks |-> [away |-> FALSE, missed |-> FALSE, overtaken |-> FALSE]]

\* The change a commit carries: the task is parked, canceled where it stands, or
\* has a new content.
Change(t) ==
    \/ seated' = seated \ {t} /\ local' = [local EXCEPT ![t] = 0]
    \/ /\ seated' = seated \cup {t}
       /\ \E c \in {0, spent.edits[t] + 2} : local' = [local EXCEPT ![t] = c]

\* A transaction that changes t: its commit carries the change and the row.
Edit(t) ==
    /\ HasTokens
    /\ spent.edits[t] < MaxEdits
    /\ spent' = [spent EXCEPT !.edits[t] = @ + 1]
    /\ Change(t)
    /\ hist' = [hist EXCEPT ![t].away = FALSE, ![t].missed = FALSE]
    /\ row' = [row EXCEPT ![t] = Recorded(@, FALSE)]
    /\ UNCHANGED <<google, unnoted, link, worker>>

\* The flush of a transaction finds no stored grant: no row for this change.
EditWithoutGrant(t) ==
    /\ ~HasTokens
    /\ t \notin unnoted
    /\ spent.edits[t] < MaxEdits
    /\ unnoted' = unnoted \cup {t}
    /\ UNCHANGED <<row, seated, local, google, link, worker, spent, hist>>

CommitWithoutGrant(t) ==
    /\ t \in unnoted
    /\ unnoted' = unnoted \ {t}
    /\ spent' = [spent EXCEPT !.edits[t] = @ + 1]
    /\ Change(t)
    /\ hist' = [hist EXCEPT ![t].away = TRUE]
    /\ UNCHANGED <<row, google, link, worker>>

\* syncTask: the first statement of recordGoogleWrite, outside a transaction.
SyncTask(w, t) ==
    /\ Idle(w)
    /\ Spend("syncs", MaxSyncs)
    /\ IF row[t].status = "none"
       THEN /\ row' = [row EXCEPT ![t] = Insert(@, FALSE)]
            /\ UNCHANGED worker
       ELSE /\ row' = [row EXCEPT ![t] = Bump(@)]
            /\ worker' = [worker EXCEPT ![w] = [AtRest EXCEPT !.pc = "reopen", !.task = t,
                                                             !.seen = [NoRow EXCEPT !.id = row[t].id]]]
    /\ UNCHANGED <<data, grant, listener, todo, bumped, hist>>

\* Its second and third: they find the row by id, if it is still there.
ReopenRow(w) ==
    LET t == worker[w].task
    IN  /\ worker[w].pc = "reopen"
        /\ row' = [row EXCEPT ![t] = IF @.id = worker[w].seen.id THEN Reopen(@, FALSE) ELSE @]
        /\ Leave(w)
        /\ UNCHANGED <<data, link, spent, hist>>

-----------------------------------------------------------------------------

\* After a commit, a sync or a revival: a kick that believes the user is
\* connected reads the row again; it does not wait for nextRunAt.
Kick(w, t) ==
    /\ Idle(w)
    /\ row[t].status = "pending"
    /\ worker' = [worker EXCEPT ![w] = [AtRest EXCEPT !.pc = "found", !.task = t, !.seen = Compared(row[t])]]
    /\ UNCHANGED <<row, data, grant, listener, todo, bumped, spent, hist>>

Expired(t) == row[t].status = "running" /\ row[t].lease = "expired"
DueNow(t) == row[t].status = "pending" /\ row[t].due

\* Slip: the sweep looks at waiting rows only.
SweepWaiting(w, t) ==
    /\ Idle(w)
    /\ DueNow(t)
    /\ worker' = [worker EXCEPT ![w] = [AtRest EXCEPT !.pc = "found", !.task = t, !.seen = Compared(row[t])]]
    /\ UNCHANGED <<row, data, grant, listener, todo, bumped, spent, hist>>

\* A pass of processQueue meets a due row, or one whose lease ran out, of a
\* user it believes connected.
Sweep(w, t) ==
    /\ Idle(w)
    /\ DueNow(t) \/ Expired(t)
    /\ worker' = [worker EXCEPT ![w] = [AtRest EXCEPT !.pc = "found", !.task = t, !.seen = Compared(row[t])]]
    /\ UNCHANGED <<row, data, grant, listener, todo, bumped, spent, hist>>

\* The same pass believes there is no connection: the user's due rows wait.
DeferUser(t) ==
    /\ DueNow(t) \/ Expired(t)
    /\ row' = [u \in Tasks |-> IF row[u].status = "pending"
                               THEN [row[u] EXCEPT !.due = FALSE] ELSE row[u]]
    /\ UNCHANGED <<data, grant, listener, todo, bumped, worker, spent, hist>>

\* Slip: any unsent row at the revision as read is claimed.
AsReadAtAnyAttempt(w) ==
    LET r == row[worker[w].task]
        s == worker[w].seen
    IN  r.status # "none" /\ r.id = s.id /\ r.revision = s.revision

\* The row is as the sweep or kick read it.  A sweep holds its rows while it
\* sends the ones before them.
AsRead(w) ==
    LET r == row[worker[w].task]
        s == worker[w].seen
    IN  /\ r.id = s.id /\ r.status = s.status
        /\ r.attempts = s.attempts /\ r.revision = s.revision
        /\ SlowSweep \/ r.lease # "live"

\* claim: compare-and-set on the row as read.  While the row runs its nextRunAt
\* is not read.
Claim(w) ==
    LET t == worker[w].task
    IN  /\ worker[w].pc = "found"
        /\ IF AsRead(w)
           THEN /\ row' = [row EXCEPT ![t] = [Claimed(@) EXCEPT !.lease = "live", !.due = FALSE]]
                /\ worker' = [worker EXCEPT ![w].pc = "claimed", ![w].seen = Claimed(@)]
           ELSE /\ Leave(w)
                /\ UNCHANGED row
        /\ UNCHANGED <<data, link, spent, hist>>

\* processUpsert reads the task: the content that will be sent.
ReadTask(w) ==
    /\ worker[w].pc = "claimed"
    /\ worker' = [worker EXCEPT ![w].pc = "sending", ![w].content = local[worker[w].task]]
    /\ UNCHANGED <<row, data, link, spent, hist>>

\* The Google call: it lands and is answered, or lands and the answer is lost,
\* or does not land.
Send(w) ==
    LET t == worker[w].task
    IN  /\ worker[w].pc = "sending"
        /\ \/ /\ grant = "linked"
              /\ google' = [google EXCEPT ![t] = worker[w].content]
              /\ Goto(w, "sent") \/ Goto(w, "broken")
           \/ /\ UNCHANGED google
              /\ Goto(w, "broken")
        /\ UNCHANGED <<row, seated, local, unnoted, link, spent, hist>>

\* An outcome was written by a worker that is not of the row's latest claim.
Overtakes(w) ==
    \E v \in Workers \ {w} : /\ worker[v].pc \in Sending
                             /\ worker[v].task = worker[w].task
                             /\ worker[v].seen.id = worker[w].seen.id
                             /\ worker[v].seen.attempts = worker[w].seen.attempts
Note(w) == hist' = [hist EXCEPT ![worker[w].task].overtaken = @ \/ Overtakes(w)]

\* Slip: the delete after a sent row is fenced, but not on the revision.
DeleteAnyRevision(w) ==
    LET t == worker[w].task
    IN  /\ worker[w].pc = "sent"
        /\ IF Owned(w)
           THEN /\ row' = [row EXCEPT ![t] = Deleted(@)]
                /\ Note(w)
                /\ Leave(w)
           ELSE /\ GoOn(w, "requeue")
                /\ UNCHANGED <<row, hist>>
        /\ UNCHANGED <<data, link, spent>>

\* Sent: delete the row if it is ours at the revision that was sent.
DeleteSent(w) ==
    LET t == worker[w].task
    IN  /\ worker[w].pc = "sent"
        /\ IF Owned(w) /\ SameRevision(w)
           THEN /\ row' = [row EXCEPT ![t] = Deleted(@)]
                /\ Note(w)
                /\ Leave(w)
           ELSE /\ GoOn(w, "requeue")
                /\ UNCHANGED <<row, hist>>
        /\ UNCHANGED <<data, link, spent>>

\* Otherwise put it back for the newest state, if it is still ours.  A kick
\* goes round again at once; that is another Kick.
Requeue(w) ==
    LET t == worker[w].task
    IN  /\ worker[w].pc = "requeue"
        /\ IF Owned(w)
           THEN row' = [row EXCEPT ![t] = Retried(@, TRUE)] /\ Note(w)
           ELSE UNCHANGED <<row, hist>>
        /\ Leave(w)
        /\ UNCHANGED <<data, link, spent>>

\* Slip: the last attempt is terminal whatever revision it sent.
FailWriteAnyRevision(w) ==
    LET t == worker[w].task
    IN  /\ worker[w].pc = "broken"
        /\ IF worker[w].seen.attempts < MaxAttempts
           THEN /\ IF Owned(w)
                   THEN row' = [row EXCEPT ![t] = Retried(@, FALSE)] /\ Note(w)
                   ELSE UNCHANGED <<row, hist>>
                /\ Leave(w)
           ELSE IF Owned(w)
           THEN row' = [row EXCEPT ![t] = Failed(@, worker[w].content)] /\ Note(w) /\ Leave(w)
           ELSE /\ GoOn(w, "renew")
                /\ UNCHANGED <<row, hist>>
        /\ UNCHANGED <<data, link, spent>>

\* The call failed: a backoff, or after the last attempt a terminal failure,
\* but only of the revision that was sent (AUD-023).
FailWrite(w) ==
    LET t == worker[w].task
    IN  /\ worker[w].pc = "broken"
        /\ IF worker[w].seen.attempts < MaxAttempts
           THEN /\ IF Owned(w)
                   THEN row' = [row EXCEPT ![t] = Retried(@, FALSE)] /\ Note(w)
                   ELSE UNCHANGED <<row, hist>>
                /\ Leave(w)
           ELSE IF Owned(w) /\ SameRevision(w)
           THEN row' = [row EXCEPT ![t] = Failed(@, worker[w].content)] /\ Note(w) /\ Leave(w)
           ELSE /\ GoOn(w, "renew")
                /\ UNCHANGED <<row, hist>>
        /\ UNCHANGED <<data, link, spent>>

\* A newer change arrived during the last attempt: new work, new attempts.
RenewWrite(w) ==
    LET t == worker[w].task
    IN  /\ worker[w].pc = "renew"
        /\ IF Owned(w)
           THEN row' = [row EXCEPT ![t] = Renewed(@, FALSE)] /\ Note(w)
           ELSE UNCHANGED <<row, hist>>
        /\ Leave(w)
        /\ UNCHANGED <<data, link, spent>>

Heartbeat(w) ==
    /\ worker[w].pc \in Sending
    /\ Owned(w)
    /\ row' = [row EXCEPT ![worker[w].task].lease = "live"]
    /\ UNCHANGED <<data, link, worker, spent, hist>>

-----------------------------------------------------------------------------

\* disconnectCalendar clears the tokens.
Disconnect ==
    /\ HasTokens
    /\ Spend("grants", MaxGrants)
    /\ grant' = "none"
    /\ UNCHANGED <<row, data, listener, todo, bumped, worker, hist>>

\* The user takes the grant back at Google, or the refresh token expires.
Revoke ==
    /\ grant = "linked"
    /\ Spend("grants", MaxGrants)
    /\ grant' = "revoked"
    /\ UNCHANGED <<row, data, listener, todo, bumped, worker, hist>>

\* saveToken / persistGoogleTokens, and the listener they notify: a reconnect
\* with no tokens stored before reconciles first.
Connect ==
    /\ grant # "linked"
    /\ SlowCommit \/ unnoted = {}
    /\ Spend("grants", MaxGrants)
    /\ grant' = "linked"
    /\ listener' = IF ~HasTokens THEN "find"
                   ELSE IF listener \in {"find", "reconcile"} THEN listener ELSE "revive"
    /\ UNCHANGED <<row, data, todo, bumped, worker, hist>>

\* The send of w is about to end with less than the task's content: an older
\* one is on its way, or is what Google took.
Behind(w) ==
    LET t == worker[w].task
    IN  \/ worker[w].pc \in {"sending", "broken"} /\ worker[w].content # local[t]
        \/ worker[w].pc = "sent" /\ google[t] # local[t]

\* If nothing records it again, Google may not learn of the newest change.
Unsent(t) ==
    \/ row[t].status = "none" /\ google[t] # local[t]
    \/ \E w \in Workers : worker[w].task = t /\ SameRevision(w) /\ Behind(w)

\* The attempt that failed for good was not of the newest change.
FailedBefore(t) == row[t].status = "failed" /\ row[t].tried # local[t]

\* Slip: a parked task is not looked for, though Google still shows it.
ListedSeated(past) == seated \ past

\* reconcileUser's query: recurring or not past, or parked with an event.
Listed(past) == (seated \ past) \cup {t \in Tasks \ seated : google[t] # 0}

\* reconcileUser finds its tasks.  One-offs whose end has passed stay as they
\* were; the clock decides which.
ReconcileFind ==
    /\ listener = "find"
    /\ listener' = "reconcile"
    /\ \E past \in SUBSET seated :
           /\ todo' = todo \cup Listed(past)
           /\ hist' = [t \in Tasks |->
                          [hist[t] EXCEPT !.missed = \/ @
                                                     \/ /\ hist[t].away /\ Unsent(t)
                                                        /\ t \in past \/ (t \notin seated /\ google[t] = 0)]]
    /\ UNCHANGED <<row, data, grant, bumped, worker, spent>>

\* It records them one at a time, outside a transaction.
ReconcileTask(t) ==
    /\ listener = "reconcile" /\ bumped = NoBump
    /\ t \in todo
    /\ todo' = todo \ {t}
    /\ IF row[t].status = "none"
       THEN row' = [row EXCEPT ![t] = Insert(@, TRUE)] /\ UNCHANGED bumped
       ELSE row' = [row EXCEPT ![t] = Bump(@)] /\ bumped' = [task |-> t, id |-> row[t].id]
    /\ hist' = [hist EXCEPT ![t].away = FALSE]
    /\ UNCHANGED <<data, grant, listener, worker, spent>>

ReconcileReopen ==
    /\ listener = "reconcile" /\ bumped # NoBump
    /\ row' = [row EXCEPT ![bumped.task] = IF @.id = bumped.id THEN Reopen(@, TRUE) ELSE @]
    /\ bumped' = NoBump
    /\ UNCHANGED <<data, grant, listener, todo, worker, spent, hist>>

ReconcileDone ==
    /\ listener = "reconcile" /\ bumped = NoBump /\ todo = {}
    /\ listener' = "revive"
    /\ UNCHANGED <<row, data, grant, todo, bumped, worker, spent, hist>>

\* reviveForUser: every waiting or failed row is due, with fresh attempts.
ReviveForUser ==
    /\ listener = "revive"
    /\ listener' = "rest"
    /\ row' = [t \in Tasks |-> IF row[t].status \in {"pending", "failed"}
                               THEN Renewed(row[t], TRUE) ELSE row[t]]
    /\ UNCHANGED <<data, grant, todo, bumped, worker, spent, hist>>

\* The process of a worker, or of the listener, dies; nothing resumes either.
Crash(w) ==
    /\ ~Idle(w)
    /\ Spend("crashes", MaxCrashes)
    /\ Leave(w)
    /\ UNCHANGED <<row, data, link, hist>>

CrashListener ==
    /\ listener # "rest"
    /\ Spend("crashes", MaxCrashes)
    /\ hist' = [t \in Tasks |->
                  [hist[t] EXCEPT !.missed = \/ @
                                             \/ /\ hist[t].away \/ t = bumped.task
                                                /\ Unsent(t) \/ FailedBefore(t)]]
    /\ listener' = "rest" /\ todo' = {} /\ bumped' = NoBump
    /\ UNCHANGED <<row, data, grant, worker>>

LeaseRunsOut(t) ==
    /\ row[t].status = "running" /\ row[t].lease = "live"
    /\ row' = [row EXCEPT ![t].lease = "expired"]
    /\ IF HasLiveOwner(t) THEN Spend("stalls", MaxStalls) ELSE UNCHANGED spent
    /\ UNCHANGED <<data, link, worker, hist>>

\* nextRunAt passes.
BackoffEnds(t) ==
    /\ row[t].status = "pending" /\ ~row[t].due
    /\ row' = [row EXCEPT ![t].due = TRUE]
    /\ UNCHANGED <<data, link, worker, spent, hist>>

WorkerStep(w) ==
    \/ ReopenRow(w) \/ Claim(w) \/ ReadTask(w) \/ Send(w) \/ DeleteSent(w) \/ Requeue(w)
    \/ FailWrite(w) \/ RenewWrite(w)

ListenerStep ==
    ReconcileFind \/ (\E t \in Tasks : ReconcileTask(t)) \/ ReconcileReopen \/ ReconcileDone \/ ReviveForUser

Next ==
    \/ \E t \in Tasks : \/ Edit(t) \/ EditWithoutGrant(t) \/ CommitWithoutGrant(t)
                        \/ DeferUser(t) \/ LeaseRunsOut(t) \/ BackoffEnds(t)
                        \/ \E w \in Workers : Kick(w, t) \/ Sweep(w, t) \/ SyncTask(w, t)
    \/ \E w \in Workers : WorkerStep(w) \/ Heartbeat(w) \/ Crash(w)
    \/ Disconnect \/ Revoke \/ Connect \/ ListenerStep \/ CrashListener

\* Awaits return, the sweep runs every minute and time passes.
Fairness ==
    /\ \A w \in Workers : WF_vars(WorkerStep(w))
    /\ \A t \in Tasks : /\ SF_vars(\E w \in Workers : Sweep(w, t))
                        /\ WF_vars(LeaseRunsOut(t) /\ ~HasLiveOwner(t))
                        /\ WF_vars(BackoffEnds(t))
                        /\ WF_vars(CommitWithoutGrant(t))
    /\ WF_vars(ListenerStep)

Spec == Init /\ [][Next]_vars /\ Fairness

-----------------------------------------------------------------------------

\* The account is connected and the reconnect listener has done its work.
Settled == grant = "linked" /\ listener = "rest"

\* Commit and intent are atomic: a connected user's task without a queue row is
\* in Google as it is here, whatever crashes, disconnects, revocations and lost
\* answers came before.  Left behind may be a task edited while the account was
\* away if the reconnect's listener died, or found it a past one-off by then.
NothingForgotten ==
    \A t \in Tasks :
        Settled /\ row[t].status = "none" /\ ~hist[t].missed => google[t] = local[t]

\* AUD-023: a failed row was tried at the task's newest content; the same tasks
\* are left out.
FailedAtNewest ==
    \A t \in Tasks :
        Settled /\ row[t].status = "failed" /\ ~hist[t].missed => row[t].tried = local[t]

\* Of the workers that send a row, one holds any claim of it.
OneSenderPerClaim ==
    \A v, w \in Workers :
        /\ worker[v].pc \in Sending /\ worker[w].pc \in Sending
        /\ worker[v].task = worker[w].task
        /\ worker[v].seen.id = worker[w].seen.id
        /\ worker[v].seen.attempts = worker[w].seen.attempts
        => v = w

\* A worker whose lease was taken over cannot overwrite the newer outcome.
FenceHolds == \A t \in Tasks : ~hist[t].overtaken

\* While the user stays connected every row is sent or fails visibly.
EveryRowSettles ==
    \A t \in Tasks :
        <>[](grant = "linked") => []<>(row[t].status \in {"none", "failed"})

=============================================================================
