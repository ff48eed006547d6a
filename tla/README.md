# AI Calendar: formal models

TLA+ models of the parts of AI Calendar whose correctness depends on the order
in which things happen: the durable mutation queue, the per-user lock, the
outbox and the queue of Google writes, the placement of tasks in a calendar, the
days of a recurring series, the creation of tasks under request keys, push
reminders, and the voice dialogue. TLC checks the models on small instances;
TLAPS proves the theorems listed below for every value of the constants. Paths
are relative to `src/`. Under `backend/src/modules/`, `SJ`, `PG`, `OB`, `PSV`,
`PSU`, `TSV`, `DEM` and `RST` stand for `schedule/schedule-job.service.ts`,
`google-calendar/pending-google-write.service.ts`,
`google-calendar/google-sync-outbox.ts`, `schedule/placement-step.service.ts`,
`schedule/placement-step.util.ts`, `tasks/tasks.service.ts`,
`schedule/displayed-event-move.service.ts` and
`voice/vnext/run-structured-turn.ts`; `UVT` and `UE` stand for
`frontend/src/modules/voice/hooks/useVoiceTask.ts` and
`frontend/src/modules/events/hooks/useEventEditor.tsx`.

- `tlc -workers 2 -config <run>.cfg MC<Module>.tla` runs one instance,
- `tlapm <Module>Proofs.tla` checks the proofs of a module.

## 1. Inventory

The program is a NestJS backend on Postgres (SQLite for a single process and for
tests), a React client, an admin client and a landing page. The backend runs in
several processes. A request changes a user's calendar in two parts: a short
transaction that stores the change with a job row and with notes for Google,
and work done later from the job row and from the queue of Google writes.

### Durable mutation queue (`schedule/schedule-job.service.ts`)

*State.* Rows of `schedule_jobs`: status, kind, attempts, next run, lease, the
stage the client polls, and a payload with `placed`. In memory: the flows that
execute a claimed row.
*Operations.* `beginMutationJob` (in the caller's transaction, or `inline` for a
request that does the work itself), `claim` (fast path after the commit, or the
sweep every 2 s), `execute`, heartbeat, outcomes, retry with backoff, legacy
rows, purge.
*Interactions.* Handlers in `tasks.service`, `displayed-event-move.service` and
`occurrence-edit.service` register per kind; the client polls the row.
*Hard.* Fast path and sweep of several processes on one row; a process dying at
any await; a lease lost by a living worker; a late outcome.
*Correct when* nobody shares a claim, no row is stranded, retries are bounded, a
retry after the placement does not place again, and the client gets one final
answer that never changes.

### Per-user lock (`schedule/user-lock.ts`)

*State.* A map from user to the tail of a chain of promises, per process; a
Postgres session advisory lock on a pool of four connections of its own.
*Operations.* `withUserLock`: chain, connect, lock with a time limit, work,
unlock, close a connection whose unlock failed, drop the map entry.
*Interactions.* Every placement, drag and edit of a schedule runs inside it. The
work uses the main pool, not the lock's connection.
*Hard.* Instances, crashes, failed unlocks, lost sessions, a full pool, two users
whose names hash to one key.
*Correct when* a user's writes do not overlap and run in call order, and the lock
always comes back.

### Google outbox (`google-sync-outbox.ts`, `google-sync-outbox.subscriber.ts`)

*State.* Notes on the query runner of a transaction, one copy of them per
savepoint; rows of `pending_google_writes`.
*Operations.* Note on insert/update/remove, copy at a savepoint, restore or drop
it, write the rows just before the outermost commit, hand them to the queue just
after it; notes of updates made outside a transaction.
*Hard.* Nested transactions and partial rollback; a crash around the commit;
updates the subscriber does not see.
*Correct when* rows commit exactly with the changes they are about.

### Google write queue (`pending-google-write.service.ts`) and client

*State.* Rows with status, attempts, revision, next run and lease; the stored
grant; the connection state cached for minutes per process.
*Operations.* Record (find, bump, reopen), claim, read the task, call Google,
delete the row if its revision is unchanged, retry, fail, defer a user without
a connection, revive and reconcile after a reconnect, heartbeat.
*Hard.* A change recorded while its row is being sent; lost answers; resets of
the attempts that the outcomes are fenced on; a reconnect in the middle of
anything; a crash of the listener.
*Correct when* a task with no row is in Google as it is here, a failed row was
tried at its newest content, and every row settles.

### Placement (`placement-step.service.ts`, `placement-step.util.ts`, `free-slots.util.ts`)

*State.* Task rows (state, kind, clock, deadline, duration, phase), slots, skipped
days of series, detached day copies.
*Operations.* Plan one placement among the seats of the others (hole, chain of
displaced tasks, pack of a day, conflict); write it with its moves; park; put on
top; fill freed holes from the inbox; re-merge a copy into its series; seat a
series over its horizon; reopen a finished task.
*Interactions.* Called by job handlers, drags, form edits, the recurring
extension and by voice tools, under the user's lock.
*Hard.* Long sequences of legal calls; displaced tasks displacing others; rows
returned in no order; time passing between calls; deadlines, phases and the ends
of days.
*Correct when* nobody is booked twice or lost, fixed tasks stay, a displaced task
stays on its day and before its deadline, every day of a series has one holder,
freed time is used, and a repeated job moves nothing.

### Series (`series-*.util.ts`, `PSV:1390-2060`, `DEM:466-900`, `recurring-extend.*`)

*State.* A master task with a rule, its skipped days and its rows; clock siblings
and the tails of "this and following" with a start day of their own; one-off
copies that stand for one day each.
*Operations.* Place over the horizon, save a clock and place again, split, end,
skip a day, move or displace a day into a copy, rejoin by a copy, skip or delete
a copy, purge parked days, extend the latest member by the missing days.
*Interactions.* Jobs and requests under the user's lock, and a timer; the seats come
from the placement engine.
*Hard.* Which member of a group names, holds or skips a day, after long sequences
of requests; a job that runs again after its request was half done.
*Correct when* a day has one occurrence, skipped days stay away, past days stay, and
no day of the horizon is lost.

### Creation of tasks (`TSV:613-805`, `utils/requestKey.ts`, `UE`)

*State.* In the browser a key per form and per payload; `request_idempotency` with a
unique index; tasks; the user's row.
*Operations.* Key for a submission, look for the key before and inside the lock,
save task and key in one transaction, answer a lost race from the winner's key,
let keys pass their retention, delete a task, wipe an account.
*Hard.* A retry beside the first try, a lost lock, a task deleted between the tries,
an account deleted under a create.
*Correct when* a key makes one task, an answer is the task that was asked for, and
nothing comes back after the wipe.

### Push reminders (`reminders/reminders.service.ts`, `reminder-*.util.ts`)

*State.* `push_subscriptions`, `reminder_deliveries`; per instance the tick at work.
*Operations.* Purge old deliveries, read browsers and calendars, choose the due
blocks, claim a delivery by its key, push to every browser, take the row back if
nobody took it, drop a browser that is gone.
*Hard.* Two instances and a cron route tick at once; a tick that breaks between the
claim and the push; a block that moves; the purge against a slow tick.
*Correct when* nobody is reminded twice, and nobody is forgotten.

### Voice dialogue, structured route (`voice/vnext`, `UVT`)

*State.* Per server process a map of sessions: version, operations, one preview
(execution, revision, state), the revisions it was built on, intents, a question, a
draft plan, a ledger of intents and the executions handed out. In the browser: the
panel, the claim of the preview on its screen, batches of intents.
*Operations.* A turn in the session's lane (say, confirm, cancel, build a plan,
report), with awaits for the interpreter and for the rows read again before a
confirmation; the browser runs the intents it is answered and reports.
*Hard.* Late and lost answers, a tap beside a sentence, a row edited meanwhile, a
report lost or twice, a session that ends under its turn, a restart.
*Correct when* a confirmation applies what was shown, once, to rows nobody changed,
and nothing of unknown outcome is sent again.

### The other components

`sign-in and sessions` (rotation of the refresh token), `day reminders` (next due
day), superseded drops in `displayed event move`, and the purge of Google artifacts in
`account deletion` have state worth modelling and are in the plan. `habits`,
`phases`, `user settings`, `schedule reads`, `calendar providers`, `places`, `admin`,
the language side of `voice` and the clients change rows one request at a time, or
not at all.

## 2. Modules

| Module | Models | Relations |
|---|---|---|
| `JobPromise` | what the queue promises a polling client (abstract) | |
| `MutationQueue` | `SJ` and what the handlers do to their row | implements `JobPromise` |
| `MutationQueueProofs` | theorems about it | |
| `UserLock`, `UserLockProofs` | `user-lock.ts` and theorems about it | justifies the one-step operations of `PlacementStep` |
| `GoogleOutbox` | one connection: notes, savepoints, flush, kick | its rows' later life is the next module |
| `GoogleWriteQueue` | rows, workers, grant, reconnect listener | |
| `GoogleSyncProofs` | theorems about these two | |
| `PlacementPlan` | `planPlacement`: pure operators | used by `PlacementStep` |
| `FreeSlots` | merge and subtract of interval lists | used by `PlacementStep` |
| `PlacementStep` | the calendar of one user, one action per operation | |
| `PlacementStepProofs` | theorems about these three | |
| `SeriesDays`, `SeriesDaysProofs` | the days of one series group | the seat of a day is any the engine may answer |
| `TaskCreate`, `TaskCreateProofs` | keys, creates, deletion of tasks and account | its lost lock is `UserLock`'s |
| `Reminders`, `RemindersProofs` | the ticks of every instance | |
| `VoiceSession`, `VoiceSessionProofs` | panel, sessions, stored rows | |
| `MC...` | constants and symmetry of the runs | |

**MutationQueue.** Each `await` of `execute` is an action (`Claim`, `Read`,
`Place`, `Mark`, `Sync`, `ReadAgain`, `Complete`, `FailOrRetry`), so a crash or
another flow comes between any two. Times are kept as what the code compares
them to: due or not, lease null, live or expired. A lease of a dead owner
expires freely; one of a living owner expires as a *fault*, bounded like crashes
by `MaxFaults`. `SlowRead` allows a lease to run out between the claim and the
read that follows it (`SJ:202`). Move handlers finish without a fence, as in
`DEM:346-464`.

**UserLock.** `Enter` … `Forget` follow one call through `withUserLock`. A call
waits for the promise it was chained to, for a connection, then for Postgres;
`Timeout`, `Close`, `LoseSession` and `Crash` are the failures.

**GoogleOutbox.** `begun` is the stack of open transactions with the tables at
their start; the database undoes its own writes on a rollback while the notes,
which live in the process, must be undone by the code.

**GoogleWriteQueue.** Content is the number of a task's latest change, or 0 for a task
without an event (parked, canceled). Google's answer may be lost after the write landed.
`unnoted` is a transaction that saw no grant and has not committed yet (`SlowCommit`);
`SlowSweep` lets a sweep claim a row it read before the attempts were reset.
`ReconcileFind` is the query of `reconcileUser`: `seated` are the tasks that recur or
have a scheduled end, the clock decides which of them are one-offs over by now (`past`),
and `Listed` is what is left, with the tasks that have no end but still an event.
`ReconcileTask` and `ReconcileReopen` record them one at a time.

**PlacementPlan and PlacementStep.** `PlacementPlan` mirrors
`placement-step.util.ts`: `FindHole`, `Reseat` (the chain, bounded by
`MAX_CHAIN_PULLS` and a number of rounds), `PackMovablesForHole`, `PlanHole`,
`PlanInterval`, `PlanSeriesDay`. `PlacementStep` wraps it with what
`placeUnlocked` reads and writes: windows, search span, the cut to one civil day,
parking, deadlines that follow a drop, layers, re-merge. A user's actions are
`Save`, `PlaceSaved` (the job, possibly twice), `Drag`, `PutOnTop`,
`LeaveParked`, `Begin`, `Done`, `Reopen`, `Delete`; `SeatOpenHoles` is the
background pass, `Tick` the clock.
One action is one locked operation, since `UserLock` shows that they do not
overlap; what that abstracts is named in section 6.

**SeriesDays.** A day is a number and has two clocks; a slot is a pair of them. A
member (`SeriesRec`) carries what `series-group.util.ts` and the task row do: rule,
first day, anchor, clock, end, skipped days, rows. `Place` is
`seatRecurringHorizonUnlocked`, which `placeUnlocked` calls for a series, and `Extend` is
`appendMissingSeriesDaysUnlocked`, with any answer of the engine for each day
(`Answers`; an answer other than the wanted clock uses up a request). `SaveClock`,
`Split`, `EndFrom`, `MoveDay`, `Displace`, `HandOver`, `PlaceCopy`, `SkipDay`,
`SkipCopy` and `DeleteCopy` are the requests, `Purge` and `Extend` the timer. The
history variables are for days of which section 4 says that the code loses count:
`astray` collects those it may plan twice or plan over another member, `dropped`
those it leaves to nobody.

**TaskCreate.** A request is followed through `create`: first look, lock, second
look, transaction, the unique index, the look after it. A key is a slot of the browser
and a number, as `keyForSubmission` makes it from the content. The deletion of the account
is one transaction without the lock, in which each statement sees what is committed by
then: `WipeRecords`, `WipeTasks`, `WipeUser`, or `WipeFails` between any two, while creates
go on beside it.

**Reminders.** Every await of `dispatchDue` is a step of its instance. A unit of time
is the interval between ticks.

**VoiceSession.** `Begin` fetches or makes the session and reads the catalog; one
action of `Turn` ends the turn, except that a confirmation reads its rows one by one
(`ReadTarget`) before `Apply`, `Stale` or `ReadFails`. What is said is any effect the
interpreter may give it. `Hear` routes an answer to whatever the panel is by then,
`GiveUp` loses it. A claim carries, besides the two fields that are sent, the session
and the intents it was shown with; only properties read them.

## 3. Runs

| Run | Instance | What it shows |
|---|---|---|
| `queue_all` | one job of any kind, three flows, three faults | no shared claim (`SoleOwner`), no stranded row (`NotStranded`), bounded retries, a placement repeats only after a fault, the latest claim decides, and the queue implements `JobPromise` with its liveness (`KeepsPromise`) |
| `queue_move` | a move job, two flows, one fault | violated: a handler that lost its lease rewrites a final answer |
| `lock` | three calls, two processes with one connection each, two users with one key, a crash, a lost session, failing unlocks | overlap only after a lost session (`ExclusiveSessions`), call order (`InCallOrder`), the lock comes back (`LockComesBack`), every call ends (`EveryCallEnds`) |
| `outbox` | two tasks, three nested levels, direct updates, crashes | after a commit the changes have their rows (`IntentsCommit`), after a rollback nothing undone has one (`RollbackLeavesNothing`), rows are handed over only once committed (`KickedWhenCommitted`) |
| `google` | two workers, edits, disconnects, revocations, reconnects, a `syncTask`, a crash, under fairness | nothing forgotten (`NothingForgotten`), failed only at the newest content (`FailedAtNewest`), one sender per claim (`OneSenderPerClaim`), every row settles while the user stays connected (`EveryRowSettles`) |
| `placement` | two one-offs, a series, two days, four operations | seven properties of the calendar, see below |
| `series` | four days, three members, two copies, three requests | one occurrence per day, a member that skips a day goes on skipping it, no day lost, history stays |
| `series_skips` | the same with one copy and two requests | violated: a day that was skipped is planned again by the tail of a split |
| `creates` | two requests from a form and from a payload, two contents, two lapses, two losses, a deletion of the account in its steps | one task per key, answers that fit, and after the deletion no task and no key but those of creates that committed during it (`WipedStaysEmpty`) |
| `reminders` | two instances, one block, two browsers, two mishaps | what a push service answered for is not sent again (`NotSentAgain`), nobody missed (`NobodyMissed`) |
| `voice` | an edit and a plan, four turns, a restart, an edit elsewhere | what is applied was shown (`ShownIsApplied`), on unchanged rows, once, not again while its outcome is unknown, not after a cancel |
| `voice_cancelled` | the same, five turns, no faults | violated: operations of a cancelled preview come back |

`placement` checks that two open slots share time only if the user said so
(`NoDoubleBooking`), that no task ends with neither a slot, an inbox entry nor a
question (`NobodyLost`), that a series day has exactly one holder
(`DayHasOneHolder`), that fixed tasks stay and displaced tasks keep their day, their
phase and their deadline (`PushedStaysOnItsDay`), that filling holes moves nobody and
leaves no hole a parked task fits in (`FillingUsesHoles`), that a job run again leaves
a seated task in place (`RetryKeepsSeat`), and that the interval lists of
`free-slots.util.ts` give exactly the free starts in every calendar that is reached
(`GapStartsAreExact`). Three of them name the cases in which the code does otherwise,
and section 4 says where those come from: `NoDoubleBooking` leaves out a task that came
back from done to a clock kept unseen, `PushedStaysOnItsDay` a slot that was outside
its phase already and the second day of an overnight claim, `RetryKeepsSeat` a row
whose clock is not its slot's or has begun and a slot outside its phase.

The type invariants of the queue, the lock, the two Google modules, the creates and
the reminders are proved (section 5) and left out of the runs.

### Bounds

- Queue: three flows are the owner, the one that takes over and a late third;
  three faults let two of them lose their lease and one die. `MaxAttempts` 2
  reaches "last attempt" both by a retry and by a takeover.
- Lock: three calls are two users in two processes, or a chain of three; with a pool
  of one the pool is always the bottleneck, with one key two users collide. Users
  and processes are interchangeable, so one call is of a fixed user in a fixed
  process (`SpecOneFixed` in `MCUserLock`); TLC's symmetry sets would not be
  sound for the two liveness properties.
- Outbox: three levels are a transaction, a savepoint and a savepoint in it, so a
  copy must survive the release of the inner one.
- Google: one edit and one `syncTask` change or record content while a row is being
  sent or retried; two changes of the grant are one disconnect or revocation and
  one reconnect; two workers are the sender and the one that takes over. One task is
  enough because rows of different tasks share only the grant, the workers and the
  listener; the theorems are about any number. The run starts with the account linked
  (`SpecLinked`): one that is not is like one that was disconnected first, at the price of
  one change of the grant. It checks liveness, so the workers are not a symmetry set.
- Placement: days of 10 units with 8 awake, tasks of 2, a series on [2,4) and an
  evening phase [4,8). A day holds at most four tasks and the evening two, so
  two one-offs and a series day force chains, packs, parking and detaching with
  four operations. A clock of 3 is off the grid and on the series day, a drop
  at 2 takes the series clock and one at 15 falls on the second day; the one
  moment the clock jumps to, 6, lies in the first evening.
  These cases were each confirmed to occur in the run: two moves in one
  placement, a shift together with a detach, parking by a move, a pack, a
  rejoin, an inbox task seated, a deadline following a drop, an expired
  deadline, a reopened task seated and parked, a layer dragged. `MaxSpins` 8
  stands for the code's 40 rounds and `MaxPulls` 2 for 6: with three movable
  seats a chain settles or fails long before.
- Series: four days with two clocks, a week of two days, a horizon of three days that
  reaches the last one as the clock goes on; three members are a master, a split and a split of either;
  two copies are a displaced day and one that rejoins; three requests (a day other
  tasks keep from its clock counts as one) allow move, move back, skip, or split,
  end, delete, in any order, with the timer and the clock anywhere between.
- Creates: two requests are a try and its retry, or two contents, from one slot or from
  both; a fault is a lost lock or a dead process, a lapse a key past retention, and the
  form is opened twice. The deletion may fail and be tried again any number of times.
  Anything the properties exclude is about two requests; the theorems are about any
  number.
- Reminders: a window of 2 units, a retention of 2, ticks of up to 1 unit: the
  smallest in which a tick overlaps the next, a row outlives its block, and the
  purge meets a slow tick. The real ratio is 30 minutes to 3 days.
- Voice: two operations are one on a stored row and one a plan may hold (a create);
  four turns are preview, correction, confirmation and one more of any kind; two
  entries of the session are before and after a restart.

### Fairness

- Queue: the sweep is a timer, so a due or orphaned row is claimed; a living
  flow's awaits return, because every request it makes has a timeout; a lease of
  a dead owner expires and a backoff ends, because time passes. Crashes, lost
  leases and new jobs are not fair.
- Google: the same, with the sweep under strong fairness because a row that is
  deferred is due only at times; a reconnect listener that does not die ends.
- Lock: the steps of a call under strong fairness, since the connection pool and
  Postgres serve their waiters in order; every work ends.
- `GoogleOutbox`, `PlacementStep`, `SeriesDays`, `TaskCreate`, `Reminders` and
  `VoiceSession` claim no liveness: their specifications state no fairness. What must
  happen in time is an action property there (`NobodyMissed`: the minute does not
  end without the reminder) or about the state after the action that owes it
  (`NoDayLost`, `FillingUsesHoles`).

## 4. Findings

Runs that are expected to be violated state a sentence of the repository:

| Run | Sentence | What the code does |
|---|---|---|
| `queue_move` | placement-engine.md:328 and the comment at `SJ:204`: every outcome is fenced | move handlers finish without a fence (`DEM:460`) |
| `series_skips` | api-reference.md:179: "Recurring skips are stored as civil days so later Generate will not recreate that occurrence." | the tail of a split starts without skips (`DEM:621`), so days the user skipped, and days that copies stand for, come back |
| `voice_cancelled` | `RST:689-693`: a later preview cannot bring a cancelled preview's operations back | a plan preview is opened over operations the cancel left (`structured-day-plan.ts:277`), and the next command adds to them |

Met while modelling, without a run of their own (a constant or a definition named in
brackets makes TLC show it):

*Queue and lock*

- `SJ:202`: the fence is read by a second query after the claim. If the lease runs
  out in between, two flows share an attempt number (`SlowRead = TRUE`).
- `SJ:116`: an inline job has no heartbeat; a request that works longer than its
  lease is failed as interrupted although it lives (the comment at `SJ:209` speaks
  of a dead process).
- `user-lock.ts:70`: a work whose lock session is lost goes on, while another process
  takes the lock; operations.md:60 says that all placement for one user is serialized
  across instances.

*Google*

- `PG:343`: the attempts that outcomes are fenced on are reset when a row is revived,
  reopened or its grant renewed, so the claim of a stalled worker fits again and it
  overwrites the newer outcome (`MaxStalls = 1`), which the comment there excludes.
- `PG:127`, `PG:138`: the reconcile after a reconnect is not recorded; a crash in
  it drops it, and edits made while the account was away do not arrive.
- `PG:142`, `PG:149-153`: the reconcile passes over one-offs whose end is past. One that
  was edited while the account was away and is over at the reconnect has no row and stays
  in Google as it was, which the comment there says is meant. A failed row is not passed
  over, since `reviveForUser` renews every row there is. `NothingForgotten` and
  `FailedAtNewest` leave out what these two points name (`hist.missed`), and nothing else
  that was edited while away.
- `PG:326`: a sweep may claim a row it read before the attempts were reset
  (`SlowSweep = TRUE` refutes `OneSenderPerClaim`).
- `OB:189`: a reconnect can overtake an edit that saw no grant and has not
  committed (`SlowCommit = TRUE` refutes `NothingForgotten`).
- `TSV:340`: an update outside a transaction is noted by a second statement; a
  crash between them leaves the change out of Google (`lost` in `GoogleOutbox`).

*Placement*

- `TSV:569`: a create job run again after its slot has begun moves the task,
  although the comment at `TSV:514` calls the handler idempotent.
- `PSV:828`: a fixed task that comes back from done keeps its slot without looking
  whether it is free, against the comment at `PSV:72` (`ReopenedSlotIsFree`).
- `PSV:834`: a task finished before its job ran, and reopened, is answered
  "seated" with no slot behind it.
- `PSV:853`: a drop on an interval that is over is reported seated and writes
  nothing, but the phase of the drop is kept. The slot is then outside its task's phase:
  a retried create job moves it, and another's placement may push it past its deadline,
  because someone with no window left is given the whole day of the claim (`PSV:803`).
- `PSV:798`: "Same-day displace only". The day is the one on which the claim starts; a
  fixed event over midnight cuts everyone to its first day and hands that day to whoever
  it hits on the second.
- `PSV:2495`: a started slot that is moved keeps the old clock in its task row, so a
  task that comes back from done is looked at where it no longer sits.
- A task whose clock passes before its create job runs ends without a slot, and
  finishing a task does not start a pass over the inbox (`FillingUsesHoles` is about
  the passes that run).

*Series*

- A rewrite of a series checks its own skips only, not the days other members hold; the
  check exists where missing days are appended. A sibling's append takes back a day
  that was skipped on the master. `StaysSkipped` speaks of the member that skips a day and
  of nobody else.
- Once a clock sibling of several days has the latest row, only it is extended.
- A stale second split can leave two tails without an end.
- A copy that moved to another day keeps that day from the append until it leaves; if
  the anchor passes the day meanwhile, the day is never planned.
- `moveSeriesAll` saves the clock before today's occurrence is over and places after
  it: today may be planned twice, and a clock that is over today drops today's row.
- A copy that rejoins a series which starts after its day is dropped by the next
  rewrite. An ended series without rows can still be chosen as the one to extend.
- `DEM:790-811`: a "this and following" job that runs again, when its cut series has no
  open day left, moves the whole ended series.
- `DEM:596-611`: a split looks for an existing tail by its first day and name only, so a
  split of the master on a day on which a clock sibling was split finds the sibling's
  tail; the master ends there and its other weekdays are nobody's (`dropped`).
- `DEM:683-733`: a move of the whole series restarts at its first open day. Days before
  it, which the append left because a copy of another day sat there, are never planned;
  without an open day the series starts at the day of the drop (`dropped`).
- The background pass never extends a series that is parked.
- `PSV:2056`: `reconcileSeriesClockGroups` has no caller.

*Creates*

- `UE:289`: a payload that is tried again takes a new key if another payload was sent or
  answered in between, although the comment above says that a retry of the same
  payload keeps its key (`PayloadRetryKeepsKey`). A form edited from A to B and back
  to A, with lost answers, creates A twice.
- A worker that writes an event while the account is purged leaves it in Google.
- `account-deletion.service.ts:178`, `:210`: a create that commits after the deletion has
  deleted the keys, and before it deletes the tasks, loses its task and leaves its key,
  with a user that is no more: the table of keys has no foreign key
  (`WipedStaysEmpty` allows these, `wipe.during`). One that commits after the tasks were
  deleted makes the delete of the user fail, and the whole deletion is undone.

*Reminders*

- `reminders.service.ts:193`, `:258`: a push whose answer is lost counts as not taken,
  although the browser may show it. If no other push of that reminder was answered, its
  row is deleted and the next tick sends it again. `NotSentAgain` is therefore about
  answers: what one push service answered for is not tried again anywhere.
- A tick that breaks between the claim and the push silences that reminder for good
  (`silenced`). A block reminded of as a task is reminded of again once it has an
  event. A push that never answers leaves `ticking` set and stops that instance.

*Voice*

- Executions are numbered per session entry, so after a restart a claim from before it
  may name another preview of the new entry; `UVT:118` says that a claim names what
  was shown (`OnlyTheShownPreview`).
- `RST:677-681`: an intent whose key is in the ledger keeps its old row, so when it is
  sent a second time after a first one was reported, and the second report is lost,
  `expireUnreported` finds nothing pending and the write may be sent once more
  (`outcomes.ts:74-77` says it is not). `Silent` leaves that case out.
- `RST:137-139`: a plan preview does not lift the block a failed change left, so the tap
  on it is answered with a question; `RST:452-453` says a tap still can.
- The cancel of a day plan empties an open preview without retiring it.
- A tap whose call fails leaves the panel at work (nothing catches it).
- `structured-state.ts:108`: a group of more than 100 ids runs into the next execution
  (excluded by the assumption `IdsFit`).

## 5. Theorems

`MutationQueueProofs`, for every set of jobs and flows, every attempt limit and
every bound on faults:

- `TypeCorrect`, `NothingStranded`, `BoundedAttempts`. The invariant is `TypeInv`
  (types, and that a busy flow has a job) with `RowsSound`, which says of every
  row what its status implies for lease, attempts and stage; that a waiting row has
  fewer than `MaxAttempts` attempts is what bounds the attempts of its next claim.
- `OneOwner` (`SlowRead = FALSE`). `SoleOwner` is not inductive: it speaks of the
  fence a flow read, and the fence is read after the claim. `ClaimInv` adds
  that the numbers the claims wrote differ (`DistinctClaims`) and that the number
  read is the one written (`FenceIsMine`). The second is where the assumption is
  used, and `SJ:202` is where the code does not grant it.
- `LatestClaimDecides` (same assumption), with `ClaimInv` and the fact that only an
  inline job has a flow in `inline`.
- `PaidPlacements`, with no assumption about leases. The count `hist.placements` alone
  is not inductive: what a flow that is still on its way may place has to be paid for
  as well. `Balance` adds to it the flows that may place a job's task (`MayPlace`) and
  the one placement a waiting unmarked row still has coming (`Credit`), and bounds the
  sum by one, the takeovers and the failed marks. Each step changes one flow's share
  of one job's sum (`FlowPays`), or only a row (`TablePays`).
- `PromiseKept`: every step of the queue is a step or a stutter of `JobPromise`'s
  safety half. Its liveness half is checked by `queue_all`.

`UserLockProofs`, for every set of calls, users, processes and keys, every pool
size and every number of crashes and lost sessions:

- `LockTypeCorrect`.
- `OneWriteAtATime` from `LockInv`: a call that works and whose session is up holds
  the lock of its key (`HoldsItsLock`), and a session goes down under its call
  only by a loss that was counted (`SessionsUp`). On SQLite it rests on `ChainsSuffice`.
- `CallOrderKept`, `ChainsStaySmall`, `ChainsSuffice` from `ChainInv`: calls are
  numbered in the order they were made, the tail of a chain is its last call, a call
  waits for the last one before it, and calls are over in that order. None of
  these is inductive alone: dropping the map's entry is only harmless because the
  tail is the last call.
- `NoOverlapWithoutDrops`: with `MaxDrops = 0` mutual exclusion holds outright.

`PlacementStepProofs` about the plan, for every grid, set of windows, list of seats,
buffer and number of rounds:

- `HoleIsFree`, `NoHoleNoRoom`: what `FindHole` answers lies in a window, on the grid,
  not before the search begins, and on nothing that is hard busy, also after the soft
  time was given up; it answers None only if there is no such place. The least start
  exists because starts have a lower bound (`LeastInt`, from the well-foundedness of `<`
  on the naturals).
- `RawPlacementDisturbsNobody`, `RawPlacementUsesTheRoom`: a placement without packing,
  as an inbox pass makes it, moves nobody and takes no seat and no series clock of a
  moved day; and it parks a one-off only if no window has room.
- `PlanDisturbsNobody`: a claim that is seated has what it asked for or a hole; nobody
  who stays is under it; those who move are movable, and land free of the claim, of
  those who stay and of each other. The chain of `Reseat` and the packing of a day are
  recursive functions over a number of rounds; `ChainOK` and `AllPlaced` are what each
  round keeps (`Iterated` carries a fact along such a function), and `Sound` says of a
  partial answer that it holds against the seats vacated so far.

`PlacementStepProofs` about the calendar, for every number of tasks, series and days,
every clock, deadline, phase and length, and every number of operations:

- `CalendarStaysSound`: the inductive invariant `Inv`. Its parts are `Shape` (what a
  row's state implies for slot and clock, the day holders, `born` lists each existing
  task once), `TopsKnown` (only tasks put on top are resolved), `Apart` (open slots that
  nothing excuses do not overlap, nor a day a series holds) and `NobodyLost`. No property is
  inductive alone: that a plan's moves write the right rows needs that each task has one
  seat (`Shape`), and that the plan's seats are apart says something about slots only
  because every open slot was among the rows it was made from (`RowsAre`).
- The argument of a step. `Rows` and `CutToDay` give sound seats, one per open slot
  (`RowsRead`, `CutRows`); `PlanDisturbsNobody` makes the plan free of them; `MovesMade`
  turns its moves into rows, which `PlanKeepsApart` shows to be apart; `Leaves` says what a placement of one task
  leaves: a sound calendar, this task housed, everyone else as before, seated elsewhere
  or parked. `Leaves` is kept through writing, rejoining a series, the second try in the
  nearest hole and the pass over the inbox, and each action is one use of it.
- `OneHolderPerDay`, `NobodyIsLost`, `NobodyIsDoubleBooked` follow from `Inv`.
- `RetriedCreateKeepsSeat`, an action property. `Inv` does not say where a slot is with
  respect to its row's clock, so the invariant is `Inv /\ Clocked(World)`: a slot starts
  on its clock unless that clock has begun, a fixed task sits on its clock for its length
  and has no deadline, and a copy is flexible and no create job is about it. Each writer
  of rows keeps it (`PutClocked`, `PersistedClocked` and so on). Then a create that runs again asks for the
  very seat the row has (`SeatIsAsked`), which lies in its windows (`SeatFitsAgain`). A plan
  with nobody on top gives what was asked or refuses (`AskedIsGiven`, `PlannedAgain`): it
  never looks for another hole. What is given is written (`WrittenSeat`), and a refusal
  writes no slot.
- `PushedOnlyOnItsDay`, an action property, under the same invariant. A plan moves a seat
  only into its own windows, cut to its civil day (`DayClaim`), its phase and its deadline
  (`TimelyIn`), and moves no anchor: `KeepsToDay` (`MoversKeepDay`) says so of the moves,
  `OnItsDay` of the rows they become (`MovedOnItsDay`), and `Displaced` that a fixed task
  is left alone. `Courteous` carries this through writing, rejoining and the second try
  of one placement, with the exception the property names (a clock asked for
  overnight); a pass over the inbox pushes nobody (`FillLeaves`). `Gentle` is what each action then has of
  everyone but its own task. That a fixed task is not moved by its own create job either is
  `FixedSeatKept`: it asks for its clock, which is its seat by `Clocked`.
- `InboxIsSeated`, the action property `FillingUsesHoles`, under the same invariant. For
  one task (`InboxPlan`): it is seated beside everyone, or given up for good, or, unless
  it waits for a day of its own, every place it could take touches the time of a row its
  search was given (`Crowded`). A row is
  a slot, a series day, the clock of a fixed task, or the series clock a copy still owns
  (`RowsMeet`): so the place meets time that is taken or reserved in the calendar
  (`Hit`). That stays so for the rest of the pass (`HitStays`): each later task is
  parked before and seated beside the others after (`Beside`), also when it rejoins its
  series (`ReturnsAlone`), so nobody leaves a place. `HolesFilled` carries this, and that
  no one else's row changes, along the queue of the pass. `Reserved` of the property is
  all the time a search keeps free though nobody sits on it; for a copy in progress
  that is the series clock of either of its two seats, before and after now.

They assume `PlacementAssumption`, `InputAssumption` (ids of different sorts differ, times
are naturals, None is not a time) and `CalendarAssumption` (days follow one another, the
clocks of the series lie in a day and do not overlap each other; placing series is not
part of this module, and the engine seats them where they are free).

`SeriesDaysProofs`, for any number of days, clocks, members, requests and any rules:

- `SeriesTypeCorrect`.
- `OneOccurrencePerDay`. `OneOccurrence` counts members and copies of
  a day; what is inductive is `DayOK`, which says of a day that it is of one of two kinds:
  at most one row of one member and no copy (`RowDay`), or no row and at most one copy,
  whose series skips the day (`CopyDay`); and that a day the user dismissed is bare and
  still skipped by some member. A step either takes from a day (`ShrinksKeeps`), moves its
  row into a copy, or writes rows on days that were bare before. Days in `astray`
  (section 4) are left out here, as in the property.
- `SkippedDaysStay`, an action property without that exception. A member's plan and its
  append never name a day the member skips, so no row comes to it (`NextSkips`); moves,
  edits and rejoins start from a row or a copy that is there, which a bare day has not;
  and the only operation that takes a day off the list of skips, the rejoin, is of a
  copy that holds the day. What remains is another member that does not skip the day,
  and `series_skips` shows it.
- `PastDaysStay`, an action property: what is over stays in the calendar, but on a day
  gone `astray` and when the user deletes a copy (`HistoryKept` of each action).

- `NoDayIsLost`. The pass extends one member of the group, the one with the latest
  seat, so the day named by another would never come. What is inductive is `Inv2`. `Kept`:
  a day is held, or all members begin by then (`Leads`) and one of them `Awaits` it: it
  names the day and, in a single line, has no row, skip or copy after it (`Clean`).
  `Lined`: until a clock sibling joins (`Mixed`), members follow one another in time, each
  ended before the next begins and with earlier seats. `Ruled` and `Fits` say of which
  days rows, skips and copies can be. A step may take days from a member only if it skips
  them too (`Lesser`, `LessIsSound`), or rewrite it whole (`ReplanKeeps`), or let a
  member join (`JoinSound`); with `LatestSeat` the awaiting member is the one
  that `lastContinuingSeriesIds` picks (`LeaderContinues`).

They assume `SeriesAssumption`; that `MaxTime` is at least 2 only says that the clock may
begin.

`GoogleSyncProofs` about the outbox, for every set of tasks and every depth of transactions:

- `OutboxTypeCorrect`, `IntentsAreCommitted`, `RollbacksAreClean`, `KicksFollowCommits`.
  The properties speak of the state after the outermost commit or rollback; the
  invariant says the same of every level. `Level` relates tables to notes (what is
  written or noted is true of the tables, what the tables hold is written or
  noted); `TopFits` claims it of the connection now, `StackFits` of every
  transaction to go back to, with the copy of the notes that belongs to it, and
  `FlushFits` that between the flush and the COMMIT the notes are the rows written.

`GoogleSyncProofs` about the write queue, for every set of tasks and workers and every bound:

- `TypeCorrect`.
- `OneSender`, if living workers keep their leases (`MaxStalls = 0`) and no sweep
  claims a row it read before a reset (`SlowSweep = FALSE`). The fence itself is too
  weak to be inductive, because the attempts it compares are reset; the lease is what
  holds. `FenceInv`: a sender owns its row, the lease lives, and the revision it read
  is not above the row's (`Fenced`), and a task has one sender (`Alone`).
- `NothingIsForgotten` and `FailsAtNewest`, if also no transaction that saw no grant
  commits after a reconnect (`SlowCommit = FALSE`). `TrackInv` says of every task that it
  is excused or known. `Excused`: it was edited while the account was away and there is
  still no grant, or the listener has yet to look for it or to record it; or the
  reconnect left it as it was (`missed`). `Known`: nothing would be left unsent if no
  more were recorded (`~Unsent`: a gone row means Google is up to date, and a sender
  whose row has not changed holds the content), and a row that failed was tried at the
  newest content or is about to be reopened or revived (`KnownFailed`). A task that stops
  being excused at the find is not lost: it is listed, or it is recorded already, or it
  has no end and no event, and then Google shows as much as there is. `KnownFailed` needs
  the listener because the tried content is that of an attempt, and an edit made while
  away reopens nothing: the revival after every reconnect does.
  Section 4 names where the code does not grant each assumption.

`TaskCreateProofs`, for any number of requests, keys, contents and faults:

- `SpecTypeOK`, `SpecOneTaskPerKey`, `SpecAnswersFit`, `SpecWipedStaysEmpty`.
  `KeysInv`: a key was only sent with one content, and the next key of a slot not at
  all, so `keyForSubmission` and the server's 422 never meet. `StoreInv`: a record goes
  with every task until its retention is over, and no two records have one key; the
  lock is not needed for it, the unique index is. `WipeInv`: while the deletion is under way,
  a key is one it found or of a create that committed since, and the user goes only when
  every task is one it found; so a task always has its user.
- `SpecFormRetryKeepsKey`: in a form, Save after an error or a lost answer sends the
  key of the last press for as long as the content is the same. `FormInv`: only the
  form's last send can be under way, and until that succeeds the form holds its key.

`RemindersProofs`, for any number of instances, browsers, blocks and mishaps:

- `SpecTypeOK`, `SpecNotSentAgain`, `SpecRowsAreEarned`, provided a row outlives its
  window and a tick (`Lookahead + MaxTick <= Ttl + 1`; in the code 30 minutes and a
  tick against 3 days). The hard part is the purge: `DoneInv` says that a reminder that
  was taken and has no row is for a block that had started when every tick at work
  began, and `RowsInv`, `DueInv`, `ClockInv` are what makes the purge keep it.
  `HoldsInv` and `OkInv` say what a tick has claimed and knows of its pushes.
- `SpecNobodyMissed`, an action property: the unit may end only when a tick of it is over,
  and `WarnInv` says how far each tick of this unit is with a block left alone since the
  unit began. A tick that read has its seat and knows of no delivery for it that was not
  earned; one that chose has its reminder still to claim, or it was given (`OnItsWay`).
  `DueWhenSoon`: with the event where the task is, or none seen, the block is due, as an
  event or as a task. What was given stays given (`ToldStays`) but for a claim
  that reached nobody, after which the block does not count as left alone.

`VoiceSessionProofs`, for any operations, plans, rows, turns, panels, sessions, edits
and restarts:

- `TypeCorrect`, `OnlyWhatWasShown`, `AgainstUnchangedRows`, `HandedOverOnce`,
  `SilentWritesStay`, `CancelIsFinal`. They follow together from `IInv`, the types
  with `DialogueInv`. `Apart` and `Counted`: a session and the turn in its lane are of
  one epoch that no other session or later claim has, so a late turn or claim of a
  dropped session changes nothing else. `AllSound`: what was handed over or withdrawn
  is behind the version of its session and is not its open preview, and a claim that
  names the open preview shows its intents. `AllKept`: operations and preview were
  captured up to the catalog, rows are read after it, and the ledger calls a write
  that was handed over and never reported pending or, once a turn has begun, unknown.
- Steps are proved in groups: a turn softens its session, cancels, shows a new preview,
  reads on or hands over (`TurnSteps`); a step moves one session (`MovesKeeps`) or only
  drops some (`SteadyKeeps`). `IdsFit` is needed: a group takes fewer than the hundred
  ids `sequenceAllocator` leaves it, or a new execution could be an old one's.

Only model-checked: of `PlacementStep` the upper bound on times in `TypeOK` (it is about
the inputs of the run; the rest of it is in `Shape`) and `GapStartsAreExact` (its lists
are sorted by `SortSeq`, which the provers know nothing of); the three expected
violations; and all liveness.
Not provable with the installed provers: liveness under fairness, `ENABLED`, and
what a fold or a recursive function computes for every input (induction over
data). No module declares a RECURSIVE operator.

## 6. What is not modelled

- The effect of handlers on tasks (in `PlacementStep`) and on job rows (in
  `MutationQueue`) are two models; that a `place` job runs `PlaceSaved` is stated
  by the repeated job (`again`) in one and by `Mark` in the other.
- `PlacementStep`: a drag's phase write and its placement are one step, although they
  are two locked sections (`DEM:377`, `DEM:397`); likewise the status and the
  revalidation of `Reopen`. Not included: fixed series, external anchors, the
  earliest start of a task, form edits (`commit: 'keep'` without a status change), dry runs, weekends and time
  zones (a day is `DayLen` units).
- Rows are met oldest first and newest first, not in every order.
- `MutationQueue`: a row left over from Generate is failed by a save without a condition
  and with the stage 'failed'. Nothing else writes such a row, so `FailLegacy` reads and
  writes it in one step, and `error` stands for both stages of a failed job.
- Google: delete rows' own life, event ids, edits pulled from Google, fairness
  between users, contents other than "which change". A task stores an event id as long as
  Google shows its event, so a send that fails between the two is not told apart. Which
  one-offs are past is free at the find and not remembered.
- `SeriesDays`: a series deleted whole. `SkipDay` and `EndFrom` take days with an open row,
  the ones a calendar shows; `recordSkip` and `recordSeriesEnd` take any day a request
  names. A series turned into a single task, a changed rule, contents that keep a
  copy from rejoining, the texts of recurrences sent to Google. The seats are any the
  engine may answer; that it answers free ones is `PlacementStep`'s.
- `TaskCreate`: what a task contains. The purge of Google artifacts before the wipe.
- `Reminders`: one user; the texts, Web Push itself, the secret of the cron route.
- `VoiceSession`: what an utterance means and how operations patch each other; scopes of
  searches; events of providers; one user with one panel. A late answer can turn the
  microphone of a closed panel on again, and what is said then starts a session
  (`ensureSessionId`); in the model that is `Open` and then `Say`. An operation stands for its
  intent and for the ledger key of that intent.
- Exposed and not in a model: the id stored before an insert (`PG:533`), a remote edit
  against a waiting write (`PG:468`), one user's backlog against the others'
  (`PG:294`).
- Components listed as not modelled are CRUD, parsing, presentation, or planned below.

## 7. Plan

Done, in this order, the most important behaviour first: the queue with its
promise, the lock, the outbox, the Google queue, the plan of a placement, the
calendar; then the voice dialogue, the creates, the reminders and the series, and the
proofs about the outbox, the Google queue, the creates, the reminders, the voice
dialogue, the series and the calendar.

Next, in this order:

1. `TaskMoves`: superseded drops (`SJ:290`, isSuperseded) and the restored phase
   (`DEM:270-466`): two locked sections with other drops between them. Properties: the
   last drop wins, a refused drop leaves the phase of the last accepted one.
   It composes with `MutationQueue` through the job rows it reads.
2. `GoogleEventLink`: stored ids, lost insert answers, delete rows, pulled edits.
3. `SessionRefresh` (`auth.service.ts:19-61`): rotation against the client's retry.
4. `AccountDeletion` (`account-deletion.service.ts:59-224`): the purge of Google
   artifacts and the revocation of the grant before the wipe.
5. `DayReminders`: the next due day as a function, against its definition.

Theorem worth proving next: `GapStartsAreExact`, once the merge of intervals is written
with a sort the provers can reason about; and with each new module the invariant its runs
check.
