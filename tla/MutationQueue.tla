--------------------------- MODULE MutationQueue ---------------------------
(***************************************************************************)
(* The durable mutation queue: rows of schedule_jobs and the execution     *)
(* flows that run them (backend/src/modules/schedule/schedule-job.service  *)
(* and the handlers in tasks.service and displayed-event-move.service).    *)
(*                                                                         *)
(* A flow is one run of "claim, then execute" (the fast path runNow or one *)
(* step of the recovery sweep) or one HTTP request that finishes an inline *)
(* job itself.  Flows live in several backend processes, and a process may *)
(* die between any two awaits: each await is an action here.               *)
(*                                                                         *)
(* Times are kept as what the code compares them to: "due" is              *)
(* nextRunAt <= now, and a lease is null, live (leaseUntil >= now) or      *)
(* expired.                                                                *)
(***************************************************************************)
EXTENDS Naturals

CONSTANTS Jobs,         \* rows of schedule_jobs
          NoJob,        \* the job of an idle flow
          Flows,        \* execution flows that can exist at a time
          Kinds,        \* the kinds of job this instance begins
          MaxAttempts,  \* MUTATION_MAX_ATTEMPTS (5 in the code)
          MaxFaults,    \* bound: crashes plus leases lost by a living flow
          SlowRead      \* may a lease run out between claim and execute's read?

AllKinds == {"place", "sync", "move", "inline", "unknown"}

ASSUME NoJobAssumption == NoJob \notin Jobs
ASSUME KindsAssumption == Kinds \subseteq AllKinds
ASSUME AttemptsAssumption == MaxAttempts \in Nat \ {0}
ASSUME FaultsAssumption == MaxFaults \in Nat
ASSUME SlowReadAssumption == SlowRead \in BOOLEAN

VARIABLES row,     \* [Jobs -> Row], the table
          flow,    \* [Flows -> Flow], the processes' memory
          faults,  \* faults used so far
          hist     \* [Jobs -> Hist], history for the properties only

vars == <<row, flow, faults, hist>>

Status == {"absent", "pending", "running", "done", "failed", "purged"}
Finished == {"done", "failed"}

\* "legacy" rows are left over from Generate / replan; nothing begins them.  The
\* stage "error" is also their 'failed'.
Row == [status   : Status,
        kind     : AllKinds \cup {"legacy"},
        attempts : Nat,
        due      : BOOLEAN,
        lease    : {"null", "live", "expired"},
        stage    : {"progress", "done", "error"},
        placed   : BOOLEAN]

\* "claimed": claim answered, execute has not read the row; "refuse": read,
\* about to fail an inline or unhandled job; "place", "mark", "sync": inside
\* the handler; "returned": the handler returned; "finish": the row was read
\* again and is not finished; "inline": the request's own work.
Handling == {"place", "mark", "sync", "returned", "finish"}
PCs == {"idle", "claimed", "refuse", "inline"} \cup Handling

\* mine: the attempt number this flow's claim wrote; fence: the one it read.
Flow == [pc : PCs, job : Jobs \cup {NoJob}, mine : Nat, fence : Nat]
IdleFlow == [pc |-> "idle", job |-> NoJob, mine |-> 0, fence |-> 0]

Hist == [takeovers  : Nat,  \* claims of a running row
         placements : Nat,  \* placements committed
         lostMarks  : Nat,  \* placements whose payload mark failed to write
         decider    : Nat]  \* claim whose flow wrote the final status

TypeOK ==
    /\ row \in [Jobs -> Row]
    /\ flow \in [Flows -> Flow]
    /\ faults \in Nat
    /\ hist \in [Jobs -> Hist]

-----------------------------------------------------------------------------

\* The WHERE clause that fences an outcome: { id, status: 'running', attempts }.
Owns(j, n) == row[j].status = "running" /\ row[j].attempts = n

Due(j) == row[j].status = "pending" /\ row[j].due

\* The process that held it stopped renewing its lease.
Orphaned(j) == row[j].status = "running" /\ row[j].lease = "expired"

Idle(w) == flow[w].pc = "idle"

\* A flow of the latest claim of j still lives.
HasLiveOwner(j) ==
    \E w \in Flows : ~Idle(w) /\ flow[w].job = j /\ flow[w].mine = row[j].attempts

Goto(w, pc) == flow' = [flow EXCEPT ![w].pc = pc]
Leave(w) == flow' = [flow EXCEPT ![w] = IdleFlow]

\* UPDATE ... SET status, progressStage of completeMutationJob / failMutationJob.
Finish(j, status) ==
    row' = [row EXCEPT ![j].status = status,
                       ![j].stage = IF status = "done" THEN "done" ELSE "error"]

\* Slip: a stage update without the status condition.
SetStageAlways(j) == row' = [row EXCEPT ![j].stage = "progress"]

\* setMutationStage: progress only, and only while the row is running.
SetStage(j) ==
    row' = [row EXCEPT ![j].stage = IF row[j].status = "running" THEN "progress" ELSE @]

Decided(w, status) ==
    LET j == flow[w].job
    IN  /\ Finish(j, status)
        /\ hist' = [hist EXCEPT ![j].decider = flow[w].mine]

\* A finisher called without a fence (move handlers, inline requests): any row.
UnfencedFinish(w, status) ==
    IF row[flow[w].job].status # "purged"
    THEN Decided(w, status)
    ELSE UNCHANGED <<row, hist>>

\* A finisher called with the fence: nothing is written once the claim is lost.
FencedFinish(w, status) ==
    IF Owns(flow[w].job, flow[w].fence)
    THEN Decided(w, status)
    ELSE UNCHANGED <<row, hist>>

\* The update of failOrRetry that puts the job back for a later attempt.
FencedRetry(w) ==
    LET j == flow[w].job
    IN  IF Owns(j, flow[w].fence)
        THEN /\ row' = [row EXCEPT ![j].status = "pending", ![j].due = FALSE,
                                   ![j].lease = "null", ![j].stage = "progress"]
             /\ hist' = [hist EXCEPT ![j].lostMarks =
                                       IF flow[w].pc = "mark" THEN @ + 1 ELSE @]
        ELSE UNCHANGED <<row, hist>>

-----------------------------------------------------------------------------

NewRow(kind) ==
    [status |-> "absent", kind |-> kind, attempts |-> 0, due |-> FALSE,
     lease |-> "null", stage |-> "progress", placed |-> FALSE]

LegacyRow == [NewRow("legacy") EXCEPT !.status = "pending", !.due = TRUE]

NoHist == [takeovers |-> 0, placements |-> 0, lostMarks |-> 0, decider |-> 0]

Init ==
    /\ row \in [Jobs -> {NewRow(k) : k \in Kinds} \cup {LegacyRow}]
    /\ flow = [w \in Flows |-> IdleFlow]
    /\ faults = 0
    /\ hist = [j \in Jobs |-> NoHist]

\* beginMutationJob, committed with the state change it belongs to.
Begin(j) ==
    /\ row[j].status = "absent"
    /\ row[j].kind # "inline"
    /\ row' = [row EXCEPT ![j].status = "pending", ![j].due = TRUE]
    /\ UNCHANGED <<flow, faults, hist>>

\* The same with { inline: true }: the request w owns the row from the start.
BeginInline(w, j) ==
    /\ Idle(w)
    /\ row[j].status = "absent"
    /\ row[j].kind = "inline"
    /\ row' = [row EXCEPT ![j].status = "running", ![j].attempts = 1, ![j].lease = "live"]
    /\ flow' = [flow EXCEPT ![w] = [pc |-> "inline", job |-> j, mine |-> 1, fence |-> 1]]
    /\ UNCHANGED <<faults, hist>>

\* Slip: the sweep takes pending rows only, never an orphaned one.
ClaimPendingOnly(w, j) ==
    /\ Idle(w)
    /\ row[j].kind # "legacy"
    /\ Due(j)
    /\ row' = [row EXCEPT ![j].status = "running", ![j].lease = "live",
                          ![j].attempts = @ + 1]
    /\ flow' = [flow EXCEPT ![w] = [pc |-> "claimed", job |-> j,
                                    mine |-> row[j].attempts + 1, fence |-> 0]]
    /\ UNCHANGED <<faults, hist>>

\* Slip: a takeover keeps the attempt number, so the old fence still fits.
ClaimSameAttempt(w, j) ==
    /\ Idle(w)
    /\ row[j].kind # "legacy"
    /\ Due(j) \/ Orphaned(j)
    /\ LET n == IF Orphaned(j) THEN row[j].attempts ELSE row[j].attempts + 1
       IN  /\ row' = [row EXCEPT ![j].status = "running", ![j].lease = "live",
                                 ![j].attempts = n]
           /\ flow' = [flow EXCEPT ![w] = [pc |-> "claimed", job |-> j,
                                           mine |-> n, fence |-> 0]]
    /\ hist' = [hist EXCEPT ![j].takeovers = IF Orphaned(j) THEN @ + 1 ELSE @]
    /\ UNCHANGED faults

\* The conditional UPDATE of claim, from runNow or from processDue.
Claim(w, j) ==
    /\ Idle(w)
    /\ row[j].kind # "legacy"
    /\ Due(j) \/ Orphaned(j)
    /\ row' = [row EXCEPT ![j].status = "running", ![j].lease = "live",
                          ![j].attempts = @ + 1]
    /\ flow' = [flow EXCEPT ![w] = [pc |-> "claimed", job |-> j,
                                    mine |-> row[j].attempts + 1, fence |-> 0]]
    /\ hist' = [hist EXCEPT ![j].takeovers = IF Orphaned(j) THEN @ + 1 ELSE @]
    /\ UNCHANGED faults

\* Slip: a retried handler that ignores payload.placed.
ReadPlacesAgain(w) ==
    LET r == row[flow[w].job]
        next == IF r.kind \in {"inline", "unknown"} THEN "refuse"
                ELSE IF r.kind = "sync" THEN "sync" ELSE "place"
    IN  /\ flow[w].pc = "claimed"
        /\ IF r.status = "purged"
           THEN Leave(w)
           ELSE flow' = [flow EXCEPT ![w].pc = next, ![w].fence = r.attempts]
        /\ UNCHANGED <<row, faults, hist>>

\* execute reads the row: the fence is the attempts column it finds there.
Read(w) ==
    LET j == flow[w].job
        r == row[j]
        next == IF r.kind \in {"inline", "unknown"} THEN "refuse"
                ELSE IF r.kind = "sync" \/ r.placed THEN "sync"
                ELSE "place"
    IN  /\ flow[w].pc = "claimed"
        /\ IF r.status = "purged"
           THEN Leave(w)
           ELSE flow' = [flow EXCEPT ![w].pc = next, ![w].fence = r.attempts]
        /\ UNCHANGED <<row, faults, hist>>

\* Fail an interrupted inline job, or one no handler is registered for.
Refuse(w) ==
    /\ flow[w].pc = "refuse"
    /\ FencedFinish(w, "failed")
    /\ Leave(w)
    /\ UNCHANGED faults

\* setMutationStage('placing') and the placement's own commit.
Place(w) ==
    LET j == flow[w].job
    IN  /\ flow[w].pc = "place"
        /\ SetStage(j)
        /\ Goto(w, IF row[j].kind = "move" THEN "sync" ELSE "mark")
        /\ hist' = [hist EXCEPT ![j].placements = @ + 1]
        /\ UNCHANGED faults

\* A handler with nothing to do: the task is gone, or a newer drop exists.
NothingToDo(w) ==
    /\ flow[w].pc \in {"place", "sync"}
    /\ Goto(w, "returned")
    /\ UNCHANGED <<row, faults, hist>>

\* mergeMutationPayload(placed: true), written whoever owns the row by now.
Mark(w) ==
    /\ flow[w].pc = "mark"
    /\ row' = [row EXCEPT ![flow[w].job].placed = TRUE]
    /\ Goto(w, "sync")
    /\ UNCHANGED <<faults, hist>>

\* setMutationStage('syncing'), the Google sync, and the handler's return.
Sync(w) ==
    LET j == flow[w].job
    IN  /\ flow[w].pc = "sync"
        /\ row[j].kind # "move"
        /\ SetStage(j)
        /\ Goto(w, "returned")
        /\ UNCHANGED <<faults, hist>>

\* A move handler writes its own outcome, done or (HttpException) failed.
MoveFinish(w) ==
    /\ flow[w].pc \in {"place", "sync"}
    /\ row[flow[w].job].kind = "move"
    /\ \/ flow[w].pc = "sync" /\ UnfencedFinish(w, "done")
       \/ UnfencedFinish(w, "failed")
    /\ Goto(w, "returned")
    /\ UNCHANGED faults

\* execute reads the row again: some handlers finished their own job.
ReadAgain(w) ==
    /\ flow[w].pc = "returned"
    /\ IF row[flow[w].job].status \in Finished THEN Leave(w) ELSE Goto(w, "finish")
    /\ UNCHANGED <<row, faults, hist>>

Complete(w) ==
    /\ flow[w].pc = "finish"
    /\ FencedFinish(w, "done")
    /\ Leave(w)
    /\ UNCHANGED faults

\* Anything thrown inside execute's try: a refusal (4xx) or the last attempt
\* fails the job, anything else goes back to the queue with a backoff.
FailOrRetry(w, refused) ==
    /\ flow[w].pc \in Handling
    /\ refused => flow[w].pc \in {"place", "sync"} /\ row[flow[w].job].kind # "move"
    /\ IF refused \/ flow[w].fence >= MaxAttempts
       THEN FencedFinish(w, "failed")
       ELSE FencedRetry(w)
    /\ Leave(w)
    /\ UNCHANGED faults

\* The inline request's own outcome, without a fence.
InlineFinish(w) ==
    /\ flow[w].pc = "inline"
    /\ UnfencedFinish(w, "done")
    /\ Leave(w)
    /\ UNCHANGED faults

\* The inline request throws: nothing touches its row any more.
InlineThrow(w) ==
    /\ flow[w].pc = "inline"
    /\ Leave(w)
    /\ UNCHANGED <<row, faults, hist>>

\* The interval of execute, from the handler's start to the finally.
Heartbeat(w) ==
    LET j == flow[w].job
    IN  /\ flow[w].pc \in Handling
        /\ Owns(j, flow[w].fence)
        /\ row' = [row EXCEPT ![j].lease = "live"]
        /\ UNCHANGED <<flow, faults, hist>>

\* The process dies, or the database is out of reach for its last write.
Crash(w) ==
    /\ ~Idle(w)
    /\ faults < MaxFaults
    /\ faults' = faults + 1
    /\ Leave(w)
    /\ UNCHANGED <<row, hist>>

\* leaseUntil passes: a dead owner's always does; a live owner's when its
\* heartbeats fail or its process is paused for two minutes (a fault).
LeaseRunsOut(j) ==
    /\ row[j].status = "running"
    /\ row[j].lease = "live"
    /\ row' = [row EXCEPT ![j].lease = "expired"]
    /\ IF HasLiveOwner(j)
       THEN /\ faults < MaxFaults
            /\ faults' = faults + 1
            /\ \/ SlowRead
               \/ \A w \in Flows : flow[w].pc = "claimed" => flow[w].job # j
       ELSE UNCHANGED faults
    /\ UNCHANGED <<flow, hist>>

\* nextRunAt passes.
BackoffEnds(j) ==
    /\ row[j].status = "pending"
    /\ ~row[j].due
    /\ row' = [row EXCEPT ![j].due = TRUE]
    /\ UNCHANGED <<flow, faults, hist>>

\* The sweep fails a leftover Generate / replan row as it read it; nothing else
\* writes such a row before it is purged.
FailLegacy(j) ==
    /\ row[j].kind = "legacy"
    /\ Due(j)
    /\ Finish(j, "failed")
    /\ UNCHANGED <<flow, faults, hist>>

\* purgeFinishedJobs: the delete repeats the status condition of the select.
Purge(j) ==
    /\ row[j].status \in Finished
    /\ row' = [row EXCEPT ![j].status = "purged"]
    /\ UNCHANGED <<flow, faults, hist>>

FlowStep(w) ==
    \/ Read(w) \/ Refuse(w) \/ Place(w) \/ NothingToDo(w) \/ Mark(w) \/ Sync(w)
    \/ MoveFinish(w) \/ ReadAgain(w) \/ Complete(w)
    \/ \E refused \in BOOLEAN : FailOrRetry(w, refused)
    \/ InlineFinish(w) \/ InlineThrow(w)

Next ==
    \/ \E j \in Jobs : \/ Begin(j) \/ LeaseRunsOut(j) \/ BackoffEnds(j)
                       \/ FailLegacy(j) \/ Purge(j)
                       \/ \E w \in Flows : BeginInline(w, j) \/ Claim(w, j)
    \/ \E w \in Flows : FlowStep(w) \/ Heartbeat(w) \/ Crash(w)

\* The sweep runs every 2 s, time passes, and a living flow's awaits return
\* (every request it makes has a timeout).  Crashes are not fair.
Fairness ==
    /\ \A w \in Flows : WF_vars(FlowStep(w))
    /\ \A j \in Jobs : /\ WF_vars(\E w \in Flows : Claim(w, j))
                       /\ WF_vars(LeaseRunsOut(j) /\ ~HasLiveOwner(j))
                       /\ WF_vars(BackoffEnds(j))
                       /\ WF_vars(FailLegacy(j))

Spec == Init /\ [][Next]_vars /\ Fairness

-----------------------------------------------------------------------------

Fenced == {j \in Jobs : row[j].kind \in {"place", "sync", "unknown"}}

\* Two flows never work on the same attempt of a job: of the flows that read
\* the row with one attempt number at most one exists (claim's promise that
\* the fast path and the sweep never run the same attempt).
SoleOwner ==
    \A v, w \in Flows :
        /\ flow[v].pc \in Handling /\ flow[w].pc \in Handling
        /\ flow[v].job = flow[w].job
        /\ flow[v].fence = flow[w].fence
        => v = w

\* The final status of a job whose outcome is fenced was written by the flow
\* of its latest claim: a flow whose lease was taken over cannot overwrite the
\* newer outcome (AUD-007).
OutcomeOfLatestClaim ==
    \A j \in Fenced :
        row[j].status \in Finished => hist[j].decider = row[j].attempts

\* No unfinished job is stranded: a running row always carries a lease (the
\* sweep never takes over a null one) and a pending row still has an attempt
\* left; and the stage the client polls is final exactly when the status is,
\* so progress written late never brings a finished job back.
NotStranded ==
    \A j \in Jobs :
        LET r == row[j]
        IN  /\ r.status = "running" => r.lease # "null" /\ r.stage = "progress"
            /\ r.status = "pending" => r.attempts < MaxAttempts /\ r.stage = "progress"
            /\ r.status = "done" => r.stage = "done"
            /\ r.status = "failed" => r.stage = "error"

\* Retries are bounded: more than MaxAttempts attempts only by as many as a
\* lease was taken over.
AttemptsBounded ==
    \A j \in Jobs : row[j].attempts <= MaxAttempts + hist[j].takeovers

\* "A retry after a failed sync only syncs": a create or update job places its
\* task again only after a lost lease, a crash, or a failed payload mark.
PlacementsPaidFor ==
    \A j \in Jobs :
        row[j].kind = "place" =>
            hist[j].placements <= 1 + hist[j].takeovers + hist[j].lostMarks

\* What the polling client has been told of a job.
Answer(r) == CASE r.status = "absent" -> "none"
               [] r.status \in {"pending", "running"} -> "open"
               [] OTHER -> r.status

\* Move and inline jobs are left out: their finishers are not fenced.
Promise == INSTANCE JobPromise WITH
    answer <- [j \in Jobs |-> IF j \in Fenced THEN Answer(row[j]) ELSE "none"]

PromiseToAll == INSTANCE JobPromise WITH answer <- [j \in Jobs |-> Answer(row[j])]

\* Every accepted job whose outcome is fenced gets exactly one final answer, it
\* never changes, and it comes: the queue implements JobPromise
\* (placement-engine.md, leases, heartbeat and fencing).
KeepsPromise == Promise!Spec

\* The safety half alone.
KeepsAnswers == Promise!Safety

\* The safety half for every job: no answer is ever taken back.
AnswersAreFinal == PromiseToAll!Safety

=============================================================================
