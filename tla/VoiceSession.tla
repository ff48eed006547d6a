---------------------------- MODULE VoiceSession ----------------------------
(***************************************************************************)
(* The voice dialogue: one user's panel in the browser, the sessions the   *)
(* server keeps in one process, and the stored rows the commands write to. *)
(* A turn previews, the user confirms with the claim of the preview on the *)
(* screen, the server hands the intents back, the browser runs them and    *)
(* reports what happened.                                                  *)
(*                                                                         *)
(* Abstracted: what is said is the effect the interpreter may give it; an  *)
(* operation stands for its intent and for the ledger key of that intent;  *)
(* a stored row is its revision.  The lane of a session is one turn at a   *)
(* time, in any order of arrival.                                          *)
(***************************************************************************)
EXTENDS Integers, FiniteSets

CONSTANTS
  Ops,        \* operations the user may ask for
  PlanOps,    \* operations a day plan may consist of
  Entities,   \* stored rows
  TargetOf,   \* the row an operation changes, or NoEntity for a create
  NoEntity,
  IdCounts,   \* ids one group of operations takes, its execution id the last
  MaxTurns,   \* bound: calls of the browser
  MaxSids,    \* bound: times the panel is opened
  MaxEpochs,  \* bound: session entries the server creates
  MaxEdits,   \* bound: changes of rows from elsewhere
  MaxDrops    \* bound: restarts and sessions dropped by age

\* A group takes fewer than the hundred ids sequenceAllocator leaves it.
ASSUME IdsFit == IdCounts \subseteq 1..99
ASSUME PlanIsApart == PlanOps \subseteq Ops
ASSUME Targets == TargetOf \in [Ops -> Entities \cup {NoEntity}] /\ NoEntity \notin Entities
ASSUME Bounds == {MaxTurns, MaxSids, MaxEpochs, MaxEdits, MaxDrops} \subseteq Nat

VARIABLES
  rev,       \* revision of each stored row
  entries,   \* session id -> the server's entry, or Gone
  turn,      \* session id -> the turn in its lane, or Idle
  reqs,      \* calls on their way to the server
  answers,   \* answers on their way back
  panel,     \* the browser: session, busy, card on screen, claim it holds
  calls,     \* turns the browser still waits for
  batches,   \* intents the browser is to run
  count,     \* turns, panels, epochs, edits and drops so far
  dispatches,\* history: every act the server answered
  withdrawn  \* history: every execution a cancel retired

vars == <<rev, entries, turn, reqs, answers, panel, calls, batches, count, dispatches, withdrawn>>
history == <<dispatches, withdrawn>>
browser == <<panel, calls, batches>>

Sids == 1..MaxSids
Gone == [epoch |-> 0]
Idle == [stage |-> "idle"]
NoClaim == [exec |-> 0]
NoPreview == [exec |-> 0]
Absent == -1
NoRows == <<>>
Statuses == {"none", "pending", "succeeded", "failed", "unknown"}

\* What the browser reports of one intent, and what the ledger makes of it.
LedgerStatus ==
  [applied |-> "succeeded", conflict |-> "succeeded", skipped |-> "failed",
   refused |-> "failed", error |-> "unknown"]

-----------------------------------------------------------------------------
(* One entry of the registry *)

NewEntry(epoch) ==
  [epoch |-> epoch, version |-> 0,
   ops |-> [o \in Ops |-> Absent],       \* revision each operation was captured at
   preview |-> NoPreview,
   fp |-> [e \in Entities |-> Absent],   \* revisions the preview was built on
   intents |-> {}, question |-> FALSE, blocks |-> FALSE, draft |-> FALSE,
   ledger |-> [o \in Ops |-> "none"], sent |-> {},
   dropped |-> {}]                       \* history: cancelled and not asked for again

IsOpen(s) == s.preview # NoPreview /\ s.preview.state = "open"
Pending(s) == {o \in Ops : s.ops[o] # Absent}
CanConfirm(s) == ~s.question /\ s.intents # {}

\* The claim of the open preview, with what it shows (epoch and what are not
\* sent: they say which preview the two fields that are sent came from).
OpenClaim(s) ==
  IF ~IsOpen(s) THEN NoClaim
  ELSE [exec |-> s.preview.exec, rev |-> s.preview.rev, epoch |-> s.epoch, what |-> s.intents]

Names(claim, s) ==
  /\ claim # NoClaim
  /\ s.preview # NoPreview
  /\ s.preview.exec = claim.exec
  /\ s.preview.rev = claim.rev

ClearPending(s) == [s EXCEPT !.intents = {}, !.question = FALSE]

\* Mutant: a cancel moves the version on and leaves the preview open.
RetireInName(s) == [s EXCEPT !.version = @ + 1]

Retire(s) == [s EXCEPT !.preview.state = "superseded", !.version = @ + 1]

\* A change that could not be prepared makes a later yes a question.
LockOpen(s) == IF IsOpen(s) THEN [s EXCEPT !.blocks = TRUE] ELSE s

NextRevision(s) == IF s.preview = NoPreview THEN 1 ELSE s.preview.rev + 1

\* commitPreview and publishPreview: a fresh execution over the operations.
Publish(s, ops, k) ==
  [s EXCEPT !.ops = ops,
            !.preview = [exec |-> 100 * s.version + k, rev |-> NextRevision(s), state |-> "open"],
            !.version = @ + 1,
            !.fp = [e \in Entities |->
                      IF \E o \in Ops : ops[o] # Absent /\ TargetOf[o] = e
                      THEN ops[CHOOSE o \in Ops : ops[o] # Absent /\ TargetOf[o] = e]
                      ELSE Absent],
            !.intents = {o \in Ops : ops[o] # Absent},
            !.question = FALSE, !.blocks = FALSE]

\* publishPlanPreview: the intents of the plan; operations and block stay.
PublishPlan(s, what, catalog) ==
  [s EXCEPT !.preview = [exec |-> 100 * s.version + 2, rev |-> NextRevision(s), state |-> "open"],
            !.version = @ + 1,
            !.fp = [e \in Entities |->
                      IF \E o \in what : TargetOf[o] = e THEN catalog[e] ELSE Absent],
            !.intents = what,
            !.question = FALSE]

\* The operations a new group starts from: those of a settled preview are left.
Carried(s) == IF s.preview # NoPreview /\ ~IsOpen(s) THEN {} ELSE Pending(s)

\* Mutant: what nobody reported stays pending.
ExpiredNever(s) == s

\* Pending rows of an execution nobody reported become unknown.
Expired(s) ==
  LET silent == UNION {d.keys : d \in {x \in s.sent : ~x.reported}}
  IN [s EXCEPT !.ledger =
        [o \in Ops |-> IF o \in silent /\ @[o] = "pending" THEN "unknown" ELSE @[o]]]

-----------------------------------------------------------------------------
(* The server: a turn in its lane *)

\* The turn ends: the session object keeps what it did unless the entry was
\* dropped meanwhile, and the answer goes out if anyone still waits for it.
Finish(i, s, outcome, what, plan, claim) ==
  LET n == turn[i].req.n
  IN /\ turn' = [turn EXCEPT ![i] = Idle]
     /\ entries' = IF entries[i] # Gone /\ entries[i].epoch = s.epoch
                   THEN [entries EXCEPT ![i] = s] ELSE entries
     /\ answers' = IF \E c \in calls : c.n = n
                   THEN answers \cup {[n |-> n, outcome |-> outcome, what |-> what,
                                       plan |-> plan, claim |-> claim]}
                   ELSE answers

Answer(i, s, outcome, what, plan) ==
  /\ Finish(i, s, outcome, what, plan, OpenClaim(s))
  /\ UNCHANGED <<rev, reqs, browser, count, dispatches>>

\* run, entry, loadContext: the session is fetched or created, rows of
\* unreported executions expire, the catalog is read.
Begin(r) ==
  /\ r.kind \notin {"report", "end"}
  /\ turn[r.sid] = Idle
  /\ \E s \in {IF entries[r.sid] = Gone THEN NewEntry(count.epochs + 1) ELSE Expired(entries[r.sid])} :
       /\ s.epoch <= MaxEpochs
       /\ entries' = [entries EXCEPT ![r.sid] = s]
       /\ turn' = [turn EXCEPT ![r.sid] =
                     [req |-> r, s |-> s, catalog |-> rev, stage |-> "think",
                      reads |-> [e \in Entities |-> Absent]]]
       /\ count' = [count EXCEPT !.epochs = IF s.epoch > @ THEN s.epoch ELSE @]
  /\ reqs' = reqs \ {r}
  /\ UNCHANGED <<rev, answers, browser, history>>

Thinks(i, kind) == turn[i] # Idle /\ turn[i].stage = "think" /\ turn[i].req.kind = kind

\* An answer, a pause, an empty group, a refusal; or the model could not be
\* read, and then an open preview that can be confirmed is shown again.
SayNothing(i) ==
  /\ Thinks(i, "say")
  /\ \/ Answer(i, turn[i].s, "other", {}, FALSE)
     \/ /\ IsOpen(turn[i].s) /\ CanConfirm(turn[i].s)
        /\ Answer(i, turn[i].s, "confirm", turn[i].s.intents, FALSE)
  /\ UNCHANGED withdrawn

\* The interpreter asks; a create named like a stored task is asked about; a
\* change that cannot be prepared is asked about.
SayClarify(i) ==
  /\ Thinks(i, "say")
  /\ \E s \in {[turn[i].s EXCEPT !.question = TRUE, !.blocks = TRUE, !.version = @ + 1],
               LockOpen([turn[i].s EXCEPT !.question = TRUE]),
               LockOpen(turn[i].s)} :
       Answer(i, s, "other", {}, FALSE)
  /\ UNCHANGED withdrawn

\* handleCancel: the preview the call names, or the open one.
Cancelled(i, s) ==
  LET claim == turn[i].req.claim
  IN IF ~IsOpen(s)
     THEN /\ Answer(i, ClearPending(s), "other", {}, FALSE)
          /\ UNCHANGED withdrawn
     ELSE IF claim # NoClaim /\ ~Names(claim, s)
     THEN /\ Answer(i, s, "other", {}, FALSE)
          /\ UNCHANGED withdrawn
     ELSE /\ Answer(i, [ClearPending(Retire(s)) EXCEPT !.dropped = @ \cup Pending(s)], "other", {}, FALSE)
          /\ withdrawn' = withdrawn \cup {<<s.epoch, s.preview.exec>>}

SayCancel(i) ==
  /\ (Thinks(i, "say") \/ Thinks(i, "cancel"))
  /\ Cancelled(i, turn[i].s)

\* handleGroup: of the pending operations some are kept, and new ones or
\* corrections of kept ones are asked for.  A group that withdraws everything
\* from an open preview is a cancel of it.
SayChange(i) ==
  /\ Thinks(i, "say")
  /\ \E keep \in SUBSET Carried(turn[i].s), asked \in SUBSET Ops :
       LET s == turn[i].s
           ops == [o \in Ops |->
                     IF o \in keep THEN s.ops[o]
                     ELSE IF o \notin asked THEN Absent
                     ELSE IF TargetOf[o] = NoEntity THEN 0 ELSE turn[i].catalog[TargetOf[o]]]
       IN /\ keep = Carried(s) => asked # {}
          /\ IF keep \cup asked = {}
             THEN IsOpen(s) /\ Cancelled(i, s)
             ELSE \E k \in IdCounts :
                    LET shown == [Publish(s, ops, k) EXCEPT !.dropped = @ \ asked]
                    IN Answer(i, shown, "confirm", shown.intents, FALSE) /\ UNCHANGED withdrawn

\* handleStructuredDayPlan, phases start and edit, and cancel.
SayDraft(i) ==
  /\ Thinks(i, "say")
  /\ \/ Answer(i, [turn[i].s EXCEPT !.draft = TRUE], "other", {}, TRUE)
     \/ Answer(i, [ClearPending(turn[i].s) EXCEPT !.draft = FALSE], "other", {}, FALSE)
  /\ UNCHANGED withdrawn

\* Phase apply, spoken or by the button: the planner may fail or find nothing.
BuildPlan(i) ==
  /\ (Thinks(i, "say") \/ Thinks(i, "build"))
  /\ \E what \in SUBSET PlanOps :
       LET s == PublishPlan(turn[i].s, what, turn[i].catalog)
       IN IF what = {} \/ ~turn[i].s.draft
          THEN \E shown \in {FALSE, turn[i].s.draft} : Answer(i, turn[i].s, "other", {}, shown)
          ELSE Answer(i, [s EXCEPT !.dropped = @ \ what], "confirm", what, TRUE)
  /\ UNCHANGED withdrawn

\* handleConfirm, before the reads.
\* Mutant: only a preview that was taken back is refused.
MayApplyAgain(s, claim) ==
  /\ ~s.question /\ ~s.blocks
  /\ Names(claim, s) /\ s.preview.state # "superseded"
  /\ \A o \in s.intents : s.ledger[o] # "unknown"

\* Mutant: a confirmation applies the open preview, whatever it names.
MayApplyOpen(s, claim) ==
  /\ ~s.question /\ ~s.blocks
  /\ claim # NoClaim /\ IsOpen(s)
  /\ \A o \in s.intents : s.ledger[o] # "unknown"

MayApply(s, claim) ==
  /\ ~s.question /\ ~s.blocks
  /\ Names(claim, s) /\ IsOpen(s)
  /\ \A o \in s.intents : s.ledger[o] # "unknown"

Confirm(i) ==
  /\ (Thinks(i, "say") \/ Thinks(i, "confirm"))
  /\ LET s == turn[i].s
         claim == turn[i].req.claim
     IN IF ~MayApply(s, claim)
        THEN Answer(i, s, "other", {}, FALSE) /\ UNCHANGED withdrawn
        ELSE /\ turn' = [turn EXCEPT ![i].stage = "read"]
             /\ UNCHANGED <<rev, entries, reqs, answers, browser, count, history>>

\* readPreviewEntities: one row after the other, each read on its own.
ReadTarget(i, e) ==
  /\ turn[i] # Idle /\ turn[i].stage = "read"
  /\ turn[i].s.fp[e] # Absent /\ turn[i].reads[e] = Absent
  /\ turn' = [turn EXCEPT ![i].reads[e] = rev[e]]
  /\ UNCHANGED <<rev, entries, reqs, answers, browser, count, history>>

ReadAll(t) == \A e \in Entities : t.s.fp[e] # Absent => t.reads[e] # Absent

\* Mutant: the rows are compared with what the turn began with.
UnchangedSinceBegan(t) == \A e \in Entities : t.s.fp[e] # Absent => t.reads[e] = t.catalog[e]

\* revalidateFingerprints
Unchanged(t) == \A e \in Entities : t.reads[e] = t.s.fp[e]

\* A read failed: nothing changes and the user is told so.
ReadFails(i) ==
  /\ turn[i] # Idle /\ turn[i].stage = "read" /\ ~ReadAll(turn[i])
  /\ Answer(i, turn[i].s, "other", {}, FALSE)
  /\ UNCHANGED withdrawn

\* A row changed under the preview: the preview is retired.
Stale(i) ==
  /\ turn[i] # Idle /\ turn[i].stage = "read" /\ ReadAll(turn[i])
  /\ ~Unchanged(turn[i])
  /\ Answer(i, [ClearPending(turn[i].s) EXCEPT !.preview.state = "superseded"], "other", {}, FALSE)
  /\ UNCHANGED withdrawn

\* An intent whose key is already in the ledger keeps its old row.
Sent(s) ==
  [ClearPending(s) EXCEPT
     !.preview.state = "dispatched", !.version = @ + 1,
     !.ledger = [o \in Ops |-> IF o \in s.intents /\ @[o] = "none" THEN "pending" ELSE @[o]],
     !.sent = IF s.intents = {} THEN @
              ELSE {d \in @ : d.exec # s.preview.exec}
                     \cup {[exec |-> s.preview.exec, keys |-> s.intents, reported |-> FALSE]}]

\* The operation was handed over in this session and no report ever named it.
Silent(s, o) ==
  LET mine == {d \in s.sent : o \in d.keys}
  IN mine # {} /\ \A d \in mine : ~d.reported

Apply(i) ==
  /\ turn[i] # Idle /\ turn[i].stage = "read" /\ ReadAll(turn[i])
  /\ Unchanged(turn[i])
  /\ LET s == turn[i].s
         after == Sent(s)
         claim == turn[i].req.claim
     IN /\ Finish(i, after, "act", s.intents, FALSE, IF s.intents = {} THEN NoClaim ELSE claim)
        /\ dispatches' = dispatches \cup
             {[n |-> turn[i].req.n, epoch |-> s.epoch, exec |-> s.preview.exec,
               claim |-> claim, what |-> s.intents, fp |-> s.fp, began |-> turn[i].catalog,
               silent |-> {o \in s.intents : Silent(s, o)}]}
  /\ UNCHANGED <<rev, reqs, browser, count, withdrawn>>

\* Rows meant for another session's intents fall on these keys by position.
Placings(keys, rows) ==
  {at \in [keys -> DOMAIN rows] :
     /\ {at[o] : o \in keys} = DOMAIN rows
     /\ keys = DOMAIN rows => \A o \in keys : at[o] = o}

Matches(d, r) == d.exec = r.exec /\ Cardinality(d.keys) = Cardinality(DOMAIN r.rows)

\* applyReport: matched by execution and number of rows, row by row.
Reported(s, r) ==
  IF \A d \in s.sent : ~Matches(d, r) THEN {s}
  ELSE UNION {{[s EXCEPT
                  !.ledger = [o \in Ops |-> IF o \in d.keys THEN LedgerStatus[r.rows[at[o]]] ELSE @[o]],
                  !.sent = (@ \ {d}) \cup {[d EXCEPT !.reported = TRUE]}] : at \in Placings(d.keys, r.rows)}
              : d \in {x \in s.sent : Matches(x, r)}}

ReportArrives(r) ==
  /\ r.kind = "report" /\ turn[r.sid] = Idle
  /\ \E s \in {IF entries[r.sid] = Gone THEN NewEntry(count.epochs + 1) ELSE entries[r.sid]} :
       /\ s.epoch <= MaxEpochs
       /\ count' = [count EXCEPT !.epochs = IF s.epoch > @ THEN s.epoch ELSE @]
       /\ \E after \in Reported(s, r) : entries' = [entries EXCEPT ![r.sid] = after]
       /\ answers' = IF \E c \in calls : c.n = r.n
                     THEN answers \cup {[n |-> r.n, outcome |-> "other", what |-> {},
                                         plan |-> FALSE, claim |-> OpenClaim(s)]}
                     ELSE answers
  /\ reqs' = reqs \ {r}
  /\ UNCHANGED <<rev, turn, browser, history>>

\* endSession takes no lane: a turn in its lane goes on without the entry.
EndArrives(r) ==
  /\ r.kind = "end"
  /\ entries' = [entries EXCEPT ![r.sid] = Gone]
  /\ reqs' = reqs \ {r}
  /\ UNCHANGED <<rev, turn, answers, browser, count, history>>

Dropping ==
  /\ count.drops < MaxDrops
  /\ count' = [count EXCEPT !.drops = @ + 1]

\* Six hours without a turn.
Forget(i) ==
  /\ entries[i] # Gone /\ turn[i] = Idle
  /\ entries' = [entries EXCEPT ![i] = Gone]
  /\ Dropping
  /\ UNCHANGED <<rev, turn, reqs, answers, browser, history>>

\* The process restarts: sessions, turns and requests it had taken are gone.
Restart ==
  /\ \E i \in Sids : entries[i] # Gone
  /\ entries' = [i \in Sids |-> Gone]
  /\ turn' = [i \in Sids |-> Idle]
  /\ Dropping
  /\ UNCHANGED <<rev, reqs, answers, browser, history>>

-----------------------------------------------------------------------------
(* The browser *)

\* turnLockRef: what was said is not settled before its writes are reported.
Locked == \E c \in calls \cup batches : c.spoken

Send(kind, claim) ==
  LET n == count.turns + 1
  IN /\ n <= MaxTurns
     /\ count' = [count EXCEPT !.turns = n]
     /\ calls' = calls \cup {[n |-> n, kind |-> kind, spoken |-> kind = "say"]}
     /\ reqs' = reqs \cup {[n |-> n, sid |-> panel.sid, kind |-> kind, claim |-> claim,
                            exec |-> 0, rows |-> NoRows]}

\* Mutant: a panel that was closed still sends.
ReadyClosed == ~panel.busy

Ready == panel.sid # 0 /\ ~panel.busy

\* A card of a write waits for a tap; a plan on the screen may be talked about.
Say ==
  /\ Ready /\ ~Locked /\ (panel.card => panel.plan)
  /\ Send("say", panel.ref)
  /\ panel' = [panel EXCEPT !.busy = TRUE]
  /\ UNCHANGED <<rev, entries, turn, answers, batches, history>>

TapApply ==
  /\ Ready /\ panel.card
  /\ Send("confirm", panel.ref)
  /\ panel' = [panel EXCEPT !.busy = TRUE, !.card = FALSE, !.plan = FALSE]
  /\ UNCHANGED <<rev, entries, turn, answers, batches, history>>

TapCancel ==
  /\ Ready /\ (panel.card \/ panel.plan)
  /\ Send("cancel", panel.ref)
  /\ panel' = [panel EXCEPT !.busy = TRUE, !.card = FALSE, !.plan = FALSE]
  /\ UNCHANGED <<rev, entries, turn, answers, batches, history>>

TapBuild ==
  /\ Ready /\ panel.plan /\ ~panel.card
  /\ Send("build", panel.ref)
  /\ panel' = [panel EXCEPT !.busy = TRUE]
  /\ UNCHANGED <<rev, entries, turn, answers, batches, history>>

\* routeResult, whichever session the panel shows by now; after a report only
\* stayReady.
Hear(a) ==
  /\ \E c \in calls :
       /\ c.n = a.n /\ calls' = calls \ {c}
       /\ IF c.kind = "report"
          THEN /\ panel' = [panel EXCEPT !.busy = FALSE, !.card = FALSE, !.plan = FALSE]
               /\ UNCHANGED batches
          ELSE LET runs == a.outcome = "act" /\ a.what # {}
               IN /\ panel' = [panel EXCEPT !.busy = runs, !.card = (a.outcome = "confirm"),
                                            !.plan = a.plan,
                                            !.ref = IF a.outcome = "act" THEN NoClaim ELSE a.claim]
                  /\ batches' = IF ~runs THEN batches
                                ELSE batches \cup {[n |-> a.n, what |-> a.what, exec |-> a.claim.exec,
                                                    spoken |-> c.spoken]}
  /\ answers' = answers \ {a}
  /\ UNCHANGED <<rev, entries, turn, reqs, count, history>>

\* The call fails; the server may still be at it.  Only what was said, and a
\* report, frees the panel: nothing catches the failure of a tap.
GiveUp(c) ==
  /\ calls' = calls \ {c}
  /\ answers' = {a \in answers : a.n # c.n}
  /\ panel' = IF c.kind = "report" THEN [panel EXCEPT !.busy = FALSE, !.card = FALSE, !.plan = FALSE]
              ELSE IF c.spoken THEN [panel EXCEPT !.busy = FALSE]
              ELSE panel
  /\ UNCHANGED <<rev, entries, turn, reqs, batches, count, history>>

Closed == [sid |-> 0, busy |-> FALSE, card |-> FALSE, plan |-> FALSE, ref |-> NoClaim]
EndOf(sid) ==
  {[n |-> 0, sid |-> sid, kind |-> "end", claim |-> NoClaim, exec |-> 0, rows |-> NoRows]}

Close ==
  /\ panel.sid # 0
  /\ panel' = Closed
  /\ reqs' = reqs \cup EndOf(panel.sid)
  /\ UNCHANGED <<rev, entries, turn, answers, calls, batches, count, history>>

\* A new session; the claim a late answer left is not cleared.
Open ==
  /\ panel.sid = 0 /\ count.sids < MaxSids
  /\ count' = [count EXCEPT !.sids = @ + 1]
  /\ panel' = [Closed EXCEPT !.sid = count.sids + 1, !.ref = panel.ref]
  /\ UNCHANGED <<rev, entries, turn, reqs, answers, calls, batches, history>>

\* executeVoiceIntents: one after the other until a failure or a placement
\* conflict; the rest is skipped.
Outcomes(what) ==
  {rows \in [what -> DOMAIN LedgerStatus] :
     LET ends == {o \in what : rows[o] \in {"conflict", "refused", "error"}}
     IN /\ Cardinality(ends) <= 1
        /\ ends = {} => \A o \in what : rows[o] = "applied"}

\* runIntents, sendReport: the writes, then the report to the session the
\* panel has by now; after a conflict the panel closes.
RunWrites(b, rows, landed) ==
  /\ landed \subseteq {o \in b.what : rows[o] = "error"}
  /\ LET stored == {o \in b.what : rows[o] \in {"applied", "conflict"}} \cup landed
         stops == \E o \in b.what : rows[o] = "conflict"
         n == -b.n
         report == [n |-> n, sid |-> panel.sid, kind |-> "report", claim |-> NoClaim,
                    exec |-> b.exec, rows |-> rows]
     IN /\ rev' = [e \in Entities |-> IF \E o \in stored : TargetOf[o] = e THEN rev[e] + 1 ELSE rev[e]]
        /\ batches' = batches \ {b}
        /\ IF panel.sid = 0
           THEN /\ panel' = IF stops THEN Closed
                            ELSE [panel EXCEPT !.busy = FALSE, !.card = FALSE, !.plan = FALSE]
                /\ UNCHANGED <<reqs, calls>>
           ELSE /\ reqs' = reqs \cup {report} \cup (IF stops THEN EndOf(panel.sid) ELSE {})
                /\ panel' = IF stops THEN Closed ELSE panel
                /\ calls' = IF stops THEN calls
                            ELSE calls \cup {[n |-> n, kind |-> "report", spoken |-> b.spoken]}
  /\ UNCHANGED <<entries, turn, answers, count, history>>

\* The row changes elsewhere: the calendar page, another device, a job.
Edit(e) ==
  /\ count.edits < MaxEdits
  /\ count' = [count EXCEPT !.edits = @ + 1]
  /\ rev' = [rev EXCEPT ![e] = @ + 1]
  /\ UNCHANGED <<entries, turn, reqs, answers, browser, history>>

-----------------------------------------------------------------------------
Init ==
  /\ rev = [e \in Entities |-> 0]
  /\ entries = [i \in Sids |-> Gone]
  /\ turn = [i \in Sids |-> Idle]
  /\ reqs = {} /\ answers = {} /\ calls = {} /\ batches = {}
  /\ panel = Closed
  /\ count = [turns |-> 0, sids |-> 0, epochs |-> 0, edits |-> 0, drops |-> 0]
  /\ dispatches = {} /\ withdrawn = {}

Turn(i) ==
  \/ SayNothing(i) \/ SayClarify(i) \/ SayCancel(i) \/ SayChange(i) \/ SayDraft(i)
  \/ BuildPlan(i) \/ Confirm(i)
  \/ \E e \in Entities : ReadTarget(i, e)
  \/ ReadFails(i) \/ Stale(i) \/ Apply(i)

Server ==
  \/ \E r \in reqs : Begin(r) \/ ReportArrives(r) \/ EndArrives(r)
  \/ \E i \in Sids : Turn(i) \/ Forget(i)
  \/ Restart

Browser ==
  \/ Say \/ TapApply \/ TapCancel \/ TapBuild \/ Close \/ Open
  \/ \E a \in answers : Hear(a)
  \/ \E c \in calls : GiveUp(c)
  \/ \E b \in batches : \E rows \in Outcomes(b.what), landed \in SUBSET b.what : RunWrites(b, rows, landed)

Next == Server \/ Browser \/ \E e \in Entities : Edit(e)

Spec == Init /\ [][Next]_vars

-----------------------------------------------------------------------------
(* Properties *)

Claims == {NoClaim} \cup [exec : Nat, rev : Nat, epoch : Nat, what : SUBSET Ops]
Entry == [epoch : 1..MaxEpochs, version : Nat, ops : [Ops -> Int],
          preview : {NoPreview} \cup [exec : Nat, rev : Nat, state : {"open", "superseded", "dispatched"}],
          fp : [Entities -> Int], intents : SUBSET Ops, question : BOOLEAN, blocks : BOOLEAN,
          draft : BOOLEAN, ledger : [Ops -> Statuses],
          sent : SUBSET [exec : Nat, keys : SUBSET Ops, reported : BOOLEAN],
          dropped : SUBSET Ops]
Rows == UNION {[what -> DOMAIN LedgerStatus] : what \in SUBSET Ops}
Requests == [n : Int, sid : Sids, kind : {"say", "confirm", "cancel", "build", "report", "end"},
             claim : Claims, exec : Nat, rows : Rows]
Panels == [sid : 0..MaxSids, busy : BOOLEAN, card : BOOLEAN, plan : BOOLEAN, ref : Claims]

TypeOK ==
  /\ rev \in [Entities -> Nat]
  /\ entries \in [Sids -> {Gone} \cup Entry]
  /\ turn \in [Sids -> {Idle} \cup [req : Requests, s : Entry, catalog : [Entities -> Nat],
                                    stage : {"think", "read"}, reads : [Entities -> Int]]]
  /\ reqs \subseteq Requests
  /\ answers \subseteq [n : Int, outcome : {"other", "confirm", "act"}, what : SUBSET Ops,
                        plan : BOOLEAN, claim : Claims]
  /\ panel \in Panels
  /\ calls \subseteq [n : Int, kind : {"say", "confirm", "cancel", "build", "report"}, spoken : BOOLEAN]
  /\ batches \subseteq [n : Nat, what : SUBSET Ops, exec : Nat, spoken : BOOLEAN]
  /\ count \in [turns : 0..MaxTurns, sids : 0..MaxSids, epochs : 0..MaxEpochs, edits : 0..MaxEdits, drops : 0..MaxDrops]

\* Within a session the intents handed over are those of the preview whose
\* claim came with the confirmation, whatever was said or answered meanwhile;
\* or none, when the cancel of a day plan emptied a preview it does not retire.
ShownIsApplied ==
  \A d \in dispatches : d.claim.epoch = d.epoch => d.what \in {{}, d.claim.what}

\* The same of every session: what useVoiceTask.ts:118 says of the claim.
OnlyTheShownPreview == \A d \in dispatches : d.what \subseteq d.claim.what

\* A write is handed over only against rows nobody changed between the turn
\* that captured them and the turn that confirmed.
NothingChangedUnseen ==
  \A d \in dispatches : \A o \in d.what :
    TargetOf[o] # NoEntity => d.fp[TargetOf[o]] = d.began[TargetOf[o]]

\* A preview is handed over once: no second tap, late confirmation or retry
\* gets its intents again.
DispatchedOnce ==
  \A c, d \in dispatches : c.epoch = d.epoch /\ c.exec = d.exec => c = d

\* A write no report ever spoke of is not handed over again.
SilentNotResent == \A d \in dispatches : d.silent = {}

\* A preview that was cancelled is not handed over, nor one handed over cancelled.
CancelledOrApplied == \A d \in dispatches : <<d.epoch, d.exec>> \notin withdrawn

\* A cancelled operation comes back only when it is asked for again.
CancelledStaysOut ==
  \A i \in Sids : entries[i] # Gone /\ IsOpen(entries[i])
                   => entries[i].intents \cap entries[i].dropped = {}
====
