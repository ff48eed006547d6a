---------------------------- MODULE PlacementStep ----------------------------
(***************************************************************************)
(* PlacementStepService: the calendar of one user, changed one placement   *)
(* at a time under the user's lock.  One-off tasks (flexible and fixed)    *)
(* are saved, placed by a job, dragged, put on top of a fixed event,       *)
(* started, finished and deleted; a freed hole seats parked tasks.  Series *)
(* are seated on their days already; a displaced day becomes a copy of its *)
(* own, which rejoins the series when it lands on the series clock again.  *)
(***************************************************************************)
EXTENDS PlacementPlan, FreeSlots

CONSTANTS
  OneOffs,    \* ids of tasks a user may create
  Series,     \* ids of flexible series
  Days,       \* civil days of the horizon, 0 .. n
  DayLen,     \* length of a civil day; awake time is its first part
  Awake,
  Phases,     \* the user's phases: intervals in a day
  HomeOf,     \* clock of each series in its day
  Durs, Clocks, Deadlines, Drops,   \* inputs of a save and of a drag
  Kinds,
  Moments,    \* the times the clock shows, after 0
  MaxOps

ASSUME PlacementAssumption ==
  /\ Step \in Nat \ {0} /\ Buffer \in Nat /\ MaxPulls \in Nat /\ MaxSpins \in Nat
  /\ DayLen \in Nat /\ Awake \in 1 .. DayLen

\* Ids are of one sort each; times are not negative, the clock stops some time.
ASSUME InputAssumption ==
  /\ OneOffs \cap Series = {} /\ (OneOffs \cup Series) \cap (Series \X Days) = {}
  /\ Durs \subseteq Nat \ {0} /\ Clocks \cup Deadlines \cup Drops \subseteq Nat
  /\ Kinds \subseteq {"flexible", "fixed"}
  /\ Max(Moments) \in Nat /\ Moments \subseteq 1 .. Max(Moments)
  /\ None \notin Int

\* Days follow one another; the series sit on their days and not on each other.
ASSUME CalendarAssumption ==
  /\ Max(Days) \in Nat /\ Days = 0 .. Max(Days)
  /\ Phases \subseteq [start : 0 .. DayLen, end : 0 .. DayLen] /\ IsFiniteSet(Series)
  /\ HomeOf \in [Series -> { i \in [start : 0 .. DayLen, end : 0 .. DayLen] : i.start < i.end }]
  /\ \A r, s \in Series : r # s => ~Overlaps(HomeOf[r], HomeOf[s])

VARIABLES
  now,
  task,       \* the row of every one-off and day copy
  held,       \* days on which a series holds its own slot
  born,       \* tasks in the order they were created
  owed,       \* seatOpenHoles calls still to run
  did,        \* history: the last step and the task it was about
  ops,        \* user operations so far, bounded by MaxOps
  layered,    \* history: tasks that were once put on top of another
  back        \* history: tasks that were done once and reopened

vars == <<now, task, held, born, owed, did, ops, layered, back>>

Copies == Series \X Days
Tasks == OneOffs \cup Copies

WholeDay == [start |-> 0, end |-> Awake]
OnDay(i, d) == [start |-> d * DayLen + i.start, end |-> d * DayLen + i.end]
DayOf(at) == at \div DayLen
DayBounds(d) == OnDay(WholeDay, d)
Home(s, d) == OnDay(HomeOf[s], d)

Absent == [state |-> "absent", kind |-> "flexible", status |-> "todo", phase |-> None,
           dur |-> 1, clock |-> None, by |-> None, slot |-> None, parkedDay |-> None,
           was |-> None, placing |-> FALSE, asked |-> FALSE]

Exists(t) == task[t].state \notin {"absent", "deleted"}

------------------------------------------------------------------------------
(* What a placement reads. *)

\* The awake part of the days left, or the task's phase in it.
HorizonWindows(phase) ==
  { w \in { OnDay(IF phase = None THEN WholeDay ELSE phase, d) : d \in Days } : w.end > now }

Clip(windows, from, until) == Within(windows, [start |-> from, end |-> until])

EndOfTime == (Max(Days) + 1) * DayLen + Max(Moments)

Until(by) == IF by = None THEN EndOfTime ELSE by

SeatId(x, part, d) == [of |-> x, part |-> part, day |-> d]

\* A moved day copy still owns the series clock on the day it sits on.
HomeClock(t, i) ==
  IF t \in Copies /\ Home(t[1], DayOf(i.start)).start # i.start
  THEN LET h == Home(t[1], DayOf(i.start))
       IN [start |-> h.start, end |-> h.start + Max({h.end - h.start, i.end - i.start})]
  ELSE None

SeatOf(t, part, role, i, windows) ==
  [id |-> SeatId(t, part, 0), task |-> t, role |-> role, start |-> i.start, end |-> i.end,
   windows |-> windows, notBefore |-> now,
   buffered |-> role = "anchor", home |-> HomeClock(t, i)]

SlotRole(r) ==
  CASE r.state = "resolved" -> "resolved"
    [] r.state = "none" /\ r.kind = "fixed" -> "anchor"
    [] r.state = "none" /\ r.kind = "flexible" -> "flexible"

\* A task has a seat for its open slot, a fixed one for its clock.
SlotIsOpen(r) == r.slot # None /\ r.slot.end > now /\ r.state \in {"none", "resolved"}

IsPeer(r) == ~SlotIsOpen(r) /\ r.kind = "fixed" /\ r.clock # None /\ r.clock + r.dur > now

HasSeat(r) ==
  /\ r.state \notin {"absent", "deleted"} /\ r.status # "done"
  /\ SlotIsOpen(r) \/ IsPeer(r)

\* What is over of a flexible slot in progress is a seat of its own.
IsBegun(r) ==
  SlotIsOpen(r) /\ SlotRole(r) = "flexible" /\ r.status = "doing" /\ r.slot.start < now

ElapsedSeat(t, r) ==
  SeatOf(t, "elapsed", "elapsed", [start |-> r.slot.start, end |-> now],
         Clip(HorizonWindows(r.phase), now, Until(r.by)))

TaskSeat(t, r) ==
  LET windows == Clip(HorizonWindows(r.phase), now, Until(r.by))
  IN CASE IsBegun(r) ->
            SeatOf(t, "slot", "flexible", [start |-> now, end |-> r.slot.end], windows)
       [] SlotIsOpen(r) /\ ~IsBegun(r) -> SeatOf(t, "slot", SlotRole(r), r.slot, windows)
       [] OTHER -> SeatOf(t, "peer", IF r.state = "resolved" THEN "resolved" ELSE "anchor",
                          [start |-> r.clock, end |-> r.clock + r.dur], {})

SeriesSeat(s, d) ==
  [id |-> SeatId(s, "day", d), task |-> s, role |-> "series",
   start |-> Home(s, d).start, end |-> Home(s, d).end,
   windows |-> Within(HorizonWindows(None), [start |-> d * DayLen, end |-> (d + 1) * DayLen]),
   notBefore |-> now, buffered |-> FALSE, home |-> None]

\* The seats of everyone but `gone`.  The database returns rows in no particular
\* order: they are met oldest first and newest first.
RowOrders == {"oldest", "newest"}

SeriesDays == SetToSeq(Series \X Days)

Rows(w, gone, order) ==
  LET tasks == Those(w.born, { t \in Tasks \ gone : HasSeat(w.task[t]) })
      begun == Those(tasks, { t \in Tasks : IsBegun(w.task[t]) })
      days == Those(SeriesDays, { x \in Series \X Days :
                                    x[2] \in w.held[x[1]] /\ Home(x[1], x[2]).end > now })
      rows == [k \in DOMAIN begun |-> ElapsedSeat(begun[k], w.task[begun[k]])]
              \o [k \in DOMAIN tasks |-> TaskSeat(tasks[k], w.task[tasks[k]])]
              \o [k \in DOMAIN days |-> SeriesSeat(days[k][1], days[k][2])]
  IN IF order = "oldest" THEN rows ELSE Reverse(rows)

\* Slip (CutToDay): a displaced task may be seated on any day.
CutToNothing(rows, d, i) == rows

\* A claim of one civil day: everyone's windows are cut to that day, and whoever
\* sits on the asked interval may use the whole day if nothing is left of theirs.
CutToDay(rows, d, i) ==
  LET day == [start |-> d * DayLen, end |-> (d + 1) * DayLen]
      cut(r) == Within(r.windows, day)
  IN [k \in DOMAIN rows |->
        [rows[k] EXCEPT !.windows =
           IF cut(rows[k]) = {} /\ i # None /\ Overlaps(rows[k], i)
           THEN {DayBounds(d)} ELSE cut(rows[k])]]

------------------------------------------------------------------------------
(* placeUnlocked for a one-off: plan, then write. *)

Options(preferred, dur, hole, raw, commit, drag, day) ==
  [preferred |-> preferred, dur |-> dur, hole |-> hole, raw |-> raw,
   commit |-> commit, drag |-> drag, day |-> day]

ClaimInterval(r, o) ==
  LET at == CASE r.kind = "fixed" -> IF r.clock # None THEN r.clock ELSE o.preferred
              [] OTHER -> IF o.preferred # None THEN o.preferred ELSE r.clock
      len == IF r.kind = "fixed" THEN r.dur ELSE o.dur
  IN IF o.hole \/ at = None THEN None ELSE [start |-> at, end |-> at + len]

\* A flexible task is searched from its clock, on that day, up to its deadline.
SearchSpan(r, o) ==
  LET named == IF o.preferred # None THEN o.preferred ELSE r.clock
  IN IF r.kind = "fixed" \/ (named = None /\ r.by = None) THEN None
     ELSE [start |-> IF named = None THEN now ELSE Max({now, named}),
           end |-> IF r.by # None THEN r.by ELSE DayBounds(DayOf(named)).end]

Over(i) == i # None /\ i.end <= now

Planned(w, t, o, order) ==
  LET r == w.task[t]
      i == ClaimInterval(r, o)
      day == CASE o.day # None -> o.day
               [] o.day = None /\ i # None -> DayOf(i.start)
               [] OTHER -> IF o.preferred = None THEN None ELSE DayOf(o.preferred)
      rows == Rows(w, {t}, order)
      span == SearchSpan(r, o)
      wide == IF span = None \/ ~o.drag \/ i = None THEN span
              ELSE [start |-> Min({span.start, i.start}), end |-> Max({span.end, i.end})]
      open == HorizonWindows(r.phase)
      today == IF day = None THEN open
               ELSE Within(open, [start |-> day * DayLen, end |-> (day + 1) * DayLen])
      claim == [task |-> t, recurring |-> FALSE, dur |-> o.dur,
                notBefore |-> IF wide = None THEN now ELSE wide.start,
                windows |-> IF wide = None THEN today ELSE Clip(today, wide.start, wide.end),
                interval |-> i, near |-> IF o.hole THEN o.preferred ELSE None,
                expired |-> ~o.drag /\ r.kind = "flexible" /\ r.by # None /\ r.by <= now,
                mustFit |-> r.kind = "flexible",
                overResolved |-> o.commit = "preferred", pack |-> ~o.raw]
  IN IF Over(i) THEN Seated(i, {})
     ELSE PlanPlacement(claim, IF day = None THEN rows ELSE CutToDay(rows, day, i))

\* A missed clock of a flexible task is a wish: the nearest hole is next.
HoleInstead(w, t, o) ==
  LET r == w.task[t]
  IN [o EXCEPT !.hole = TRUE, !.preferred = IF @ # None THEN @ ELSE r.clock]

MissedClock(w, t, o, plan) ==
  /\ plan.outcome = "problematic" /\ ~o.hole /\ o.commit = "always"
  /\ w.task[t].kind = "flexible" /\ ClaimInterval(w.task[t], o) # None

\* shouldWritePlan, and the early return of a clock that is over.
Writes(w, t, o, plan) ==
  LET r == w.task[t] IN
  /\ plan.outcome # "conflict" /\ ~Over(ClaimInterval(r, o))
  /\ o.commit = "preferred" =>
       \/ o.drag /\ plan.outcome \in {"problematic", "unscheduled"}
       \/ plan.outcome = "seated" /\ o.preferred # None /\ plan.at.start = o.preferred
  /\ ~(plan.outcome = "problematic" /\ o.hole /\ r.state = "problematic" /\ r.clock = None)

Put(w, t, r) == [w EXCEPT !.task = [w.task EXCEPT ![t] = r]]

Unparked(r) == [r EXCEPT !.state = "none", !.parkedDay = None, !.was = None, !.asked = FALSE]

\* Slip (Park): the slot is dropped and the task is not put in the inbox.
DropSlot(r) == [r EXCEPT !.clock = None, !.slot = None, !.asked = FALSE]

Park(r) == [r EXCEPT !.state = "problematic", !.clock = None, !.slot = None, !.asked = FALSE]

\* applyMove: a slot that has started keeps its clock in the row of its task; a
\* series day becomes a copy of its own.
Shifted(r, m) ==
  [r EXCEPT !.slot = m.to, !.clock = IF r.slot.start < now THEN @ ELSE m.to.start]

DayCopy(m) ==
  [Absent EXCEPT !.state = IF m.to = None THEN "problematic" ELSE "none",
                 !.dur = m.from.end - m.from.start, !.slot = m.to,
                 !.clock = IF m.to = None THEN None ELSE m.to.start,
                 !.parkedDay = m.id.day, !.was = m.from.start]

Moved(r, m) ==
  CASE m.kind = "shift" -> Shifted(r, m)
    [] m.kind = "park" -> Park(r)
    [] m.kind = "detach" -> DayCopy(m)

\* The task a move writes; a plan moves each seat once.
Subject(m) == IF m.kind = "detach" THEN <<m.task, m.id.day>> ELSE m.task

AllMoved(w, moves) ==
  LET left == { Subject(m) : m \in { x \in moves : x.kind = "detach" } }
  IN [task |-> [t \in Tasks |->
                  IF \E m \in moves : Subject(m) = t
                  THEN Moved(w.task[t], CHOOSE m \in moves : Subject(m) = t) ELSE w.task[t]],
      held |-> [s \in Series |-> { d \in w.held[s] : <<s, d>> \notin left }],
      born |-> w.born \o SetToSeq(left)]

\* followWindowToDrop: a deadline the drop passes goes to the drop's day.
DeadlineAfterDrop(by, i) ==
  IF by = None \/ i.end <= by THEN by
  ELSE Max({by + (DayOf(i.start) - DayOf(by)) * DayLen, i.end})

\* The row of a task that is seated, and of one whose deadline is over.
Settled(r, at, by) ==
  [Unparked(r) EXCEPT !.clock = at.start, !.dur = at.end - at.start, !.by = by, !.slot = at]

Unscheduled(r) == [Unparked(Park(r)) EXCEPT !.state = "unscheduled"]

\* Slip (Persisted): the slot moves and the row keeps its old clock.
PersistedSlot(w, t, o, plan) ==
  LET r == w.task[t] IN
  CASE plan.outcome = "seated" ->
         AllMoved(Put(w, t, [Unparked(r) EXCEPT !.slot = plan.at]), plan.moves)
    [] plan.outcome = "problematic" -> Put(w, t, Park(r))
    [] plan.outcome = "unscheduled" -> Put(w, t, Unscheduled(r))

\* persist
Persisted(w, t, o, plan) ==
  LET r == w.task[t]
      by == IF o.drag THEN DeadlineAfterDrop(r.by, plan.at) ELSE r.by
  IN CASE plan.outcome = "seated" -> AllMoved(Put(w, t, Settled(r, plan.at, by)), plan.moves)
       [] plan.outcome = "problematic" -> Put(w, t, Park(r))
       [] plan.outcome = "unscheduled" -> Put(w, t, Unscheduled(r))

\* A series day on the series clock, as if copy `t` were gone.
SeriesDayPlan(w, t, order) ==
  LET i == Home(t[1], t[2])
      day == [start |-> t[2] * DayLen, end |-> (t[2] + 1) * DayLen]
      claim == [task |-> t[1], recurring |-> TRUE, dur |-> i.end - i.start, notBefore |-> now,
                windows |-> Within(HorizonWindows(None), day), interval |-> i, near |-> None,
                expired |-> FALSE, mustFit |-> TRUE, overResolved |-> TRUE, pack |-> TRUE]
  IN IF i.start < now THEN Unseated("problematic")
     ELSE PlanPlacement(claim, CutToDay(Rows(w, {t}, order), t[2], i))

\* tryReMergeSeriesMember: the copy is unchanged and sits where its series was;
\* `plan` is the one of the series day.
Rejoins(w, t, plan) ==
  LET r == w.task[t]
  IN /\ t \in Copies /\ r.state = "none" /\ r.clock # None /\ r.phase = None
     /\ t[2] \notin w.held[t[1]]
     /\ [start |-> r.clock, end |-> r.clock + r.dur] = Home(t[1], t[2])
     /\ r.status = "todo"
     /\ plan.outcome = "seated" /\ plan.at = Home(t[1], t[2])

HeldAgain(w, t) == [w.held EXCEPT ![t[1]] = w.held[t[1]] \cup {t[2]}]

\* Slip (Rejoined): the copy is left beside the day its series took back.
RejoinedBeside(w, t, plan) == AllMoved([w EXCEPT !.held = HeldAgain(w, t)], plan.moves)

Rejoined(w, t, plan) ==
  AllMoved([task |-> [w.task EXCEPT ![t] = Absent], held |-> HeldAgain(w, t),
            born |-> Those(w.born, Tasks \ {t})],
           plan.moves)

BackInSeries(w, t, plan) == IF Rejoins(w, t, plan) THEN Rejoined(w, t, plan) ELSE w

\* A layer on top is not packed: a new clock moves it as it is and ends the layer.
ResolvedPlaced(w, t, o) ==
  LET r == w.task[t]
      at == IF o.preferred # None THEN o.preferred ELSE r.clock
      i == [start |-> at, end |-> at + IF o.preferred # None THEN o.dur ELSE r.dur]
      same == i.start = r.clock /\ i.end = r.clock + r.dur
      next == IF same THEN r ELSE [Unparked(r) EXCEPT !.clock = at, !.dur = i.end - i.start]
  IN [world |-> Put(w, t, [next EXCEPT !.slot = i]), plan |-> Seated(i, {})]

Merged(w, t, plan, order) ==
  IF plan.outcome = "seated" /\ t \in Copies
  THEN BackInSeries(w, t, SeriesDayPlan(w, t, order)) ELSE w

\* What is left of a plan once it is written.
Written(w, t, o, plan, order) ==
  [plan |-> plan,
   world |-> IF Writes(w, t, o, plan)
             THEN Merged(Persisted(w, t, o, plan), t, plan, order) ELSE w]

Reconsidered(w, t, o, first, order) ==
  LET missed == MissedClock(w, t, o, first)
      o2 == IF missed THEN HoleInstead(w, t, o) ELSE o
  IN Written(w, t, o2, IF missed THEN Planned(w, t, o2, order) ELSE first, order)

Placed(w, t, o, order) ==
  IF w.task[t].state = "resolved" THEN ResolvedPlaced(w, t, o)
  ELSE Reconsidered(w, t, o, Planned(w, t, o, order), order)

World == [task |-> task, held |-> held, born |-> born]

Becomes(w) == task' = w.task /\ held' = w.held /\ born' = w.born

------------------------------------------------------------------------------
(* What users and jobs do. *)

UserDoes(op, t) ==
  ops < MaxOps /\ ops' = ops + 1 /\ did' = [op |-> op, task |-> t]

NewRow(kind, dur, clock, by, phase) ==
  [Absent EXCEPT !.state = "none", !.kind = kind, !.dur = dur, !.clock = clock, !.by = by,
                 !.phase = phase, !.placing = TRUE]

Save(t) ==
  /\ UserDoes("save", t) /\ task[t].state = "absent"
  /\ \E kind \in Kinds, dur \in Durs, clock \in Clocks \cup {None},
        by \in Deadlines \cup {None}, phase \in Phases \cup {None} :
       /\ kind = "fixed" => clock # None /\ by = None /\ phase = None
       /\ by # None => by > now
       /\ task' = [task EXCEPT ![t] = NewRow(kind, dur, clock, by, phase)]
  /\ born' = Append(born, t)
  /\ UNCHANGED <<now, held, owed, layered, back>>

\* placeOptions of a create
CreateOptions(r) ==
  Options(IF r.kind = "flexible" THEN r.clock ELSE None, r.dur,
          r.kind = "flexible" /\ r.clock = None, FALSE, "always", FALSE, None)

CanPlace(r) == r.state = "none" /\ r.status # "done"

\* The job of a create.  A crash before it notes `placed` runs it once more.
PlaceSaved(t) ==
  /\ task[t].placing
  /\ \E order \in RowOrders :
       LET r == task[t]
           out == Placed(World, t, CreateOptions(r), order)
           w == IF CanPlace(r) THEN out.world ELSE World
           asks == CanPlace(r) /\ out.plan.outcome = "conflict"
       IN \E again \in BOOLEAN :
            /\ again => ops < MaxOps
            /\ ops' = IF again THEN ops + 1 ELSE ops
            /\ Becomes(Put(w, t, [w.task[t] EXCEPT !.placing = again,
                                    !.asked = IF CanPlace(r) THEN asks ELSE @]))
  /\ did' = [op |-> "place", task |-> t]
  /\ UNCHANGED <<now, owed, layered, back>>

\* phaseIdsForDrop: the tightest phase around the drop.
PhaseAt(at) ==
  LET here == { p \in Phases : \E d \in Days :
                  OnDay(p, d).start <= at /\ at < OnDay(p, d).end }
  IN IF here = {} THEN None
     ELSE CHOOSE p \in here : \A q \in here : p.end - p.start <= q.end - q.start

\* seatedAt: a conflict, or a seat that is not the drop, refuses the drop.
DropRefused(plan, at) ==
  plan.outcome = "conflict" \/ (plan.outcome = "seated" /\ plan.at.start # at)

\* runFlexibleMoveJob: the phase of the drop, then the drop; a refused drop gives
\* the old phase back, anything else may have freed a hole.
Drag(t) ==
  /\ UserDoes("drag", t)
  /\ task[t].kind = "flexible" /\ task[t].status # "done" /\ task[t].slot # None
  /\ task[t].state \in {"none", "resolved"}
  /\ \E at \in Drops, dur \in Durs, order \in RowOrders :
       LET w == Put(World, t, [task[t] EXCEPT !.phase = PhaseAt(at)])
           out == Placed(w, t, Options(at, dur, FALSE, FALSE, "preferred", TRUE, None), order)
       IN IF DropRefused(out.plan, at) THEN Becomes(World) /\ owed' = owed
          ELSE Becomes(out.world) /\ owed' = owed + 1
  /\ UNCHANGED <<now, layered, back>>

\* The answers to a conflict sheet.
PutOnTop(t) ==
  /\ UserDoes("on top", t) /\ task[t].state = "none" /\ task[t].asked /\ task[t].slot = None
  /\ LET i == [start |-> task[t].clock, end |-> task[t].clock + task[t].dur]
     IN task' = [task EXCEPT ![t] = [task[t] EXCEPT !.state = "resolved", !.asked = FALSE,
                                                    !.was = i.start, !.slot = i]]
  /\ layered' = layered \cup {t}
  /\ UNCHANGED <<now, held, born, owed, back>>

LeaveParked(t) ==
  /\ UserDoes("leave", t) /\ task[t].state = "none" /\ task[t].asked /\ task[t].slot = None
  /\ task' = [task EXCEPT ![t] = [Park(task[t]) EXCEPT !.asked = TRUE, !.was = task[t].clock]]
  /\ owed' = owed + 1
  /\ UNCHANGED <<now, held, born, layered, back>>

Begin(t) ==
  /\ UserDoes("begin", t) /\ task[t].state = "none" /\ task[t].status = "todo" /\ task[t].slot # None
  /\ task' = [task EXCEPT ![t].status = "doing"]
  /\ UNCHANGED <<now, held, born, owed, layered, back>>

\* A finished task keeps its slot as history and frees its time.
Done(t) ==
  /\ UserDoes("done", t) /\ Exists(t) /\ task[t].status # "done"
  /\ task' = [task EXCEPT ![t].status = "done"]
  /\ UNCHANGED <<now, held, born, owed, layered, back>>

\* What updateStatus asks of a task that comes back (commit `keep`, revalidate).
KeepOptions(r) == Options(None, r.dur, FALSE, TRUE, "keep", FALSE, None)

\* A fixed task keeps its clock; another one keeps a clock that is free and fits.
KeepsClock(w, t, order) ==
  LET r == w.task[t]
      i == ClaimInterval(r, KeepOptions(r))
      day == DayOf(i.start)
      today == Within(HorizonWindows(r.phase), [start |-> day * DayLen, end |-> (day + 1) * DayLen])
      taken == \E s \in ToSet(Rows(w, {t}, order)) : s.role # "resolved" /\ Overlaps(s, i)
  IN /\ r.by # None => r.by > now
     /\ r.kind = "fixed" \/ (~taken /\ FitsWindow(i, today))

\* Kept clocks write nothing; a miss takes a hole of that day.
BackInPlace(w, t, order) ==
  LET r == w.task[t]
      o == KeepOptions(r)
      hole == [o EXCEPT !.hole = TRUE, !.day = DayOf(r.clock)]
      expired == r.by # None /\ r.by <= now
  IN IF KeepsClock(w, t, order) THEN w
     ELSE Placed(w, t, IF expired THEN o ELSE hole, order).world

Reopen(t) ==
  /\ UserDoes("reopen", t) /\ Exists(t) /\ task[t].status = "done"
  /\ \E order \in RowOrders :
       LET w == Put(World, t, [task[t] EXCEPT !.status = "todo"])
       IN Becomes(IF w.task[t].clock # None /\ CanPlace(w.task[t])
                  THEN BackInPlace(w, t, order) ELSE w)
  /\ back' = back \cup {t}
  /\ UNCHANGED <<now, owed, layered>>

Delete(t) ==
  /\ UserDoes("delete", t) /\ Exists(t)
  /\ task' = [task EXCEPT ![t] = [Absent EXCEPT !.state = "deleted"]]
  /\ born' = Those(born, Tasks \ {t})
  /\ owed' = IF task[t].state = "unscheduled" THEN owed ELSE owed + 1
  /\ UNCHANGED <<now, held, layered, back>>

\* autoSeatOptions
SeatsItself(r) ==
  /\ r.state = "problematic" /\ r.status # "done" /\ ~r.asked /\ r.kind = "flexible"
  /\ r.parkedDay # None => r.parkedDay >= DayOf(now)

\* Slip (AutoSeatOptions): filling a hole may pack the day.
AutoSeatPacks(r) ==
  Options(IF r.parkedDay = None THEN None ELSE r.was, r.dur, TRUE, FALSE, "always", FALSE,
          r.parkedDay)

AutoSeatOptions(r) ==
  Options(IF r.parkedDay = None THEN None ELSE r.was, r.dur, TRUE, TRUE, "always", FALSE,
          r.parkedDay)

FilledHoles(w, order) ==
  LET queue == Those(w.born, { t \in Tasks : SeatsItself(w.task[t]) })
      Seat(v, t) == Placed(v, t, AutoSeatOptions(v.task[t]), order).world
      pass[n \in 0 .. Len(queue)] == IF n = 0 THEN w ELSE Seat(pass[n - 1], queue[n])
  IN pass[Len(queue)]

\* Slip (SeatOpenHoles): runs without being asked.
SeatAnyTime ==
  /\ owed' = owed - 1 /\ did' = [op |-> "fill", task |-> None]
  /\ \E order \in RowOrders : Becomes(FilledHoles(World, order))
  /\ UNCHANGED <<now, ops, layered, back>>

\* seatOpenHoles
SeatOpenHoles ==
  /\ owed > 0 /\ owed' = owed - 1 /\ did' = [op |-> "fill", task |-> None]
  /\ \E order \in RowOrders : Becomes(FilledHoles(World, order))
  /\ UNCHANGED <<now, ops, layered, back>>

Tick ==
  /\ \E at \in Moments : at > now /\ now' = at
  /\ did' = [op |-> "tick", task |-> None]
  /\ UNCHANGED <<task, held, born, owed, ops, layered, back>>

Init ==
  /\ now = 0 /\ task = [t \in Tasks |-> Absent] /\ held = [s \in Series |-> Days]
  /\ born = <<>> /\ owed = 0 /\ ops = 0
  /\ did = [op |-> "none", task |-> None] /\ layered = {} /\ back = {}

Next ==
  \/ \E t \in OneOffs : Save(t)
  \/ \E t \in Tasks :
       PlaceSaved(t) \/ Drag(t) \/ PutOnTop(t) \/ LeaveParked(t) \/ Begin(t) \/ Done(t)
       \/ Reopen(t) \/ Delete(t)
  \/ SeatOpenHoles \/ Tick

Spec == Init /\ [][Next]_vars

------------------------------------------------------------------------------
(* What a calendar must keep. *)

OpenSlots ==
  { [of |-> t, start |-> task[t].slot.start, end |-> task[t].slot.end] :
      t \in { x \in Tasks : /\ task[x].state \in {"none", "resolved"} /\ task[x].status # "done"
                            /\ task[x].slot # None /\ task[x].slot.end > now } }
  \cup UNION { { [of |-> s, start |-> Home(s, d).start, end |-> Home(s, d).end] :
                   d \in { x \in held[s] : Home(s, x).end > now } } : s \in Series }

\* What a placement sees of an open slot: one in progress is two seats.
PartsOf(r) ==
  IF IsBegun(r) THEN {[start |-> r.slot.start, end |-> now], [start |-> now, end |-> r.slot.end]}
  ELSE {r.slot}

\* Time nobody sits on and yet nobody may take: the series clock of a moved day
\* copy, and the clock of a fixed task that has no slot yet.
Reserved ==
  (UNION { { HomeClock(t, i) : i \in { p \in PartsOf(task[t]) : HomeClock(t, p) # None } } :
             t \in { o.of : o \in OpenSlots } \cap Copies })
  \cup { [start |-> task[t].clock, end |-> task[t].clock + task[t].dur] :
           t \in { x \in Tasks : /\ task[x].kind = "fixed" /\ task[x].state = "none"
                                 /\ task[x].status # "done" /\ task[x].clock # None } }

\* The shape of the rows; a slot is never empty.
Times == 0 .. EndOfTime
TypeOK ==
  /\ now \in {0} \cup Moments /\ owed \in Nat /\ ops \in 0 .. MaxOps /\ layered \cup back \subseteq Tasks
  /\ held \in [Series -> SUBSET Days] /\ ToSet(born) \subseteq Tasks
  /\ \A t \in Tasks :
       /\ task[t].state \in {"absent", "none", "problematic", "resolved", "unscheduled", "deleted"}
       /\ task[t].clock \in Times \cup {None}
       /\ task[t].slot # None => /\ task[t].slot.start \in Times /\ task[t].slot.end \in Times
                                 /\ task[t].slot.start < task[t].slot.end

\* However placements, drags, chains and packs follow one another, two open
\* slots share time only if one of them was put on top by its user, or came back
\* from done to a clock that is kept unseen: a fixed task, and one whose slot had
\* started when it was moved, whose row still has the clock of before (:2495)
\* (planPlacement; scheduling-invariants.spec.ts: anchors are protected).
NoDoubleBooking ==
  LET unseen == { t \in back : \/ task[t].kind = "fixed"
                               \/ task[t].slot # None /\ task[t].slot.start # task[t].clock }
  IN \A x, y \in OpenSlots :
       x.of # y.of /\ Overlaps(x, y) => {x.of, y.of} \cap (layered \cup unseen) # {}

\* PlaceOptions.revalidate says that the slot of a task back from done also has
\* to be free of seated tasks, and a miss searches a new hole.
ReopenedSlotIsFree ==
  did.op = "reopen" =>
    \A x, y \in OpenSlots :
      x.of = did.task /\ y.of # x.of /\ Overlaps(x, y) => {x.of, y.of} \cap layered # {}

\* No task is silently lost: once its placement ran, an open task has a slot,
\* is in an inbox, waits on a conflict sheet, or its clock is over; a task that
\* came back from done is left out, its clock may be kept with no slot behind it
\* (placeUnlocked, applyMove, persist).
NobodyLost ==
  \A t \in Tasks :
    task[t].state = "none" /\ task[t].status # "done" /\ ~task[t].placing /\ t \notin back =>
      \/ task[t].slot # None \/ task[t].asked
      \/ task[t].clock # None /\ task[t].clock + task[t].dur <= now

\* A day of a series is held by the series or by its copy, never by both, and
\* is lost only when the user deletes the copy (detach, tryReMergeSeriesMember).
DayHasOneHolder ==
  \A s \in Series, d \in Days : (d \in held[s]) = (task[<<s, d>>].state = "absent")

\* A slot in its task's phase and before its deadline.
InItsTime(r) ==
  FitsWindow(r.slot, HorizonWindows(r.phase)) /\ (r.by # None => r.slot.end <= r.by)

Overnight(r) == r.slot # None /\ DayOf(r.slot.start) # DayOf(r.slot.end - 1)

\* Whoever is pushed aside by another's placement stays on its civil day, in its
\* phase and before its deadline (CutToDay, packing, chains), and a fixed task
\* that is seated is not pushed at all until it is deleted (planPlacement:
\* anchors).  Two cases are left out, in which the whole day of the claim is
\* open to the one pushed (:803): its slot was outside its phase already, and
\* the claim is overnight and hits it on the second day.
PushedStaysOnItsDay ==
  [][\A t \in Tasks :
       LET a == task[t].slot
           b == task'[t].slot
           placed == did'.task
       IN task[t].state = "none" /\ a # None /\ a # b =>
            /\ task[t].kind = "fixed" => task'[t].state = "deleted"
            /\ /\ t # placed /\ task'[t].state = "none" /\ b # None /\ InItsTime(task[t])
               /\ placed \in Tasks => ~Overnight(task'[placed])
               => DayOf(a.start) = DayOf(b.start) /\ b.start >= now /\ InItsTime(task'[t])]_vars

\* A pass over the inbox moves no seated task (a copy may rejoin its series in
\* place) and leaves no hole unused: a task still parked for lack of room has
\* no room in its windows beside what is now seated (seatOpenHoles, findHole).
FillingUsesHoles ==
  [][did'.op = "fill" =>
       \A t \in Tasks :
         LET r == task'[t]
             free(s) == \A o \in OpenSlots' \cup Reserved' : ~Overlaps([start |-> s, end |-> s + r.dur], o)
         IN /\ task[t].state \in {"none", "resolved"} => r.slot = task[t].slot
            /\ SeatsItself(r) /\ r.parkedDay = None =>
                 ~\E w \in HorizonWindows(r.phase), s \in now .. EndOfTime :
                    /\ s % Step = 0 /\ s >= w.start /\ s + r.dur <= Min({w.end, Until(r.by)})
                    /\ free(s)]_vars

\* A seat on the clock of its row, and one a placement may give it again.
OnItsClock(r) == r.clock # None /\ r.clock >= now /\ r.slot.end = r.slot.start + r.dur

MayHave(r) ==
  r.kind = "flexible" =>
    InItsTime(r) /\ (r.by = None => r.slot.end <= DayBounds(DayOf(r.slot.start)).end)

\* A create job that runs again after a crash leaves a task where it was seated
\* or dropped meanwhile (placeAndSync), unless someone was put on top of it, the
\* clock of its row has begun, or it sits outside its phase: a drop on a time
\* that is over moves no slot and yet sets the phase (:853).
RetryKeepsSeat ==
  [][did'.op = "place" /\ layered = {} =>
       \A t \in Tasks :
         LET r == task[t]
         IN did'.task = t /\ r.slot # None /\ OnItsClock(r) /\ MayHave(r)
            => task'[t].slot = r.slot]_vars

\* The starts read off the merged and subtracted lists are exactly the free
\* starts on the grid, for the seats of every calendar a placement leaves
\* (free-slots.util.ts).
GapStartsAreExact ==
  LET windows == HorizonWindows(None)
      rows == Rows(World, {}, "newest")
      busy == [k \in DOMAIN rows |-> Span(rows[k])]
      gaps == SubtractMany(SetToSeq(windows), MergeIntervals(busy))
  IN did.op \in {"place", "drag", "fill"} =>
       \A dur \in Durs : CandidateStarts(gaps, dur, Step) = FreeStarts(dur, 0, windows, ToSet(busy))
=============================================================================
