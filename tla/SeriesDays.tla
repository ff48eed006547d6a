----------------------------- MODULE SeriesDays -----------------------------
(***************************************************************************)
(* The days of one series group: the master, its clock siblings, the tails *)
(* of "this and following", and the one-off copies that stand for single   *)
(* days.  A day of a series is (series group, civil day); a series holds   *)
(* it with a row, or skips it because a copy or another series does, or    *)
(* because the user skipped it.                                            *)
(*                                                                         *)
(* Every action runs under the user lock.  Where the engine seats a day is *)
(* its choice (PlacementPlan): the wanted clock, another, or none.         *)
(*                                                                         *)
(* A day has two clocks, 0 and 1; half a day is one unit of time.  Slots   *)
(* are pairs <<day, clock>>.  Bounds: LastDay, MaxTime, MaxSeries, MaxCopies, *)
(* MaxRequests (requests, and days another task keeps from being seated as *)
(* wanted), and a copy moves by a day at most.                             *)
(***************************************************************************)
EXTENDS Integers, Sequences, FiniteSetsExt

CONSTANTS LastDay, Week, Horizon, MaxSeries, MaxCopies, MaxRequests, MaxTime

ASSUME SeriesAssumption ==
  /\ LastDay \in Nat \ {0} /\ Week \in Nat \ {0} /\ Horizon \in Nat \ {0}
  /\ MaxSeries \in Nat \ {0} /\ MaxCopies \in Nat /\ MaxRequests \in Nat /\ MaxTime \in Nat \ {0, 1}

Days   == 1 .. LastDay
Clocks == 0 .. 1
Nowhere == 2                    \* a day the engine could not seat
Slots  == Days \X Clocks
NoSlot == <<0, 0>>              \* a parked copy
NoEnd  == LastDay + 1           \* a series without a deadline
NoClock == 2                    \* no placement is due

VARIABLES
  series,     \* tasks that repeat, in the order they were made
  copies,     \* one-offs that stand for a day; a copy is what it stands for
  due,        \* per series: the clock of a placement not made yet
  now,        \* half days
  requests,   \* requests of the user so far, and days other tasks took
  \* history, not in the database:
  dismissed,  \* days the user skipped or deleted
  ended,      \* days the user took off by ending a series
  dropped,    \* days the code leaves to nobody: an append passes over them, a
              \* split hands them to a tail that does not name them, or a series
              \* without open days is moved past them
  astray      \* days the code loses count of: planned although the group had or
              \* skipped them, or taken back by a series that starts after them

vars == <<series, copies, due, now, requests, dismissed, ended, dropped, astray>>

SeriesRec == {me \in [rule: SUBSET (0 .. Week - 1), from: 0 .. LastDay, anchor: Days,
                      clock: Clocks \cup {NoClock}, until: 1 .. NoEnd, skipped: SUBSET Days,
                      rows: SUBSET Slots, parked: BOOLEAN] : me.parked \/ me.clock \in Clocks}
CopyRec == [day: Days, parent: 1 .. MaxSeries, slot: Slots \cup {NoSlot}, own: BOOLEAN]

Ids(srs) == 1 .. Len(srs)
Today    == now \div 2
Over(slot) == now > 2 * slot[1] + slot[2]
InHorizon  == {d \in Days : Today <= d /\ d < Today + Horizon}

OpenRowsAll(rows) == rows            \* slip: the rows of past days with them
OpenRows(rows)    == {r \in rows : ~Over(r)}
RowsOn(rows, d)   == {r \in rows : r[1] = d}
RowsFrom(rows, d) == {r \in rows : r[1] >= d}
Least(S) == CHOOSE x \in S : \A y \in S : x <= y
Earlier(a, b) == 2 * a[1] + a[2] <= 2 * b[1] + b[2]
First(rows) == CHOOSE r \in rows : \A q \in rows : Earlier(r, q)

-----------------------------------------------------------------------------
(* The days a series names.                                                *)

StartDay(me) == IF me.from # 0 THEN me.from ELSE me.anchor

\* Slip: the skipped days with them.
DaysOfRule(me, clock) ==
  {d \in InHorizon : d >= StartDay(me) /\ d % Week \in me.rule /\ ~Over(<<d, clock>>) /\ d < me.until}

Names(me, d) ==
  d >= StartDay(me) /\ d % Week \in me.rule /\ d \notin me.skipped /\ d < me.until

DaysOf(me, clock) == {d \in InHorizon : Names(me, d) /\ ~Over(<<d, clock>>)}

HeldByOther(srs, cps, s, d) ==
  \/ \E t \in Ids(srs) \ {s} : RowsOn(srs[t].rows, d) # {}
  \/ \E c \in cps : c.slot[1] = d

(* The occurrences of a day.                                               *)
Holders(d) == {<<"series", s>> : s \in {t \in Ids(series) : RowsOn(series[t].rows, d) # {}}}
              \cup {<<"copy", c>> : c \in {x \in copies : x.day = d}}

(* What the engine may answer for the days of P.                           *)
Count(n) == requests + n <= MaxRequests /\ requests' = requests + n
Request  == Count(1)
Misses(f, wanted) == Cardinality({d \in DOMAIN f : f[d] # wanted})
Answers(P, wanted) ==
  {f \in UNION {{[d \in P |-> IF d \in DOMAIN g THEN g[d] ELSE wanted] :
                   g \in [Q -> {1 - wanted, Nowhere}]} :
                 Q \in UNION {kSubset(n, P) : n \in 0 .. MaxRequests - requests}} :
     \A d \in P : f[d] \in {wanted, Nowhere} \/ ~Over(<<d, f[d]>>)}

(* Planned days somebody has already: a row of this series that is over, a *)
(* row or a skip of another member.                                        *)
Retakes(srs, cps, s, P) ==
  {d \in P : \/ RowsOn(srs[s].rows \ OpenRows(srs[s].rows), d) # {}
             \/ HeldByOther(srs, cps, s, d)
             \/ \E t \in Ids(srs) \ {s} : d \in srs[t].skipped}

ParkedNone(s, P) == {}               \* slip: the day is skipped and nothing stands for it
Parked(s, P) == {[day |-> d, parent |-> s, slot |-> NoSlot, own |-> FALSE] : d \in P}
CopyAt(s, d, k) == [day |-> d, parent |-> s, slot |-> <<d, k>>, own |-> FALSE]

(* refreshTaskScheduleAfterSkip: the master shows its first open row.      *)
Refreshed(me) ==
  IF OpenRows(me.rows) = {} THEN me
  ELSE [me EXCEPT !.anchor = First(OpenRows(me.rows))[1],
                  !.clock  = First(OpenRows(me.rows))[2]]

-----------------------------------------------------------------------------
(* Seating a whole series: seatRecurringHorizonUnlocked on the state       *)
(* (srs, cps) the caller's transaction has made so far.                    *)

(* The clock most days sit on; a tie goes to the wanted one.               *)
MainClock(f, P, wanted) ==
  LET at(k) == Cardinality({d \in P : f[d] = k})
  IN IF at(wanted) >= at(1 - wanted) THEN wanted ELSE 1 - wanted

KeepSeats(srs, cps) == series' = srs /\ copies' = cps

ParkDays(srs, cps, s, P) ==
  /\ series' = [srs EXCEPT ![s].skipped = @ \cup P, ![s].parked = @ \/ P = {},
                             ![s].clock = IF P = {} THEN NoClock ELSE @]
  /\ copies' = cps \cup Parked(s, P)

Reseat(srs, cps, s, P, f, wanted) ==
  LET k      == MainClock(f, P, wanted)
      mine   == {d \in P : f[d] = k}
      others == {d \in P : f[d] = 1 - k}
      failed == {d \in P : f[d] = Nowhere}
      me     == [srs[s] EXCEPT
                   !.rows    = (@ \ OpenRows(@)) \cup (mine \X {k}),
                   !.skipped = @ \cup others \cup failed,
                   !.anchor  = Least(mine),
                   !.clock   = k,
                   !.parked  = FALSE]
      sibling == [rule |-> {d % Week : d \in others}, from |-> 0, anchor |-> Least(others),
                  clock |-> 1 - k, until |-> me.until, skipped |-> {},
                  rows |-> others \X {1 - k}, parked |-> FALSE]
      repeats == Cardinality(others) >= 2
  IN /\ series' = IF repeats THEN Append([srs EXCEPT ![s] = me], sibling)
                             ELSE [srs EXCEPT ![s] = me]
     /\ copies' = cps \cup Parked(s, failed)
                      \cup {CopyAt(s, d, 1 - k) : d \in IF repeats THEN {} ELSE others}

Seat(srs, cps, s, wanted, asked) ==
  LET P == DaysOf(srs[s], wanted)
  IN \E f \in Answers(P, wanted) :
       /\ Count(asked + Misses(f, wanted))
       /\ IF \E d \in P : f[d] # Nowhere THEN Reseat(srs, cps, s, P, f, wanted)
          ELSE IF OpenRows(srs[s].rows) # {} THEN KeepSeats(srs, cps)
          ELSE ParkDays(srs, cps, s, P)
       /\ astray' = IF OpenRows(srs[s].rows) # {} /\ \A d \in P : f[d] = Nowhere THEN astray
                     ELSE astray \cup Retakes(srs, cps, s, P)

Room == Len(series') <= MaxSeries /\ Cardinality(copies') <= MaxCopies

(* A create job, or the second lock section of moveSeriesAll.              *)
Place(s) ==
  /\ due[s] # NoClock
  /\ due' = [due EXCEPT ![s] = NoClock]
  /\ Seat(series, copies, s, due[s], 0)
  /\ Room
  /\ UNCHANGED <<now, dismissed, ended, dropped>>

(* The series ends before day d: the deadline, and the days to come that  *)
(* lie behind it.                                                          *)
EndedAt(me, d) == [me EXCEPT !.until = IF @ > d THEN d ELSE @,
                             !.rows  = @ \ RowsFrom(OpenRows(@), d)]

(* The tails that begin on day d.                                          *)
Tails(s, d) == {t \in Ids(series) \ {s} : series[t].from = d}

PassedOver(s, d) ==
  IF OpenRows(series[s].rows) # {} THEN {}
  ELSE {x \in Days : x < d /\ Names(series[s], x) /\ Holders(x) = {}}

(* moveSeriesAll, for a drop on day d: the new clock is saved first, on the *)
(* first open day.  The job of "this and following" comes here as well when *)
(* it is run again and the series it cut has no open day left.             *)
SaveClock(s, d, k) ==
  /\ Request
  /\ RowsOn(series[s].rows, d) # {} \/ Tails(s, d) # {}
  /\ LET open == OpenRows(series[s].rows)
     IN series' = [series EXCEPT ![s].clock = k,
                                 ![s].anchor = IF open = {} THEN d ELSE First(open)[1]]
  /\ due' = [due EXCEPT ![s] = k]
  /\ dropped' = dropped \cup PassedOver(s, d)
  /\ UNCHANGED <<copies, now, dismissed, ended, astray>>

(* moveSeriesTail: the series ends before day d, a tail starts on it.  A    *)
(* job that is run again, or a stale edit, finds the tail it made, or one   *)
(* that another member left there.                                         *)
Split(s, d, k) ==
  /\ RowsOn(OpenRows(series[s].rows), d) # {} \/ Tails(s, d) # {}
  /\ \E r \in series[s].rows : r[1] < d
  /\ LET old   == EndedAt(series[s], d)
         fresh == [old EXCEPT !.from = d, !.anchor = d, !.clock = k, !.rows = {},
                              !.until = IF series[s].until > d THEN series[s].until ELSE NoEnd,
                              !.skipped = {}, !.parked = FALSE]
         cut   == [series EXCEPT ![s] = old]
     IN \/ /\ Tails(s, d) = {}
           /\ Seat(Append(cut, fresh), copies, Len(series) + 1, k, 1)
           /\ dropped' = dropped
        \/ \E t \in Tails(s, d) :
             /\ Seat([cut EXCEPT ![t].clock = k, ![t].anchor = d], copies, t, k, 1)
             /\ dropped' = dropped \cup {x \in Days : x >= d /\ Names(series[s], x) /\ ~Names(series[t], x)}
  /\ Room
  /\ UNCHANGED <<due, now, dismissed, ended>>

\* Slip: the deadline is a day early.
EndFromBefore(s, d) ==
  /\ Request
  /\ RowsOn(OpenRows(series[s].rows), d) # {}
  /\ series' = [series EXCEPT ![s] =
       Refreshed([EndedAt(series[s], d) EXCEPT !.until = IF @ = d THEN d - 1 ELSE @])]
  /\ ended' = ended \cup {x \in Days : d <= x /\ x < series[s].until}
  /\ UNCHANGED <<copies, due, now, dismissed, dropped, astray>>

(* recordSeriesEnd.                                                        *)
EndFrom(s, d) ==
  /\ Request
  /\ RowsOn(OpenRows(series[s].rows), d) # {}
  /\ series' = [series EXCEPT ![s] = Refreshed(EndedAt(@, d))]
  /\ ended' = ended \cup {x \in Days : d <= x /\ x < series[s].until}
  /\ UNCHANGED <<copies, due, now, dismissed, dropped, astray>>

-----------------------------------------------------------------------------
(* The background pass: purgePastProblematicCopies, then                   *)
(* appendMissingSeriesDays.                                                *)

Purge ==
  /\ copies' = copies \ {c \in copies : c.slot = NoSlot /\ c.day < Today}
  /\ UNCHANGED <<series, due, now, requests, dismissed, ended, dropped, astray>>

LastSeat(me) ==
  LET seats == {2 * r[1] + r[2] : r \in me.rows}
  IN IF seats = {} THEN 2 * me.anchor + me.clock
     ELSE CHOOSE x \in seats : \A y \in seats : y <= x

(* The one member of the group the pass extends.                           *)
Continues(s) ==
  LET Rank(t) == <<LastSeat(series[t]), 2 * series[t].anchor + series[t].clock>>
      eligible == {t \in Ids(series) : ~series[t].parked}
  IN /\ s \in eligible
     /\ \A t \in eligible : \/ Rank(t)[1] < Rank(s)[1]
                            \/ Rank(t)[1] = Rank(s)[1] /\ Rank(t)[2] <= Rank(s)[2]

(* expandSeriesDays: each missing day is a transaction of its own, so a    *)
(* crash leaves the days up to some `last` done.                           *)
Missing(s) == {d \in DaysOf(series[s], series[s].clock) :
                 RowsOn(series[s].rows, d) = {} /\ ~HeldByOther(series, copies, s, d)}

\* Named days without an occurrence, on which a copy of another day sits.
Yielded(s) == {d \in DaysOf(series[s], series[s].clock) :
                 Holders(d) = {} /\ \E c \in copies : c.slot[1] = d}

AppendDays(s, P) ==
  LET clock == series[s].clock
  IN /\ \E f \in Answers(P, clock) :
          LET moved  == {d \in P : f[d] = 1 - clock}
              failed == {d \in P : f[d] = Nowhere}
          IN /\ Count(Misses(f, clock))
             /\ series' = [series EXCEPT
                  ![s].rows    = @ \cup ((P \ (moved \cup failed)) \X {clock}),
                  ![s].skipped = @ \cup moved \cup failed]
             /\ copies' = copies \cup Parked(s, failed)
                                 \cup {CopyAt(s, d, 1 - clock) : d \in moved}
     /\ astray' = astray \cup Retakes(series, copies, s, P)

Extend(s) ==
  /\ Continues(s)
  /\ LET missing == Missing(s)
     IN \E last \in missing \cup {LastDay} :
          /\ AppendDays(s, {d \in missing : d <= last})
          /\ dropped' = dropped \cup {d \in Yielded(s) : d <= last}
  /\ Room
  /\ UNCHANGED <<due, now, dismissed, ended>>

-----------------------------------------------------------------------------
(* One day of a series.                                                    *)

(* skipSeriesDay *)
SkippingRowOnly(me, d) == [me EXCEPT !.rows = @ \ RowsOn(OpenRows(@), d)]     \* slip
Skipping(me, d) == [me EXCEPT !.skipped = @ \cup {d}, !.rows = @ \ RowsOn(OpenRows(@), d)]

(* findOrCreateDayCopy *)
DayCopies(s, d) ==
  LET made == {c \in copies : c.day = d}
  IN IF made # {} THEN made ELSE {[day |-> d, parent |-> s, slot |-> NoSlot, own |-> FALSE]}

(* A copy is placed: it gets its slot, or, when it is back on its own day  *)
(* at the clock of a series that skips that day and could hold it, the     *)
(* series takes the day back (tryReMergeSeriesMember).                     *)
Owners(srs, c, slot) ==
  {t \in Ids(srs) : /\ srs[t].clock = slot[2]
                    /\ c.day \in srs[t].skipped
                    /\ srs[t].from <= c.day /\ c.day < srs[t].until}

Absorbed(c)    == copies \ {c}

PutCopy(srs, c, slot) ==
  LET owners == IF slot[1] # c.day \/ c.own THEN {} ELSE Owners(srs, c, slot)
      m == IF c.parent \in owners THEN {c.parent} ELSE owners
  IN \/ /\ series' = srs
        /\ copies' = (copies \ {c}) \cup {[c EXCEPT !.slot = slot]}
        /\ astray' = astray
     \/ \E t \in m :
          /\ series' = [srs EXCEPT
               ![t].skipped = @ \ {c.day},
               ![t].rows    = (@ \ RowsOn(OpenRows(@), c.day)) \cup {slot}]
          /\ copies' = Absorbed(c)
          /\ astray' = astray \cup {d \in {c.day} : d < StartDay(srs[t])}

Free(slot, d) == \/ slot = NoSlot
                 \/ slot[1] \in InHorizon /\ slot[1] \in d - 1 .. d + 1 /\ ~Over(slot)

(* moveSeriesDay, and an edited time: skip the day, place its copy; a       *)
(* conflict rolls all of it back and is no step.                           *)
MoveDay(s, d, slot) ==
  /\ Request
  /\ RowsOn(OpenRows(series[s].rows), d) # {}
  /\ Free(slot, d)
  /\ \E c \in DayCopies(s, d) :
       PutCopy([series EXCEPT ![s] = Skipping(@, d)], c, slot)
  /\ Room
  /\ UNCHANGED <<due, now, dismissed, ended, dropped>>

(* applyMove: another task takes the time of the day; its copy sits        *)
(* elsewhere on that day or is parked.                                     *)
Displace(s, d, slot) ==
  /\ Request
  /\ RowsOn(OpenRows(series[s].rows), d) # {}
  /\ Free(slot, d) /\ slot[1] \in {0, d}
  /\ series' = [series EXCEPT ![s] = Skipping(@, d)]
  /\ copies' = copies \cup {[day |-> d, parent |-> s, slot |-> slot, own |-> FALSE]}
  /\ Room
  /\ UNCHANGED <<due, now, dismissed, ended, dropped, astray>>

(* editOne with the same interval, also on a past day: the copy takes the  *)
(* row over.                                                               *)
HandOver(s, r) ==
  /\ Request
  /\ r \in series[s].rows
  /\ series' = [series EXCEPT ![s].skipped = @ \cup {r[1]},
                              ![s].rows = @ \ RowsOn(@, r[1])]
  /\ \E c \in DayCopies(s, r[1]) :
       copies' = (copies \ {c}) \cup {[c EXCEPT !.slot = r, !.own = TRUE]}
  /\ Room
  /\ UNCHANGED <<due, now, dismissed, ended, dropped, astray>>

(* An inbox pass (within the day) or the user places a copy.               *)
PlaceCopy(c, slot) ==
  /\ Request
  /\ ~Over(c.slot) \/ c.slot = NoSlot
  /\ Free(slot, c.day) /\ slot # NoSlot
  /\ PutCopy(series, c, slot)
  /\ UNCHANGED <<due, now, dismissed, ended, dropped>>

(* recordSkip on a series.                                                 *)
SkipDay(s, d) ==
  /\ Request
  /\ RowsOn(OpenRows(series[s].rows), d) # {}
  /\ series' = [series EXCEPT ![s] = Refreshed(Skipping(@, d))]
  /\ dismissed' = dismissed \cup {d}
  /\ UNCHANGED <<copies, due, now, ended, dropped, astray>>

(* skipOccurrence of a parked copy: its series skips the day, the copy goes. *)
SkipCopy(c) ==
  /\ Request
  /\ c.slot = NoSlot
  /\ series' = [series EXCEPT ![c.parent] = Refreshed(Skipping(@, c.day))]
  /\ copies' = copies \ {c}
  /\ dismissed' = dismissed \cup {c.day}
  /\ UNCHANGED <<due, now, ended, dropped, astray>>

(* remove of a copy.                                                       *)
DeleteCopy(c) ==
  /\ Request
  /\ copies' = copies \ {c}
  /\ dismissed' = dismissed \cup {c.day}
  /\ UNCHANGED <<series, due, now, ended, dropped, astray>>

Tick ==
  /\ now < MaxTime
  /\ now' = now + 1
  /\ UNCHANGED <<series, copies, due, requests, dismissed, ended, dropped, astray>>

-----------------------------------------------------------------------------
(* A series on every day has just been saved; its create job is due.       *)
Init ==
  /\ series = <<[rule |-> 0 .. Week - 1, from |-> 0, anchor |-> 1, clock |-> 0,
                 until |-> NoEnd, skipped |-> {}, rows |-> {}, parked |-> FALSE]>>
  /\ copies = {}
  /\ due = [s \in 1 .. MaxSeries |-> IF s = 1 THEN 0 ELSE NoClock]
  /\ now = 2
  /\ requests = 0
  /\ dismissed = {} /\ ended = {} /\ dropped = {} /\ astray = {}

OfSeries(s) ==
  \/ Place(s) \/ Extend(s)
  \/ \E d \in Days : \/ \E k \in Clocks : SaveClock(s, d, k) \/ Split(s, d, k)
                     \/ EndFrom(s, d)
                     \/ SkipDay(s, d)
                     \/ \E slot \in Slots \cup {NoSlot} :
                          Displace(s, d, slot) \/ MoveDay(s, d, slot)
  \/ \E r \in Slots : HandOver(s, r)

OfCopy(c) == (\E slot \in Slots : PlaceCopy(c, slot)) \/ SkipCopy(c) \/ DeleteCopy(c)

Next == \/ \E s \in Ids(series) : OfSeries(s)
        \/ \E c \in copies : OfCopy(c)
        \/ Purge \/ Tick

Spec == Init /\ [][Next]_vars

-----------------------------------------------------------------------------
(* Types of all variables.                                                 *)
TypeOK ==
  /\ series \in Seq(SeriesRec) /\ Len(series) \in 1 .. MaxSeries
  /\ copies \subseteq CopyRec
  /\ due \in [1 .. MaxSeries -> Clocks \cup {NoClock}]
  /\ now \in 2 .. MaxTime
  /\ requests \in 0 .. MaxRequests
  /\ dismissed \subseteq Days /\ ended \subseteq Days /\ dropped \subseteq Days /\ astray \subseteq Days

(* One civil day, one occurrence in the whole group (placement-engine.md   *)
(* 7.3): no two of the rows and copies stand for one day, however days are *)
(* moved, parked, split off and taken back; but for the days a series      *)
(* planned over another member (`astray`).  And a copy stays tied to its   *)
(* occurrence: its series skips that day (scheduling-invariants.spec.ts,   *)
(* 6), also after rejoins by other copies.                                *)
OneOccurrence ==
    /\ \A d \in Days \ astray : Cardinality(Holders(d)) <= 1
    /\ \A c \in copies : c.day \in astray \/ c.day \in series[c.parent].skipped

(* A member that skips a day goes on skipping it, and no plan, append, move *)
(* or rejoin gives that member the day again, once the user dismissed it and *)
(* nobody holds it.  The only way back is a member that does not skip it     *)
(* itself: the tail of a split, or a sibling (see SkipsAreKept).             *)
StandsOn(s, d) == \/ RowsOn(series[s].rows, d) # {}
                  \/ \E c \in copies : c.day = d /\ c.parent = s
StaysSkipped ==
  [][\A s \in Ids(series) : \A d \in dismissed \cap series[s].skipped :
       Holders(d) = {} => d \in series'[s].skipped /\ ~StandsOn(s, d)']_vars

(* A day the user skipped or deleted has no occurrence: "Recurring skips are *)
(* stored as civil days so later Generate will not recreate that occurrence" *)
(* (api-reference.md:179).  Not so after a split.                            *)
SkipsAreKept == \A d \in dismissed : Holders(d) = {}

(* Past days stay (7.3): what is over is never taken from the calendar;    *)
(* a copy may take it over from its series, and the user may delete one.   *)
Past == {r \in UNION ({series[s].rows : s \in Ids(series)} \cup {{c.slot : c \in copies}}) :
           r # NoSlot /\ Over(r)}
HistoryStays ==
  [][\A r \in Past : \/ r \in Past' \/ r[1] \in astray
                     \/ \E c \in copies : c.slot = r /\ c.day \in dismissed' \cup astray]_vars

(* One line of series: the master and its tails, each with a row and a clock. *)
Plain == \A s \in Ids(series) :
  series[s].rows # {} /\ ~series[s].parked /\ (s = 1 \/ series[s].from # 0)

(* No day to come is lost: it has its occurrence, or the user took it off,  *)
(* or a series names it and the background pass will append it.  Where a    *)
(* clock sibling repeats, or a member has no row or no clock, the pass may  *)
(* extend another series than the one that names the day.  Days in         *)
(* `dropped` are on their own: a copy of another day kept one from the pass *)
(* and a move of the whole series begins at its first open day, or a split  *)
(* or a move reached a member that did not stand on that day any more.      *)
NoDayLost ==
  \A d \in Days : d > Today =>
    \/ Holders(d) # {}
    \/ d \in dismissed \cup ended \cup dropped \cup astray
    \/ \E s \in Ids(series) : Names(series[s], d) /\ (Plain => Continues(s))

=============================================================================
