---------------------------- MODULE PlacementPlan ----------------------------
(***************************************************************************)
(* planPlacement (placement-step.util.ts): where one task goes among the   *)
(* seats of the others, and who moves for it.  Pure operators; time is in  *)
(* units of the model, intervals are half open.                            *)
(*                                                                         *)
(* A seat is [id, task, role, start, end, windows, notBefore, buffered,    *)
(* home]; home is the clock a moved day copy still owns, or None.  Rows    *)
(* are seats in the order the database returned them.  A claim is          *)
(* [task, recurring, dur, notBefore, windows, interval, near, expired,     *)
(* mustFit, overResolved, pack].                                           *)
(***************************************************************************)
EXTENDS Integers, Sequences, SequencesExt

CONSTANTS
  None,       \* no interval, no clock
  Step,       \* the grid of candidate starts (15 minutes)
  Buffer,     \* minutes kept free around fixed events when possible
  MaxPulls,   \* MAX_CHAIN_PULLS
  MaxSpins    \* rounds of one chain

ASSUME NoneAssumption == None \notin [start : Int, end : Int]

Overlaps(a, b) == a.start < b.end /\ b.start < a.end

Span(x) == [start |-> x.start, end |-> x.end]

FitsWindow(i, windows) == \E w \in windows : i.start >= w.start /\ i.end <= w.end

Distance(a, b) == IF a < b THEN b - a ELSE a - b

\* Starts on the grid at which `dur` fits in a window, free of `blocked`.
FreeStarts(dur, notBefore, windows, blocked) ==
  UNION { { s \in w.start .. (w.end - dur) :
              /\ s % Step = 0 /\ s >= notBefore
              /\ \A b \in blocked : ~Overlaps([start |-> s, end |-> s + dur], b) }
          : w \in windows }

\* The start nearest to `near` (ties: the earlier), or the earliest one.
BestStart(starts, near) ==
  CHOOSE s \in starts : \A o \in starts :
    IF near = None THEN s <= o
    ELSE \/ Distance(s, near) < Distance(o, near)
         \/ Distance(s, near) = Distance(o, near) /\ s <= o

SpanFrom(s, dur) == [start |-> s, end |-> s + dur]

HoleAt(starts, dur, near) ==
  IF starts = {} THEN None ELSE SpanFrom(BestStart(starts, near), dur)

Preferring(polite, any) == IF polite # None THEN polite ELSE any

\* Soft time is avoided first and given up when nothing else is left.
FindHole(dur, notBefore, windows, hard, soft, near) ==
  Preferring(HoleAt(FreeStarts(dur, notBefore, windows, hard \cup soft), dur, near),
             HoleAt(FreeStarts(dur, notBefore, windows, hard), dur, near))

SoftBusy(rows) ==
  { [start |-> r.start - Buffer, end |-> r.end + Buffer] :
      r \in { x \in ToSet(rows) : Buffer > 0 /\ x.buffered } }

\* A recurring claim moves flexible tasks only; other series are walls.
Movable(seat, recurring) ==
  seat.role = "flexible" \/ (seat.role = "series" /\ ~recurring)

PullToward(seat) == IF seat.home = None THEN seat.start ELSE seat.home.start

\* A displaced series day leaves the series as a copy; a one-off is shifted or parked.
MoveFor(seat, hole) ==
  [kind |-> CASE seat.role = "series" -> "detach"
              [] seat.role # "series" /\ hole = None -> "park"
              [] OTHER -> "shift",
   id |-> seat.id, task |-> seat.task, to |-> hole, from |-> Span(seat)]

With(f, k, v) == [x \in DOMAIN f \cup {k} |-> IF x = k THEN v ELSE f[x]]

Values(f) == { f[x] : x \in DOMAIN f }

Ids(rows) == { r.id : r \in ToSet(rows) }

NoOne == [x \in {} |-> None]

\* The elements of a sequence that are in S, in their order.
Those(seq, S) ==
  LET picked[n \in 0 .. Len(seq)] ==
        IF n = 0 THEN <<>>
        ELSE IF seq[n] \in S THEN Append(picked[n - 1], seq[n]) ELSE picked[n - 1]
  IN picked[Len(seq)]

\* Slip (Blocked): forgets the holes given out in this round.
BlockedBefore(claimant, seats, vacated, assigned) ==
  {claimant} \cup { Span(s) : s \in { x \in seats : x.id \notin vacated } }

Blocked(claimant, seats, vacated, assigned) ==
  {claimant} \cup { Span(s) : s \in { x \in seats : x.id \notin vacated } }
             \cup Values(assigned)

SeatFor(p, hard, soft) ==
  FindHole(p.end - p.start, p.notBefore, p.windows, hard, soft, PullToward(p))

\* The head of `todo` takes its hole, or pulls in whoever sits where it would fit.
Turn(chain, p, hole, relaxed, rows, recurring) ==
  LET inTheWay == { s \in ToSet(rows) : /\ Movable(s, recurring) /\ s.id \notin chain.vacated
                                        /\ Overlaps(s, relaxed) }
      blockers == IF relaxed = None THEN <<>> ELSE Those(rows, inTheWay)
  IN CASE hole # None -> [chain EXCEPT !.todo = Tail(@), !.at = With(@, p.id, hole)]
       [] hole = None /\ chain.pulls < MaxPulls /\ blockers # <<>> ->
            [chain EXCEPT !.todo = @ \o blockers, !.pulls = @ + 1,
                          !.vacated = @ \cup Ids(blockers)]
       [] OTHER -> [chain EXCEPT !.todo = <<>>, !.failed = TRUE]

\* One round of a chain; `relaxed` is a hole as if nobody movable were there.
Spin(chain, claimant, rows, soft, recurring) ==
  LET p == Head(chain.todo)
      walls == { s \in ToSet(rows) : ~Movable(s, recurring) }
      hole(seats) == SeatFor(p, Blocked(claimant, seats, chain.vacated, chain.at), soft)
  IN IF chain.todo = <<>> THEN chain
     ELSE Turn(chain, p, hole(ToSet(rows)), hole(walls), rows, recurring)

ChainEnd(chain) == IF chain.failed \/ chain.todo # <<>> THEN None ELSE chain.at

\* A hole for each of `people` and for whoever they pull in, or None.
Reseat(people, claimant, rows, soft, recurring) ==
  LET chain[n \in 0 .. MaxSpins] ==
        IF n = 0 THEN [todo |-> people, at |-> NoOne, vacated |-> Ids(people),
                       pulls |-> 0, failed |-> FALSE]
        ELSE Spin(chain[n - 1], claimant, rows, soft, recurring)
  IN ChainEnd(chain[MaxSpins])

TakeIfAny(at, p, hole) == IF hole = None THEN at ELSE With(at, p.id, hole)

\* Without pulling anyone in: a hole for those of `people` that find one.
ReseatDirectOnly(people, claimant, rows, soft) ==
  LET Hole(p, at) == SeatFor(p, Blocked(claimant, ToSet(rows), Ids(people), at), soft)
      at[n \in 0 .. Len(people)] ==
        IF n = 0 THEN NoOne ELSE TakeIfAny(at[n - 1], people[n], Hole(people[n], at[n - 1]))
  IN at[Len(people)]

FreeUnits(window, rows) ==
  Cardinality({ u \in window.start .. (window.end - 1) :
                  \A r \in ToSet(rows) : ~(r.start <= u /\ u < r.end) })

Within(windows, window) ==
  { w \in { [start |-> Max({v.start, window.start}), end |-> Min({v.end, window.end})]
            : v \in windows } : w.end > w.start }

Before(rows, i, j) ==
  \/ rows[i].start < rows[j].start
  \/ rows[i].start = rows[j].start /\ rows[i].end < rows[j].end
  \/ rows[i].start = rows[j].start /\ rows[i].end = rows[j].end /\ i < j

Rank(rows, i) == Cardinality({ j \in DOMAIN rows : Before(rows, j, i) }) + 1

ByStart(rows) ==
  [k \in DOMAIN rows |-> rows[CHOOSE i \in DOMAIN rows : Rank(rows, i) = k]]

\* The parts of packing one window for a claim: `day` has the claim, the movable
\* people of the window (`movers`, in order `people`), the walls between them, and
\* the soft time.
RoomOf(day, p) ==
  Within(IF p.windows = {} THEN {day.window} ELSE p.windows, day.window)

HoleOnDay(day, p, notBefore, busy, near) ==
  FindHole(p.end - p.start, Max({notBefore, p.notBefore, day.claim.notBefore}),
           RoomOf(day, p), day.walls \cup busy, day.soft, near)

\* One seat after the other, each as early as it can.
Take(acc, p, hole) ==
  IF acc.failed \/ hole = None THEN [acc EXCEPT !.failed = TRUE]
  ELSE [acc EXCEPT !.cursor = hole.end, !.at = With(@, p.id, hole)]

Compacted(day) ==
  LET Hole(p, acc) == HoleOnDay(day, p, acc.cursor, Values(acc.at), None)
      acc[n \in 0 .. Len(day.people)] ==
        IF n = 0 THEN [failed |-> FALSE, at |-> NoOne,
                       cursor |-> Max({day.window.start, day.claim.notBefore})]
        ELSE Take(acc[n - 1], day.people[n], Hole(day.people[n], acc[n - 1]))
  IN acc[Len(day.people)]

ClaimHole(day, at) ==
  LET claim == day.claim
      near == CASE claim.near # None -> claim.near
                [] claim.near = None /\ claim.interval # None -> claim.interval.start
                [] OTHER -> IF claim.recurring THEN day.window.end ELSE None
  IN FindHole(claim.dur, claim.notBefore, {day.window}, day.walls \cup Values(at),
              day.soft, near)

\* With the claim at `first`, each seat slides back toward its clock.
SlidBack(day, packed, first) ==
  LET Hole(p, at) == HoleOnDay(day, p, day.window.start,
                               { at[x] : x \in DOMAIN at \ {p.id} } \cup {first},
                               PullToward(p))
      at[n \in 0 .. Len(day.people)] ==
        IF n = 0 THEN packed
        ELSE TakeIfAny(at[n - 1], day.people[n], Hole(day.people[n], at[n - 1]))
  IN at[Len(day.people)]

Layout(day, at, claimed) ==
  IF claimed = None THEN None
  ELSE [at |-> claimed,
        moves |-> { MoveFor(p, at[p.id]) :
                      p \in { x \in day.movers : at[x.id] # Span(x) } }]

LayoutSlid(day, at) == Layout(day, at, ClaimHole(day, at))

LayoutAround(day, packed, first) ==
  IF first = None THEN None ELSE LayoutSlid(day, SlidBack(day, packed, first))

LayoutPacked(day, packed) ==
  IF packed.failed THEN None ELSE LayoutAround(day, packed.at, ClaimHole(day, packed.at))

\* Compact the movable seats of a window between the walls, seat the claim,
\* then let each of them slide back toward its clock.  None: no layout.
PackMovablesForHole(claim, rows, soft, window) ==
  LET movers == { r \in ToSet(rows) : Movable(r, claim.recurring) /\ Overlaps(r, window) }
      day == [claim |-> claim, people |-> ByStart(Those(rows, movers)), movers |-> movers,
              window |-> window, soft |-> soft,
              walls |-> { Span(r) : r \in ToSet(rows) \ movers }]
  IN IF FreeUnits(window, rows) < claim.dur \/ movers = {} THEN None
     ELSE LayoutPacked(day, Compacted(day))

\* A hole strictly inside the spread of the movable seats and their homes.
IsInteriorClusterHole(hole, rows, window) ==
  LET spans == { s \in UNION { IF r.home = None THEN {Span(r)} ELSE {Span(r), r.home} :
                                 r \in { x \in ToSet(rows) : Movable(x, FALSE) } } :
                   Overlaps(s, window) }
  IN /\ spans # {}
     /\ hole.start > Min({ s.start : s \in spans })
     /\ hole.end < Max({ s.end : s \in spans })

Seated(i, moves) == [outcome |-> "seated", at |-> i, moves |-> moves]
Unseated(why) == [outcome |-> why, at |-> None, moves |-> {}]

Earliest(windows) == CHOOSE w \in windows : \A v \in windows : w.start <= v.start

SeatedBy(layout) == Seated(layout.at, layout.moves)

\* No interval asked: a hole on a day in use, else packing one, else an empty day.
\* hole, pack: what each window has to offer.
BestDay(claim, rows, used, hole, pack) ==
  LET holed == { w \in used : /\ hole[w] # None
                              /\ ~(claim.recurring /\ IsInteriorClusterHole(hole[w], rows, w)) }
      packable == { w \in used : claim.pack /\ pack[w] # None }
      empty == { w \in claim.windows \ used : hole[w] # None }
  IN CASE holed # {} -> Seated(hole[Earliest(holed)], {})
       [] holed = {} /\ packable # {} -> SeatedBy(pack[Earliest(packable)])
       [] holed = {} /\ packable = {} /\ empty # {} -> Seated(hole[Earliest(empty)], {})
       [] OTHER -> Unseated("problematic")

PlanHole(claim, rows, soft) ==
  LET seats == ToSet(rows)
      busy == UNION { IF s.home = None THEN {Span(s)} ELSE {Span(s), s.home} : s \in seats }
      used == { w \in claim.windows : \E s \in seats : Movable(s, FALSE) /\ Overlaps(s, w) }
  IN BestDay(claim, rows, used,
             [w \in claim.windows |->
                FindHole(claim.dur, claim.notBefore, {w}, busy, soft, claim.near)],
             [w \in used |-> PackMovablesForHole(claim, rows, soft, w)])

\* The day of a recurring claim is packed, or it takes the nearest hole.
Elsewhere(pack, hole) ==
  LET packable == { w \in DOMAIN pack : pack[w] # None }
  IN CASE packable # {} -> SeatedBy(pack[Earliest(packable)])
       [] packable = {} /\ hole # None -> Seated(hole, {})
       [] OTHER -> Unseated("problematic")

\* A recurring claim on flexible peers: they all move, or it looks elsewhere.
SeriesDayOver(claim, rows, direct, chained, alone, elsewhere) ==
  LET assigned == CASE chained # None -> chained
                    [] chained = None /\ Ids(direct) \subseteq DOMAIN alone -> alone
                    [] OTHER -> None
      taken == \E s \in ToSet(rows) : s.role = "series" /\ Overlaps(s, claim.interval)
  IN CASE ~taken /\ direct = <<>> -> Seated(claim.interval, {})
       [] ~taken /\ direct # <<>> /\ assigned # None ->
            Seated(claim.interval,
                   { MoveFor(s, assigned[s.id]) :
                       s \in { x \in ToSet(rows) : x.id \in DOMAIN assigned } })
       [] OTHER -> elsewhere

PlanSeriesDay(claim, rows, soft) ==
  LET i == claim.interval
      direct == Those(rows, { r \in ToSet(rows) : r.role = "flexible" /\ Overlaps(r, i) })
      nearby == [claim EXCEPT !.near = i.start]
  IN SeriesDayOver(claim, rows, direct,
       Reseat(direct, i, rows, soft, TRUE), ReseatDirectOnly(direct, i, rows, soft),
       Elsewhere([w \in { v \in claim.windows : Overlaps(i, v) } |->
                    PackMovablesForHole(nearby, rows, soft, w)],
                 FindHole(claim.dur, claim.notBefore, claim.windows,
                          { Span(s) : s \in ToSet(rows) }, soft, i.start)))

\* An asked interval: those in it move, with a chain if one fits, else alone or parked.
IntervalOver(claim, rows, direct, chained, alone) ==
  LET assigned == IF chained # None THEN chained ELSE alone
      movers == IF chained # None THEN DOMAIN chained ELSE Ids(direct)
      seatOf(s) == IF s.id \in DOMAIN assigned THEN assigned[s.id] ELSE None
  IN Seated(claim.interval,
            { MoveFor(s, seatOf(s)) : s \in { x \in ToSet(rows) : x.id \in movers } })

PlanInterval(claim, rows, soft) ==
  LET i == claim.interval
      direct == Those(rows, { r \in ToSet(rows) : Movable(r, FALSE) /\ Overlaps(r, i) })
  IN IntervalOver(claim, rows, direct, Reseat(direct, i, rows, soft, FALSE),
                  ReseatDirectOnly(direct, i, rows, soft))

SeatedIfAny(hole) == IF hole = None THEN Unseated("problematic") ELSE Seated(hole, {})

PlanPlacement(claim, all) ==
  LET rows == Those(all, { r \in ToSet(all) : r.task # claim.task })
      seats == ToSet(rows)
      soft == SoftBusy(rows)
      i == claim.interval
      Hits(roles) == \E s \in seats : s.role \in roles /\ Overlaps(s, i)
  IN CASE claim.expired -> Unseated(IF claim.recurring THEN "problematic" ELSE "unscheduled")
       [] ~claim.expired /\ i = None -> PlanHole(claim, rows, soft)
       [] ~claim.expired /\ i # None ->
            CASE Hits({"anchor", "elapsed"}) -> Unseated("conflict")
              [] ~Hits({"anchor", "elapsed"}) /\ claim.mustFit
                 /\ ~FitsWindow(i, claim.windows) -> Unseated("problematic")
              [] OTHER ->
                   IF claim.mustFit /\ ~claim.overResolved /\ Hits({"resolved"})
                   THEN SeatedIfAny(FindHole(claim.dur, claim.notBefore, claim.windows,
                                             { Span(s) : s \in seats }, soft, None))
                   ELSE IF claim.recurring /\ claim.mustFit
                        THEN PlanSeriesDay(claim, rows, soft)
                        ELSE PlanInterval(claim, rows, soft)
=============================================================================
