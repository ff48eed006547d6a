-------------------------- MODULE SeriesDaysProofs --------------------------
(***************************************************************************)
(* Proofs about SeriesDays, for every number of days, series, copies and   *)
(* requests, every length of week and of horizon.                          *)
(***************************************************************************)
EXTENDS SeriesDays, SequenceTheorems, FiniteSetTheorems, WellFoundedInduction, TLAPS

-----------------------------------------------------------------------------
(* Days, slots and clocks.                                                 *)

LEMMA SlotParts ==
  /\ \A r \in Slots : r[1] \in Days /\ r[2] \in Clocks /\ r = <<r[1], r[2]>>
  /\ \A d \in Days, k \in Clocks : <<d, k>> \in Slots /\ <<d, k>>[1] = d /\ <<d, k>>[2] = k
  /\ NoSlot \notin Slots /\ NoSlot[1] = 0
BY SeriesAssumption DEF Slots, Days, Clocks, NoSlot

\* A set of natural numbers has a least one.
LEMMA LeastNat ==
  ASSUME NEW S \in SUBSET Nat, S # {}
  PROVE  \E n \in S : \A m \in S : n <= m
<1>1. S \subseteq Nat
  OBVIOUS
<1>2. PICK n \in S : \A m \in S : <<m, n>> \notin OpToRel(<, Nat)
  BY <1>1, WFMin, NatLessThanWellFounded, Zenon
<1>3. n \in Nat /\ \A m \in S : m \in Nat
  BY <1>1, <1>2
<1>4. \A m \in S : ~(m < n)
  BY <1>2, <1>3 DEF OpToRel
<1>5. \A m \in S : n <= m
  BY <1>3, <1>4
<1> QED
  BY <1>2, <1>5

LEMMA LeastDay ==
  ASSUME NEW D \in SUBSET Days, D # {}
  PROVE  Least(D) \in D /\ \A d \in D : Least(D) <= d
<1>1. D \in SUBSET Nat
  BY DEF Days
<1> QED
  BY <1>1, LeastNat DEF Least

\* The first of some rows is one of them, on the first of their days.
LEMMA FirstRow ==
  ASSUME NEW R \in SUBSET Slots, R # {}
  PROVE  First(R) \in R /\ \A q \in R : First(R)[1] <= q[1]
<1> DEFINE T == {2 * r[1] + r[2] : r \in R}
<1>1. T \in SUBSET Nat /\ T # {}
  BY SlotParts, SeriesAssumption DEF Days, Clocks
<1>2. \E n \in T : \A m \in T : n <= m
  <2> HIDE DEF T
  <2> QED
    BY <1>1, LeastNat
<1>3. \E r \in R : \A q \in R : Earlier(r, q)
  BY <1>2 DEF Earlier
<1>4. First(R) \in R /\ \A q \in R : Earlier(First(R), q)
  BY <1>3 DEF First
<1>5. \A q \in R : q[1] \in Int /\ q[2] \in Clocks
  BY SlotParts DEF Days
<1> QED
  BY <1>4, <1>5 DEF Earlier, Clocks

-----------------------------------------------------------------------------
(* Series and copies.                                                      *)

\* The copies a group may have while a request is under way.
CopyShape == [day: Days, parent: Nat, slot: Slots \cup {NoSlot}, own: BOOLEAN]

Typed(srs, cps) ==
  /\ srs \in Seq(SeriesRec) /\ Len(srs) >= 1
  /\ cps \subseteq CopyShape
  /\ \A c \in cps : c.parent \in Ids(srs)

\* One member of the group is rewritten.
Rewritten(srs, srs2, s) ==
  /\ srs2 \in Seq(SeriesRec) /\ Len(srs2) = Len(srs)
  /\ \A t \in Ids(srs) \ {s} : srs2[t] = srs[t]

LEMMA Rewriting ==
  ASSUME NEW srs \in Seq(SeriesRec), NEW s \in Ids(srs), NEW me \in SeriesRec
  PROVE  /\ Rewritten(srs, [srs EXCEPT ![s] = me], s)
         /\ [srs EXCEPT ![s] = me][s] = me
BY ExceptSeq DEF Rewritten, Ids

\* The rows and the skipped days are rows and days.
LEMMA Parts ==
  ASSUME NEW srs \in Seq(SeriesRec), NEW s \in Ids(srs)
  PROVE  /\ srs[s] \in SeriesRec
         /\ srs[s].rows \subseteq Slots /\ srs[s].skipped \subseteq Days
         /\ srs[s].parked \/ srs[s].clock \in Clocks
         /\ srs[s].until \in 1 .. NoEnd
         /\ OpenRows(srs[s].rows) \subseteq srs[s].rows
<1>1. srs[s] \in SeriesRec
  BY ElementOfSeq DEF Ids
<1> QED
  BY <1>1 DEF SeriesRec, OpenRows

\* The master shows its first open row: nothing else of it changes.
LEMMA Refreshing ==
  ASSUME NEW me \in SeriesRec
  PROVE  /\ Refreshed(me) \in SeriesRec
         /\ Refreshed(me).rows = me.rows /\ Refreshed(me).skipped = me.skipped
         /\ Refreshed(me).until = me.until
<1>1. CASE OpenRows(me.rows) = {}
  BY <1>1 DEF Refreshed
<1>2. CASE OpenRows(me.rows) # {}
  <2> DEFINE r == First(OpenRows(me.rows))
  <2>1. OpenRows(me.rows) \in SUBSET Slots
    BY DEF SeriesRec, OpenRows
  <2>2. r[1] \in Days /\ r[2] \in Clocks
    BY <1>2, <2>1, FirstRow, SlotParts
  <2> HIDE DEF r
  <2>3. Refreshed(me) = [me EXCEPT !.anchor = r[1], !.clock = r[2]]
    BY <1>2 DEF Refreshed, r
  <2> QED
    BY <2>2, <2>3 DEF SeriesRec
<1> QED
  BY <1>1, <1>2

-----------------------------------------------------------------------------
(* What holds of one day, and how a step may change it.                    *)

\* A copy stands for the day, or rows do.
Copied(cps, d) == \E c \in cps : c.day = d
Rowed(srs, d)  == \E s \in Ids(srs) : \E r \in srs[s].rows : r[1] = d

\* At most one row of the whole group stands for the day, and no copy.
RowDay(srs, cps, d) ==
  /\ ~Copied(cps, d)
  /\ \A s, t \in Ids(srs) : \A q \in srs[s].rows, r \in srs[t].rows :
       q[1] = d /\ r[1] = d => s = t /\ q = r

\* At most one copy does, tied to a series that skips the day, and no row.
CopyDay(srs, cps, d) ==
  /\ ~Rowed(srs, d)
  /\ \A b, c \in cps : b.day = d /\ c.day = d => b = c
  /\ \A c \in cps : c.day = d => d \in srs[c.parent].skipped

\* A day the user dismissed stays skipped by some series, so that no member
\* plans it again.
Dismissed(srs, cps, d) ==
  /\ ~Copied(cps, d) /\ ~Rowed(srs, d)
  /\ \E s \in Ids(srs) : d \in srs[s].skipped

DayOK(srs, cps, dis, d) ==
  /\ RowDay(srs, cps, d) \/ CopyDay(srs, cps, d)
  /\ d \in dis => Dismissed(srs, cps, d)

\* The day gains no row and no copy, and no series stops skipping it.
Shrinks(srs, cps, srs2, cps2, d) ==
  /\ \A t \in Ids(srs2) : \A r \in srs2[t].rows : r[1] = d => t \in Ids(srs) /\ r \in srs[t].rows
  /\ \A t \in Ids(srs) : t \in Ids(srs2) /\ (d \in srs[t].skipped => d \in srs2[t].skipped)
  /\ \A c \in cps2 : c.day = d => c \in cps

\* A day that gains nothing stays as it should be.
LEMMA ShrinksKeeps ==
  ASSUME NEW srs, NEW cps, NEW srs2, NEW cps2, NEW dis, NEW d,
         Typed(srs, cps), DayOK(srs, cps, dis, d), Shrinks(srs, cps, srs2, cps2, d)
  PROVE  DayOK(srs2, cps2, dis, d)
<1>1. \A c \in cps : c.parent \in Ids(srs)
  BY DEF Typed
<1>2. ~Copied(cps, d) => ~Copied(cps2, d)
  BY DEF Shrinks, Copied
<1>3. ~Rowed(srs, d) => ~Rowed(srs2, d)
  BY DEF Shrinks, Rowed
<1>4. RowDay(srs, cps, d) => RowDay(srs2, cps2, d)
  BY <1>2 DEF Shrinks, RowDay
<1>5. CopyDay(srs, cps, d) => CopyDay(srs2, cps2, d)
  BY <1>1, <1>3 DEF Shrinks, CopyDay
<1>6. Dismissed(srs, cps, d) => Dismissed(srs2, cps2, d)
  BY <1>2, <1>3 DEF Shrinks, Dismissed
<1> QED
  BY <1>4, <1>5, <1>6 DEF DayOK

\* The rows of a series that are over stay, and the copies all stay.
KeepsPast(srs, cps, srs2, cps2) ==
  /\ \A t \in Ids(srs) : t \in Ids(srs2) /\ \A r \in srs[t].rows : Over(r) => r \in srs2[t].rows
  /\ cps \subseteq cps2

-----------------------------------------------------------------------------
(* Seating the days of a series.                                           *)

\* What the engine answers: each planned day at one of the clocks, or nowhere.
LEMMA AnswerShape ==
  ASSUME NEW P, NEW wanted, NEW f \in Answers(P, wanted)
  PROVE  DOMAIN f = P /\ \A d \in P : f[d] \in {wanted, 1 - wanted, Nowhere}
<1>1. PICK Q : \E g \in [Q -> {1 - wanted, Nowhere}] :
                 f = [d \in P |-> IF d \in DOMAIN g THEN g[d] ELSE wanted]
  BY DEF Answers
<1>2. PICK g \in [Q -> {1 - wanted, Nowhere}] :
        f = [d \in P |-> IF d \in DOMAIN g THEN g[d] ELSE wanted]
  BY <1>1
<1> QED
  BY <1>2

\* The planned days are days, and the series does not skip them.
LEMMA Planned ==
  ASSUME NEW me, NEW k
  PROVE  /\ DaysOf(me, k) \subseteq Days
         /\ \A d \in DaysOf(me, k) : d \notin me.skipped
BY DEF DaysOf, InHorizon, Names

LEMMA DaysAreFinite == ASSUME NEW P \in SUBSET Days PROVE IsFiniteSet(P) /\ Cardinality(P) \in Nat
<1>1. IsFiniteSet(Days)
  BY FS_Interval, SeriesAssumption DEF Days
<1> QED
  BY <1>1, FS_Subset, FS_CardinalityType

\* The clock most days sit on is the clock of a day.
LEMMA SomeDayAtMain ==
  ASSUME NEW P \in SUBSET Days, NEW wanted \in Clocks, NEW f \in Answers(P, wanted),
         NEW e \in P, f[e] # Nowhere
  PROVE  /\ MainClock(f, P, wanted) \in Clocks
         /\ \E d \in P : f[d] = MainClock(f, P, wanted)
<1> DEFINE At(k) == {d \in P : f[d] = k}
<1>1. At(wanted) \in SUBSET Days /\ At(1 - wanted) \in SUBSET Days
  OBVIOUS
<1>2. 1 - wanted \in Clocks
  BY DEF Clocks
<1>3. e \in At(wanted) \/ e \in At(1 - wanted)
  BY AnswerShape
<1>4. MainClock(f, P, wanted) = IF Cardinality(At(wanted)) >= Cardinality(At(1 - wanted))
                                THEN wanted ELSE 1 - wanted
  BY DEF MainClock
<1> HIDE DEF At
<1>5. /\ Cardinality(At(wanted)) \in Nat /\ (Cardinality(At(wanted)) = 0 <=> At(wanted) = {})
      /\ Cardinality(At(1 - wanted)) \in Nat /\ (Cardinality(At(1 - wanted)) = 0 <=> At(1 - wanted) = {})
  BY <1>1, DaysAreFinite, FS_EmptySet
<1>6. At(MainClock(f, P, wanted)) # {}
  BY <1>3, <1>4, <1>5
<1> QED
  BY <1>2, <1>4, <1>6 DEF At

\* A planned day that is not retaken is free: the user did not dismiss it, no
\* copy and no other series holds it, and a row of the series is to come.
LEMMA FreeDay ==
  ASSUME NEW srs, NEW cps, NEW dis, NEW s \in Ids(srs), NEW P, NEW d \in P,
         Typed(srs, cps), DayOK(srs, cps, dis, d),
         d \notin srs[s].skipped, d \notin Retakes(srs, cps, s, P)
  PROVE  /\ d \notin dis /\ ~Copied(cps, d)
         /\ \A t \in Ids(srs) \ {s} : \A r \in srs[t].rows : r[1] # d
         /\ \A r \in srs[s].rows : r[1] = d => r \in OpenRows(srs[s].rows)
<1>1. /\ \A r \in srs[s].rows : r[1] = d => r \in OpenRows(srs[s].rows)
      /\ \A t \in Ids(srs) \ {s} : \A r \in srs[t].rows : r[1] # d
      /\ \A t \in Ids(srs) \ {s} : d \notin srs[t].skipped
  BY DEF Retakes, HeldByOther, RowsOn
<1>2. \A t \in Ids(srs) : d \notin srs[t].skipped
  BY <1>1
<1>3. d \notin dis
  BY <1>2 DEF DayOK, Dismissed
<1>4. ~Copied(cps, d)
  <2>1. \A c \in cps : c.parent \in Ids(srs)
    BY DEF Typed
  <2> QED
    BY <1>2, <2>1 DEF DayOK, RowDay, CopyDay, Copied
<1> QED
  BY <1>1, <1>3, <1>4

\* What stands for a day after one series was planned on the days of P.
Resettled(srs, cps, s, P) ==
  \A dis : \A d \in Days \ Retakes(srs, cps, s, P) :
    DayOK(srs, cps, dis, d) => DayOK(series', copies', dis, d)

\* One-off copies at one clock.
CopiesAt(s, D, k) == {CopyAt(s, d, k) : d \in D}

\* The copies made for some days: one for each of them.
LEMMA NewCopies ==
  ASSUME NEW s \in Nat, NEW D \in SUBSET Days, NEW k \in Clocks
  PROVE  /\ \A c \in Parked(s, D) : c \in CopyShape /\ c.parent = s /\ c.day \in D
         /\ \A b, c \in Parked(s, D) : b.day = c.day => b = c
         /\ \A c \in CopiesAt(s, D, k) : c \in CopyShape /\ c.parent = s /\ c.day \in D
         /\ \A b, c \in CopiesAt(s, D, k) : b.day = c.day => b = c
<1>1. \A d \in D : [day |-> d, parent |-> s, slot |-> NoSlot, own |-> FALSE] \in CopyShape
  BY DEF CopyShape
<1>2. ASSUME NEW d \in D PROVE CopyAt(s, d, k) \in CopyShape
  <2>1. <<d, k>> \in Slots
    BY SlotParts
  <2> QED
    BY <2>1 DEF CopyAt, CopyShape
<1>3. \A c \in Parked(s, D) : c \in CopyShape /\ c.parent = s /\ c.day \in D
  BY <1>1 DEF Parked
<1>4. \A c \in CopiesAt(s, D, k) : c \in CopyShape /\ c.parent = s /\ c.day \in D
  BY <1>2 DEF CopiesAt, CopyAt
<1>5. \A c \in Parked(s, D) : c = [day |-> c.day, parent |-> s, slot |-> NoSlot, own |-> FALSE]
  BY DEF Parked
<1>6. \A c \in CopiesAt(s, D, k) : c = CopyAt(s, c.day, k)
  BY DEF CopiesAt, CopyAt
<1>7. \A b, c \in Parked(s, D) : b.day = c.day => b = c
  BY <1>5, Zenon
<1>8. \A b, c \in CopiesAt(s, D, k) : b.day = c.day => b = c
  BY <1>6, Zenon
<1> QED
  BY <1>3, <1>4, <1>7, <1>8

\* All days of a series without open rows are skipped, a parked copy on each.
LEMMA Parking ==
  ASSUME NEW srs, NEW cps, NEW s \in Ids(srs), NEW wanted \in Clocks, NEW P,
         Typed(srs, cps), P = DaysOf(srs[s], wanted), OpenRows(srs[s].rows) = {},
         ParkDays(srs, cps, s, P)
  PROVE  /\ Typed(series', copies') /\ Len(series') = Len(srs)
         /\ KeepsPast(srs, cps, series', copies')
         /\ Resettled(srs, cps, s, P)
<1> DEFINE K  == srs[s].skipped \cup P
           j  == IF P = {} THEN NoClock ELSE srs[s].clock
           me == [srs[s] EXCEPT !.skipped = K, !.parked = srs[s].parked \/ P = {}, !.clock = j]
<1>1. srs \in Seq(SeriesRec) /\ Len(srs) >= 1 /\ cps \subseteq CopyShape /\ \A c \in cps : c.parent \in Ids(srs)
  BY DEF Typed
<1>2. srs[s] \in SeriesRec /\ srs[s].skipped \subseteq Days
  BY <1>1, Parts
<1>3. P \subseteq Days /\ \A d \in P : d \notin srs[s].skipped
  BY Planned
<1>4. me \in SeriesRec /\ me.rows = srs[s].rows /\ me.skipped = K
  <2>1. /\ K \in SUBSET Days /\ (srs[s].parked \/ P = {}) \in BOOLEAN
        /\ j \in Clocks \cup {NoClock} /\ (srs[s].parked \/ P = {} \/ j \in Clocks)
    BY <1>2, <1>3 DEF SeriesRec
  <2> HIDE DEF K, j
  <2> QED
    BY <1>2, <2>1 DEF SeriesRec
<1>5. series' = [srs EXCEPT ![s] = me] /\ copies' = cps \cup Parked(s, P)
  BY DEF ParkDays
<1> HIDE DEF me, K, j
<1>6. Rewritten(srs, series', s) /\ series'[s] = me
  BY <1>1, <1>4, <1>5, Rewriting
<1>7. /\ series' \in Seq(SeriesRec) /\ Len(series') = Len(srs) /\ Ids(series') = Ids(srs)
      /\ \A t \in Ids(srs) \ {s} : series'[t] = srs[t]
  BY <1>6 DEF Rewritten, Ids
<1>8. /\ \A c \in Parked(s, P) : c \in CopyShape /\ c.parent = s /\ c.day \in P
      /\ \A b, c \in Parked(s, P) : b.day = c.day => b = c
  <2>1. s \in Nat /\ P \in SUBSET Days
    BY <1>1, <1>3, LenProperties DEF Ids
  <2> QED
    BY <2>1, NewCopies
<1>9. Typed(series', copies')
  BY <1>1, <1>5, <1>7, <1>8 DEF Typed
<1>10. KeepsPast(srs, cps, series', copies')
  BY <1>4, <1>5, <1>6, <1>7 DEF KeepsPast
<1>11. ASSUME NEW dis, NEW d \in Days \ Retakes(srs, cps, s, P), DayOK(srs, cps, dis, d)
       PROVE  DayOK(series', copies', dis, d)
  <2>1. CASE d \notin P
    <3>1. \A t \in Ids(series') : \A r \in series'[t].rows : t \in Ids(srs) /\ r \in srs[t].rows
      BY <1>4, <1>6, <1>7
    <3>2. \A t \in Ids(srs) : t \in Ids(series') /\ (d \in srs[t].skipped => d \in series'[t].skipped)
      BY <1>4, <1>6, <1>7 DEF K
    <3>3. \A c \in copies' : c.day = d => c \in cps
      BY <1>5, <1>8, <2>1
    <3>4. Shrinks(srs, cps, series', copies', d)
      BY <3>1, <3>2, <3>3 DEF Shrinks
    <3> QED
      BY <1>11, <3>4, ShrinksKeeps
  <2>2. CASE d \in P
    <3>1. /\ d \notin dis /\ ~Copied(cps, d)
          /\ \A t \in Ids(srs) : \A r \in srs[t].rows : r[1] # d
      BY <1>3, <1>11, <2>2, FreeDay
    <3>2. ~Rowed(series', d)
      BY <1>4, <1>6, <1>7, <3>1 DEF Rowed
    <3>3. \A c \in copies' : c.day = d => c \in Parked(s, P) /\ d \in series'[c.parent].skipped
      BY <1>4, <1>5, <1>6, <1>8, <2>2, <3>1 DEF Copied, K
    <3>4. CopyDay(series', copies', d)
      BY <1>8, <3>2, <3>3 DEF CopyDay
    <3> QED
      BY <3>1, <3>4 DEF DayOK
  <2> QED
    BY <2>1, <2>2
<1> QED
  BY <1>7, <1>9, <1>10, <1>11 DEF Resettled

\* The series keeps the days of the main clock; the days of the other clock go
\* to a sibling, or to copies when there is one of them; the rest is parked.
LEMMA Reseating ==
  ASSUME NEW srs, NEW cps, NEW s \in Ids(srs), NEW wanted \in Clocks, NEW P,
         Typed(srs, cps), P = DaysOf(srs[s], wanted),
         NEW f \in Answers(P, wanted), NEW e \in P, f[e] # Nowhere,
         Reseat(srs, cps, s, P, f, wanted)
  PROVE  /\ Typed(series', copies')
         /\ KeepsPast(srs, cps, series', copies')
         /\ Resettled(srs, cps, s, P)
<1> DEFINE k       == MainClock(f, P, wanted)
           mine    == {d \in P : f[d] = k}
           others  == {d \in P : f[d] = 1 - k}
           failed  == {d \in P : f[d] = Nowhere}
           R       == (srs[s].rows \ OpenRows(srs[s].rows)) \cup (mine \X {k})
           K       == srs[s].skipped \cup others \cup failed
           me      == [srs[s] EXCEPT !.rows = R, !.skipped = K, !.anchor = Least(mine),
                                     !.clock = k, !.parked = FALSE]
           sibling == [rule |-> {d % Week : d \in others}, from |-> 0, anchor |-> Least(others),
                       clock |-> 1 - k, until |-> me.until, skipped |-> {},
                       rows |-> others \X {1 - k}, parked |-> FALSE]
           repeats == Cardinality(others) >= 2
           alone   == [srs EXCEPT ![s] = me]
           moved   == {CopyAt(s, d, 1 - k) : d \in IF repeats THEN {} ELSE others}
<1>1. srs \in Seq(SeriesRec) /\ Len(srs) >= 1 /\ cps \subseteq CopyShape /\ \A c \in cps : c.parent \in Ids(srs)
  BY DEF Typed
<1>2. srs[s] \in SeriesRec /\ srs[s].skipped \subseteq Days /\ srs[s].rows \subseteq Slots
  BY <1>1, Parts
<1>3. P \in SUBSET Days /\ \A d \in P : d \notin srs[s].skipped
  BY Planned
<1>4. k \in Clocks /\ 1 - k \in Clocks /\ mine # {}
  BY <1>3, SomeDayAtMain DEF Clocks
<1>5. \A d \in P : d \in mine \/ d \in others \/ d \in failed
  BY <1>4, AnswerShape DEF Clocks
<1>6. /\ mine \in SUBSET Days /\ others \in SUBSET Days /\ failed \in SUBSET Days
      /\ mine \subseteq P /\ others \subseteq P /\ failed \subseteq P
      /\ mine \cap others = {} /\ mine \cap failed = {} /\ others \cap failed = {}
  BY <1>3, <1>4 DEF Clocks, Nowhere
<1>7. series' = (IF repeats THEN Append(alone, sibling) ELSE alone)
      /\ copies' = cps \cup Parked(s, failed) \cup moved
  BY DEF Reseat
<1> HIDE DEF k, mine, others, failed
<1>8. R \in SUBSET Slots /\ K \in SUBSET Days
  BY <1>2, <1>4, <1>6 DEF Slots
<1>9. me \in SeriesRec /\ me.rows = R /\ me.skipped = K /\ me.until \in 1 .. NoEnd
  <2>1. Least(mine) \in Days
    BY <1>4, <1>6, LeastDay
  <2>2. me \in SeriesRec
    <3> DEFINE a == Least(mine)
    <3> HIDE DEF R, K, a
    <3>1. [srs[s] EXCEPT !.rows = R, !.skipped = K, !.anchor = a, !.clock = k, !.parked = FALSE] \in SeriesRec
      BY <1>2, <1>4, <1>8, <2>1 DEF SeriesRec, a
    <3> QED
      BY <3>1 DEF a
  <2> QED
    BY <1>2, <2>2 DEF SeriesRec
<1>10. repeats => sibling \in SeriesRec /\ sibling.rows = others \X {1 - k} /\ sibling.skipped = {}
  <2> SUFFICES ASSUME repeats
               PROVE  sibling \in SeriesRec /\ sibling.rows = others \X {1 - k} /\ sibling.skipped = {}
    OBVIOUS
  <2>1. others # {}
    BY FS_EmptySet
  <2>2. Least(others) \in Days
    BY <1>6, <2>1, LeastDay
  <2>3. {d % Week : d \in others} \in SUBSET (0 .. Week - 1)
    BY <1>6, SeriesAssumption DEF Days
  <2>4. others \X {1 - k} \in SUBSET Slots
    BY <1>4, <1>6 DEF Slots
  <2>5. 0 \in 0 .. LastDay /\ {} \in SUBSET Days
    BY SeriesAssumption
  <2> HIDE DEF me, repeats
  <2> QED
    BY <1>4, <1>9, <2>2, <2>3, <2>4, <2>5 DEF SeriesRec
<1> HIDE DEF me, R, sibling, repeats, K
<1>11. alone \in Seq(SeriesRec) /\ Len(alone) = Len(srs) /\ alone[s] = me /\ \A t \in Ids(srs) \ {s} : alone[t] = srs[t]
  BY <1>1, <1>9, Rewriting DEF Rewritten
<1> HIDE DEF alone
<1>12. s \in Nat /\ Len(srs) \in Nat
  BY <1>1, LenProperties DEF Ids
<1>13. /\ series' \in Seq(SeriesRec) /\ Len(series') >= Len(srs)
       /\ \A t \in Ids(srs) : t \in Ids(series')
       /\ series'[s] = me /\ \A t \in Ids(srs) \ {s} : series'[t] = srs[t]
       /\ \A t \in Ids(series') \ Ids(srs) : repeats /\ t = Len(srs) + 1 /\ series'[t] = sibling
  <2>1. CASE repeats
    <3>1. series' = Append(alone, sibling)
      BY <1>7, <2>1
    <3>2. /\ series' \in Seq(SeriesRec) /\ Len(series') = Len(srs) + 1
          /\ series'[Len(srs) + 1] = sibling
          /\ \A t \in Ids(srs) : series'[t] = alone[t]
      BY <1>10, <1>11, <2>1, <3>1, AppendProperties DEF Ids
    <3> QED
      BY <1>11, <1>12, <2>1, <3>2 DEF Ids
  <2>2. CASE ~repeats
    BY <1>7, <1>11, <1>12, <2>2 DEF Ids
  <2> QED
    BY <2>1, <2>2
<1>14. /\ \A c \in Parked(s, failed) : c \in CopyShape /\ c.parent = s /\ c.day \in failed
       /\ \A b, c \in Parked(s, failed) : b.day = c.day => b = c
       /\ \A c \in moved : c \in CopyShape /\ c.parent = s /\ c.day \in others /\ ~repeats
       /\ \A b, c \in moved : b.day = c.day => b = c
  <2> DEFINE D == IF repeats THEN {} ELSE others
  <2>1. D \in SUBSET Days /\ D \subseteq others /\ (repeats => D = {})
    BY <1>6
  <2> HIDE DEF D
  <2>2. /\ \A c \in CopiesAt(s, D, 1 - k) : c \in CopyShape /\ c.parent = s /\ c.day \in D
        /\ \A b, c \in CopiesAt(s, D, 1 - k) : b.day = c.day => b = c
    BY <1>4, <1>12, <2>1, NewCopies
  <2>3. moved = CopiesAt(s, D, 1 - k)
    BY DEF D, CopiesAt
  <2> HIDE DEF moved
  <2> QED
    BY <1>4, <1>6, <1>12, <2>1, <2>2, <2>3, NewCopies
<1> HIDE DEF moved
<1>15. Typed(series', copies')
  <2>1. \A c \in copies' : c \in cps \/ c \in Parked(s, failed) \/ c \in moved
    BY <1>7
  <2>2. \A c \in copies' : c \in CopyShape /\ c.parent \in Ids(srs)
    BY <1>1, <1>14, <2>1
  <2>3. copies' \subseteq CopyShape /\ \A c \in copies' : c.parent \in Ids(series')
    BY <1>13, <2>2
  <2>4. series' \in Seq(SeriesRec) /\ Len(series') >= 1
    BY <1>1, <1>12, <1>13, LenProperties
  <2> QED
    BY <2>3, <2>4 DEF Typed
<1>16. KeepsPast(srs, cps, series', copies')
  BY <1>7, <1>9, <1>13 DEF KeepsPast, R, OpenRows
<1>17. ASSUME NEW dis, NEW d \in Days \ Retakes(srs, cps, s, P), DayOK(srs, cps, dis, d)
       PROVE  DayOK(series', copies', dis, d)
  <2>0. /\ \A r \in me.rows : r[1] = d => r \in srs[s].rows \ OpenRows(srs[s].rows) \/ (d \in mine /\ r = <<d, k>>)
        /\ repeats => \A r \in sibling.rows : r[1] = d => d \in others /\ r = <<d, 1 - k>>
    BY <1>9, <1>10 DEF R
  <2>1. CASE d \notin P
    <3>1. Shrinks(srs, cps, series', copies', d)
      <4>1. \A t \in Ids(series') : \A r \in series'[t].rows : r[1] = d => t \in Ids(srs) /\ r \in srs[t].rows
        BY <1>6, <1>13, <2>0, <2>1
      <4>2. \A t \in Ids(srs) : t \in Ids(series') /\ (d \in srs[t].skipped => d \in series'[t].skipped)
        BY <1>9, <1>13 DEF K
      <4>3. \A c \in copies' : c.day = d => c \in cps
        BY <1>6, <1>7, <1>14, <2>1
      <4> QED
        BY <4>1, <4>2, <4>3 DEF Shrinks
    <3> QED
      BY <1>17, <3>1, ShrinksKeeps
  <2>2. CASE d \in P
    <3>1. /\ d \notin dis /\ ~Copied(cps, d)
          /\ \A t \in Ids(srs) \ {s} : \A r \in srs[t].rows : r[1] # d
          /\ \A r \in srs[s].rows : r[1] = d => r \in OpenRows(srs[s].rows)
      BY <1>3, <1>17, <2>2, FreeDay
    <3>2. /\ \A r \in series'[s].rows : r[1] = d => d \in mine /\ r = <<d, k>>
          /\ \A t \in Ids(series') \ {s} : \A r \in series'[t].rows :
               r[1] = d => d \in others /\ repeats /\ t = Len(srs) + 1 /\ r = <<d, 1 - k>>
      BY <1>13, <2>0, <3>1
    <3>3. /\ \A c \in copies' : c.day = d => c \in Parked(s, failed) \cup moved /\ c.parent = s
          /\ \A c \in copies' : c.day = d => d \in failed \/ (d \in others /\ ~repeats)
      BY <1>7, <1>14, <3>1 DEF Copied
    <3>4. CASE d \in mine
      <4>1. ~Copied(copies', d)
        BY <1>6, <3>3, <3>4 DEF Copied
      <4>2. \A t \in Ids(series') : \A r \in series'[t].rows : r[1] = d => t = s /\ r = <<d, k>>
        BY <1>6, <3>2, <3>4
      <4>3. RowDay(series', copies', d)
        BY <4>1, <4>2 DEF RowDay
      <4> QED
        BY <3>1, <4>3 DEF DayOK
    <3>5. CASE d \in others /\ repeats
      <4>1. ~Copied(copies', d)
        BY <1>6, <3>3, <3>5 DEF Copied
      <4>2. \A t \in Ids(series') : \A r \in series'[t].rows : r[1] = d => t = Len(srs) + 1 /\ r = <<d, 1 - k>>
        BY <1>6, <3>2, <3>5
      <4>3. RowDay(series', copies', d)
        BY <4>1, <4>2 DEF RowDay
      <4> QED
        BY <3>1, <4>3 DEF DayOK
    <3>6. CASE d \in failed \/ (d \in others /\ ~repeats)
      <4>1. ~Rowed(series', d)
        BY <1>6, <3>2, <3>6 DEF Rowed
      <4>2. d \in series'[s].skipped
        BY <1>9, <1>13, <3>6 DEF K
      <4>3. \A b, c \in copies' : b.day = d /\ c.day = d => b = c
        BY <1>6, <1>14, <3>3
      <4>4. CopyDay(series', copies', d)
        BY <3>3, <4>1, <4>2, <4>3 DEF CopyDay
      <4> QED
        BY <3>1, <4>4 DEF DayOK
    <3> QED
      BY <1>5, <2>2, <3>4, <3>5, <3>6
  <2> QED
    BY <2>1, <2>2
<1> QED
  BY <1>15, <1>16, <1>17 DEF Resettled

\* The days that count against the requests.
LEMMA MissesAreFew ==
  ASSUME NEW P \in SUBSET Days, NEW wanted, NEW f \in Answers(P, wanted), NEW asked \in Nat,
         requests \in 0 .. MaxRequests, Count(asked + Misses(f, wanted))
  PROVE  requests' \in 0 .. MaxRequests
<1>1. {d \in DOMAIN f : f[d] # wanted} \in SUBSET Days
  BY AnswerShape
<1>2. Misses(f, wanted) \in Nat
  BY <1>1, DaysAreFinite DEF Misses
<1> QED
  BY <1>2, SeriesAssumption DEF Count

\* Seating a series keeps the days of the group as they should be, but for
\* those it plans over another member.
LEMMA Seating ==
  ASSUME NEW srs, NEW cps, NEW s \in Ids(srs), NEW wanted \in Clocks, NEW asked \in Nat,
         Typed(srs, cps), requests \in 0 .. MaxRequests, astray \subseteq Days,
         Seat(srs, cps, s, wanted, asked)
  PROVE  /\ Typed(series', copies') /\ KeepsPast(srs, cps, series', copies')
         /\ requests' \in 0 .. MaxRequests
         /\ astray \subseteq astray' /\ astray' \subseteq Days
         /\ \A dis : \A d \in Days \ astray' :
              DayOK(srs, cps, dis, d) => DayOK(series', copies', dis, d)
<1> DEFINE P == DaysOf(srs[s], wanted)
<1>1. P \in SUBSET Days /\ Retakes(srs, cps, s, P) \subseteq P
  BY Planned DEF Retakes
<1>2. PICK f \in Answers(P, wanted) :
        /\ Count(asked + Misses(f, wanted))
        /\ IF \E d \in P : f[d] # Nowhere THEN Reseat(srs, cps, s, P, f, wanted)
           ELSE IF OpenRows(srs[s].rows) # {} THEN KeepSeats(srs, cps)
           ELSE ParkDays(srs, cps, s, P)
        /\ astray' = IF OpenRows(srs[s].rows) # {} /\ \A d \in P : f[d] = Nowhere THEN astray
                     ELSE astray \cup Retakes(srs, cps, s, P)
  BY DEF Seat
<1>3. requests' \in 0 .. MaxRequests
  BY <1>1, <1>2, MissesAreFew
<1>4. astray \subseteq astray' /\ astray' \subseteq Days
  BY <1>1, <1>2
<1>5. Retakes(srs, cps, s, P) \subseteq astray' \/ KeepSeats(srs, cps)
  BY <1>2
<1>6. CASE \E e \in P : f[e] # Nowhere
  <2>1. PICK e \in P : f[e] # Nowhere
    BY <1>6
  <2>2. Reseat(srs, cps, s, P, f, wanted) /\ Retakes(srs, cps, s, P) \subseteq astray'
    BY <1>2, <1>6
  <2>3. Typed(series', copies') /\ KeepsPast(srs, cps, series', copies') /\ Resettled(srs, cps, s, P)
    <3> HIDE DEF P
    <3> QED
      BY <2>1, <2>2, Reseating DEF P
  <2> QED
    BY <1>3, <1>4, <2>2, <2>3 DEF Resettled
<1>7. CASE KeepSeats(srs, cps)
  <2>1. series' = srs /\ copies' = cps
    BY <1>7 DEF KeepSeats
  <2>2. KeepsPast(srs, cps, series', copies')
    BY <2>1 DEF KeepsPast
  <2> QED
    BY <1>3, <1>4, <2>1, <2>2
<1>8. CASE OpenRows(srs[s].rows) = {} /\ ParkDays(srs, cps, s, P) /\ Retakes(srs, cps, s, P) \subseteq astray'
  <2>1. Typed(series', copies') /\ KeepsPast(srs, cps, series', copies') /\ Resettled(srs, cps, s, P)
    BY <1>8, Parking
  <2> QED
    BY <1>3, <1>4, <1>8, <2>1 DEF Resettled
<1> QED
  BY <1>2, <1>5, <1>6, <1>7, <1>8

\* The horizon appends days the group does not have.
LEMMA Appending ==
  ASSUME NEW s \in Ids(series), NEW P, P \subseteq Missing(s), series[s].clock \in Clocks,
         Typed(series, copies), requests \in 0 .. MaxRequests, astray \subseteq Days,
         AppendDays(s, P)
  PROVE  /\ Typed(series', copies') /\ KeepsPast(series, copies, series', copies')
         /\ Len(series') = Len(series)
         /\ requests' \in 0 .. MaxRequests
         /\ astray \subseteq astray' /\ astray' \subseteq Days
         /\ \A dis : \A d \in Days \ astray' :
              DayOK(series, copies, dis, d) => DayOK(series', copies', dis, d)
<1> DEFINE clock == series[s].clock
<1>1. PICK f \in Answers(P, clock) :
        /\ Count(Misses(f, clock))
        /\ series' = [series EXCEPT
                ![s].rows    = @ \cup ((P \ ({d \in P : f[d] = 1 - clock} \cup {d \in P : f[d] = Nowhere})) \X {clock}),
                ![s].skipped = @ \cup {d \in P : f[d] = 1 - clock} \cup {d \in P : f[d] = Nowhere}]
        /\ copies' = copies \cup Parked(s, {d \in P : f[d] = Nowhere})
                            \cup {CopyAt(s, d, 1 - clock) : d \in {d \in P : f[d] = 1 - clock}}
  BY DEF AppendDays
<1> DEFINE moved  == {d \in P : f[d] = 1 - clock}
           failed == {d \in P : f[d] = Nowhere}
           R  == series[s].rows \cup ((P \ (moved \cup failed)) \X {clock})
           K  == series[s].skipped \cup moved \cup failed
           me == [series[s] EXCEPT !.rows = R, !.skipped = K]
<1>2. /\ series \in Seq(SeriesRec) /\ Len(series) >= 1 /\ copies \subseteq CopyShape
      /\ \A c \in copies : c.parent \in Ids(series)
  BY DEF Typed
<1>3. series[s] \in SeriesRec /\ series[s].rows \subseteq Slots /\ series[s].skipped \subseteq Days
  BY <1>2, Parts
<1>4. P \in SUBSET Days /\ \A d \in P : d \notin series[s].skipped /\ \A r \in series[s].rows : r[1] # d
  BY Planned DEF Missing, RowsOn
<1>5. /\ moved \in SUBSET Days /\ failed \in SUBSET Days /\ moved \subseteq P /\ failed \subseteq P
      /\ moved \cap failed = {}
  BY <1>4 DEF Clocks, Nowhere
<1>6. R \in SUBSET Slots /\ K \in SUBSET Days /\ 1 - clock \in Clocks
  BY <1>3, <1>4, <1>5 DEF Slots, Clocks
<1>7. astray' = astray \cup Retakes(series, copies, s, P) /\ Retakes(series, copies, s, P) \subseteq P
  BY DEF AppendDays, Retakes
<1>8. requests' \in 0 .. MaxRequests
  <2>1. Misses(f, clock) \in Nat
    <3>1. {d \in DOMAIN f : f[d] # clock} \in SUBSET Days
      BY <1>4, AnswerShape
    <3> QED
      BY <3>1, DaysAreFinite DEF Misses
  <2> QED
    BY <1>1, <2>1, SeriesAssumption DEF Count
<1>9. series' = [series EXCEPT ![s] = me]
  <2> HIDE DEF moved, failed
  <2>1. series' = [series EXCEPT ![s].rows = @ \cup ((P \ (moved \cup failed)) \X {clock}),
                                 ![s].skipped = @ \cup moved \cup failed]
    BY <1>1 DEF moved, failed
  <2> QED
    BY <1>2, <2>1
<1>10. copies' = copies \cup Parked(s, failed) \cup CopiesAt(s, moved, 1 - clock)
  BY <1>1 DEF CopiesAt
<1> HIDE DEF moved, failed, R, K
<1>11. me \in SeriesRec /\ me.rows = R /\ me.skipped = K
  <2>1. me \in SeriesRec
    BY <1>3, <1>6 DEF SeriesRec
  <2> QED
    BY <1>3, <2>1 DEF SeriesRec
<1> HIDE DEF me
<1>12. Rewritten(series, series', s) /\ series'[s] = me
  BY <1>2, <1>9, <1>11, Rewriting
<1>13. /\ series' \in Seq(SeriesRec) /\ Len(series') = Len(series) /\ Ids(series') = Ids(series)
       /\ \A t \in Ids(series) \ {s} : series'[t] = series[t]
  BY <1>12 DEF Rewritten, Ids
<1>14. /\ \A c \in Parked(s, failed) : c \in CopyShape /\ c.parent = s /\ c.day \in failed
       /\ \A b, c \in Parked(s, failed) : b.day = c.day => b = c
       /\ \A c \in CopiesAt(s, moved, 1 - clock) : c \in CopyShape /\ c.parent = s /\ c.day \in moved
       /\ \A b, c \in CopiesAt(s, moved, 1 - clock) : b.day = c.day => b = c
  <2>1. s \in Nat
    BY <1>2, LenProperties DEF Ids
  <2>2. 1 - clock \in Clocks /\ moved \in SUBSET Days /\ failed \in SUBSET Days
    BY <1>5, <1>6
  <2> HIDE DEF clock
  <2> QED
    BY <2>1, <2>2, NewCopies
<1>15. Typed(series', copies')
  <2>1. \A c \in copies' : c \in copies \/ c \in Parked(s, failed) \/ c \in CopiesAt(s, moved, 1 - clock)
    BY <1>10
  <2>2. \A c \in copies' : c \in CopyShape /\ c.parent \in Ids(series)
    BY <1>2, <1>14, <2>1
  <2> QED
    BY <1>2, <1>13, <2>2 DEF Typed
<1>16. KeepsPast(series, copies, series', copies')
  BY <1>10, <1>11, <1>12, <1>13 DEF KeepsPast, R
<1>17. ASSUME NEW dis, NEW d \in Days \ astray', DayOK(series, copies, dis, d)
       PROVE  DayOK(series', copies', dis, d)
  <2>0. \A r \in series'[s].rows : r[1] = d =>
          r \in series[s].rows \/ (d \in P \ (moved \cup failed) /\ r = <<d, clock>>)
    BY <1>11, <1>12 DEF R
  <2>1. CASE d \notin P
    <3>1. \A t \in Ids(series') : \A r \in series'[t].rows : r[1] = d => t \in Ids(series) /\ r \in series[t].rows
      BY <1>13, <2>0, <2>1
    <3>2. \A t \in Ids(series) : t \in Ids(series') /\ (d \in series[t].skipped => d \in series'[t].skipped)
      BY <1>11, <1>12, <1>13 DEF K
    <3>3. \A c \in copies' : c.day = d => c \in copies
      BY <1>5, <1>10, <1>14, <2>1
    <3>4. Shrinks(series, copies, series', copies', d)
      BY <3>1, <3>2, <3>3 DEF Shrinks
    <3> QED
      BY <1>17, <3>4, ShrinksKeeps
  <2>2. CASE d \in P
    <3>1. d \notin Retakes(series, copies, s, P) /\ d \notin series[s].skipped
      BY <1>4, <1>7, <1>17, <2>2
    <3>2. /\ d \notin dis /\ ~Copied(copies, d)
          /\ \A t \in Ids(series) \ {s} : \A r \in series[t].rows : r[1] # d
      BY <1>17, <2>2, <3>1, FreeDay
    <3>3. /\ \A r \in series'[s].rows : r[1] = d => d \in P \ (moved \cup failed) /\ r = <<d, clock>>
          /\ \A t \in Ids(series') \ {s} : \A r \in series'[t].rows : r[1] # d
      BY <1>4, <1>13, <2>0, <2>2, <3>2
    <3>4. /\ \A c \in copies' : c.day = d => c \in Parked(s, failed) \/ c \in CopiesAt(s, moved, 1 - clock)
          /\ \A c \in copies' : c.day = d => c.parent = s /\ d \in moved \cup failed
      BY <1>10, <1>14, <3>2 DEF Copied
    <3>5. CASE d \notin moved \cup failed
      <4>1. ~Copied(copies', d)
        BY <3>4, <3>5 DEF Copied
      <4>2. RowDay(series', copies', d)
        BY <3>3, <4>1 DEF RowDay
      <4> QED
        BY <3>2, <4>2 DEF DayOK
    <3>6. CASE d \in moved \cup failed
      <4>1. ~Rowed(series', d)
        BY <3>3, <3>6 DEF Rowed
      <4>2. d \in series'[s].skipped
        BY <1>11, <1>12, <3>6 DEF K
      <4>3. \A b, c \in copies' : b.day = d /\ c.day = d => b = c
        BY <1>5, <1>14, <3>4
      <4>4. CopyDay(series', copies', d)
        BY <3>4, <4>1, <4>2, <4>3 DEF CopyDay
      <4> QED
        BY <3>2, <4>4 DEF DayOK
    <3> QED
      BY <3>5, <3>6
  <2> QED
    BY <2>1, <2>2
<1>18. astray \subseteq astray' /\ astray' \subseteq Days
  BY <1>4, <1>7
<1> QED
  BY <1>8, <1>13, <1>15, <1>16, <1>17, <1>18

-----------------------------------------------------------------------------
(* One day of one series.                                                  *)

\* A day a row stands for: that row only, and no copy.
LEMMA HeldDay ==
  ASSUME NEW srs, NEW cps, NEW dis, NEW d, DayOK(srs, cps, dis, d),
         NEW s \in Ids(srs), NEW r \in srs[s].rows, r[1] = d
  PROVE  /\ d \notin dis /\ ~Copied(cps, d)
         /\ \A t \in Ids(srs) : \A q \in srs[t].rows : q[1] = d => t = s /\ q = r
<1>1. Rowed(srs, d)
  BY DEF Rowed
<1>2. RowDay(srs, cps, d) /\ d \notin dis
  BY <1>1 DEF DayOK, CopyDay, Dismissed
<1> QED
  BY <1>2 DEF RowDay

\* A day a copy stands for: that copy only, no row, and its series skips it.
Stands(srs, cps, c, dis, d) ==
  /\ d \notin dis /\ ~Rowed(srs, d) /\ d \in srs[c.parent].skipped
  /\ \A b \in cps : b.day = d => b = c

LEMMA CopiedDay ==
  ASSUME NEW srs, NEW cps, NEW dis, NEW c \in cps, DayOK(srs, cps, dis, c.day)
  PROVE  Stands(srs, cps, c, dis, c.day)
<1>1. Copied(cps, c.day)
  BY DEF Copied
<1>2. CopyDay(srs, cps, c.day) /\ c.day \notin dis
  BY <1>1 DEF DayOK, RowDay, Dismissed
<1> QED
  BY <1>2 DEF CopyDay, Stands

\* A series loses rows and skips no fewer days.
Trims(srs, srs2, s) ==
  /\ Rewritten(srs, srs2, s)
  /\ srs2[s].rows \subseteq srs[s].rows /\ srs[s].skipped \subseteq srs2[s].skipped

\* Its rows that are over stay.
TrimsOpen(srs, srs2, s) ==
  Trims(srs, srs2, s) /\ \A r \in srs[s].rows : Over(r) => r \in srs2[s].rows

LEMMA Trimmed ==
  ASSUME NEW srs \in Seq(SeriesRec), NEW s \in Ids(srs), NEW me \in SeriesRec,
         me.rows \subseteq srs[s].rows, srs[s].skipped \subseteq me.skipped
  PROVE  /\ Trims(srs, [srs EXCEPT ![s] = me], s) /\ [srs EXCEPT ![s] = me][s] = me
         /\ (\A r \in srs[s].rows : Over(r) => r \in me.rows) => TrimsOpen(srs, [srs EXCEPT ![s] = me], s)
<1>1. Rewritten(srs, [srs EXCEPT ![s] = me], s) /\ [srs EXCEPT ![s] = me][s] = me
  BY Rewriting
<1> QED
  BY <1>1 DEF Trims, TrimsOpen

\* No day gains anything.
LEMMA Trimming ==
  ASSUME NEW srs, NEW cps, NEW s \in Ids(srs), NEW srs2, Typed(srs, cps), Trims(srs, srs2, s)
  PROVE  /\ Typed(srs2, cps) /\ Len(srs2) = Len(srs)
         /\ \A dis, d : DayOK(srs, cps, dis, d) => DayOK(srs2, cps, dis, d)
<1>1. srs \in Seq(SeriesRec) /\ Len(srs) >= 1 /\ cps \subseteq CopyShape /\ \A c \in cps : c.parent \in Ids(srs)
  BY DEF Typed
<1>2. /\ srs2 \in Seq(SeriesRec) /\ Len(srs2) = Len(srs) /\ Ids(srs2) = Ids(srs)
      /\ \A t \in Ids(srs) \ {s} : srs2[t] = srs[t]
  BY DEF Trims, Rewritten, Ids
<1>3. Typed(srs2, cps)
  BY <1>1, <1>2 DEF Typed
<1>4. ASSUME NEW d PROVE Shrinks(srs, cps, srs2, cps, d)
  BY <1>2 DEF Shrinks, Trims
<1>5. \A dis, d : DayOK(srs, cps, dis, d) => DayOK(srs2, cps, dis, d)
  BY <1>4, ShrinksKeeps
<1> QED
  BY <1>2, <1>3, <1>5

LEMMA TrimmedPast ==
  ASSUME NEW srs, NEW cps, NEW s \in Ids(srs), NEW srs2, TrimsOpen(srs, srs2, s)
  PROVE  KeepsPast(srs, cps, srs2, cps)
BY DEF TrimsOpen, Trims, Rewritten, KeepsPast, Ids

\* Copies go: no day gains anything.
LEMMA Dropping ==
  ASSUME NEW srs, NEW cps, NEW cps2 \in SUBSET cps, Typed(srs, cps)
  PROVE  /\ Typed(srs, cps2)
         /\ \A dis, d : DayOK(srs, cps, dis, d) => DayOK(srs, cps2, dis, d)
<1>1. ASSUME NEW d PROVE Shrinks(srs, cps, srs, cps2, d)
  BY DEF Shrinks
<1>2. \A dis, d : DayOK(srs, cps, dis, d) => DayOK(srs, cps2, dis, d)
  BY <1>1, ShrinksKeeps
<1>3. Typed(srs, cps2)
  BY DEF Typed
<1> QED
  BY <1>2, <1>3

\* skipSeriesDay: the day is skipped, its row to come goes.
LEMMA SkippingDay ==
  ASSUME NEW me \in SeriesRec, NEW d \in Days
  PROVE  /\ Skipping(me, d) \in SeriesRec
         /\ Skipping(me, d).rows = me.rows \ RowsOn(OpenRows(me.rows), d)
         /\ Skipping(me, d).skipped = me.skipped \cup {d}
<1> DEFINE K == me.skipped \cup {d}
           R == me.rows \ RowsOn(OpenRows(me.rows), d)
<1>1. K \in SUBSET Days /\ R \in SUBSET Slots
  BY DEF SeriesRec
<1>2. Skipping(me, d) = [me EXCEPT !.skipped = K, !.rows = R]
  BY DEF Skipping
<1> HIDE DEF K, R
<1>3. Skipping(me, d) \in SeriesRec /\ Skipping(me, d).rows = R /\ Skipping(me, d).skipped = K
  <2>1. Skipping(me, d) \in SeriesRec
    BY <1>1, <1>2 DEF SeriesRec
  <2> QED
    BY <1>2, <2>1 DEF SeriesRec
<1> QED
  BY <1>3 DEF K, R

\* The skipped day has lost the row it had, when that row was to come.
LEMMA SkippedDay ==
  ASSUME NEW srs, NEW cps, NEW dis, NEW s \in Ids(srs), NEW d \in Days, NEW srs2, NEW me \in SeriesRec,
         Typed(srs, cps), DayOK(srs, cps, dis, d), RowsOn(OpenRows(srs[s].rows), d) # {},
         srs2 = [srs EXCEPT ![s] = me],
         me.rows = srs[s].rows \ RowsOn(OpenRows(srs[s].rows), d),
         me.skipped = srs[s].skipped \cup {d}
  PROVE  d \notin dis /\ ~Copied(cps, d) /\ ~Rowed(srs2, d) /\ d \in srs2[s].skipped
<1>0. srs \in Seq(SeriesRec)
  BY DEF Typed
<1>1. /\ srs2[s] = me /\ Len(srs2) = Len(srs) /\ \A t \in Ids(srs) \ {s} : srs2[t] = srs[t]
  BY <1>0, Rewriting DEF Rewritten
<1>2. PICK r \in OpenRows(srs[s].rows) : r[1] = d
  BY DEF RowsOn
<1>3. r \in srs[s].rows
  BY DEF OpenRows
<1>4. /\ d \notin dis /\ ~Copied(cps, d)
      /\ \A t \in Ids(srs) : \A q \in srs[t].rows : q[1] = d => t = s /\ q = r
  BY <1>2, <1>3, HeldDay
<1>5. \A q \in me.rows : q[1] # d
  BY <1>2, <1>4 DEF RowsOn
<1>6. ~Rowed(srs2, d)
  BY <1>1, <1>4, <1>5 DEF Rowed, Ids
<1> QED
  BY <1>1, <1>4, <1>6

\* A copy is placed: it stays what the day has, or the series takes the day.
LEMMA Putting ==
  ASSUME NEW srs, NEW c \in CopyShape, NEW slot \in Slots \cup {NoSlot},
         Typed(srs, copies), c.parent \in Ids(srs), astray \subseteq Days,
         PutCopy(srs, c, slot)
  PROVE  /\ Typed(series', copies') /\ Len(series') = Len(srs)
         /\ \A t \in Ids(srs) : \A r \in srs[t].rows : Over(r) => r \in series'[t].rows
         /\ \A b \in copies : b # c => b \in copies'
         /\ astray \subseteq astray' /\ astray' \subseteq Days
         /\ \A dis : \A d \in Days :
              \/ d # c.day /\ DayOK(srs, copies, dis, d)
              \/ d = c.day /\ Stands(srs, copies, c, dis, d)
              => DayOK(series', copies', dis, d)
<1>1. /\ srs \in Seq(SeriesRec) /\ Len(srs) >= 1 /\ copies \subseteq CopyShape
      /\ \A b \in copies : b.parent \in Ids(srs)
  BY DEF Typed
<1>2. c.day \in Days
  BY DEF CopyShape
<1>3. CASE /\ series' = srs
           /\ copies' = (copies \ {c}) \cup {[c EXCEPT !.slot = slot]}
           /\ astray' = astray
  <2> DEFINE e == [c EXCEPT !.slot = slot]
  <2>1. e \in CopyShape /\ e.day = c.day /\ e.parent = c.parent
    BY DEF CopyShape
  <2>2. series' = srs /\ copies' = (copies \ {c}) \cup {e}
    BY <1>3
  <2> HIDE DEF e
  <2>3. Typed(series', copies')
    BY <1>1, <2>1, <2>2 DEF Typed
  <2>4. ASSUME NEW dis, NEW d \in Days, d # c.day, DayOK(srs, copies, dis, d)
        PROVE  DayOK(series', copies', dis, d)
    <3>1. Shrinks(srs, copies, series', copies', d)
      BY <2>1, <2>2, <2>4 DEF Shrinks
    <3> QED
      BY <2>4, <3>1, ShrinksKeeps
  <2>5. ASSUME NEW dis, NEW d \in Days, d = c.day, Stands(srs, copies, c, dis, d)
        PROVE  DayOK(series', copies', dis, d)
    <3>1. \A b \in copies' : b.day = d => b = e
      BY <2>2, <2>5 DEF Stands
    <3>2. ~Rowed(series', d) /\ d \in series'[e.parent].skipped /\ d \notin dis
      BY <2>1, <2>2, <2>5 DEF Stands
    <3>3. CopyDay(series', copies', d)
      BY <3>1, <3>2 DEF CopyDay
    <3> QED
      BY <3>2, <3>3 DEF DayOK
  <2> QED
    BY <1>3, <2>2, <2>3, <2>4, <2>5
<1>4. CASE \E t \in Ids(srs) :
             /\ slot[1] = c.day
             /\ series' = [srs EXCEPT
                  ![t].skipped = @ \ {c.day},
                  ![t].rows    = (@ \ RowsOn(OpenRows(@), c.day)) \cup {slot}]
             /\ copies' = Absorbed(c)
             /\ astray' = astray \cup {d \in {c.day} : d < StartDay(srs[t])}
  <2>1. PICK t \in Ids(srs) :
             /\ slot[1] = c.day
             /\ series' = [srs EXCEPT
                  ![t].skipped = @ \ {c.day},
                  ![t].rows    = (@ \ RowsOn(OpenRows(@), c.day)) \cup {slot}]
             /\ copies' = Absorbed(c)
             /\ astray' = astray \cup {d \in {c.day} : d < StartDay(srs[t])}
    BY <1>4
  <2> DEFINE K  == srs[t].skipped \ {c.day}
             R  == (srs[t].rows \ RowsOn(OpenRows(srs[t].rows), c.day)) \cup {slot}
             me == [srs[t] EXCEPT !.skipped = K, !.rows = R]
  <2>2. slot \in Slots
    BY <1>2, <2>1, SlotParts, SeriesAssumption DEF Days
  <2>3. srs[t] \in SeriesRec /\ K \in SUBSET Days /\ R \in SUBSET Slots
    BY <1>1, <2>2, Parts
  <2>4. series' = [srs EXCEPT ![t] = me]
    BY <1>1, <2>1
  <2>5. me \in SeriesRec /\ me.skipped = K /\ me.rows = R
    <3> HIDE DEF K, R
    <3>1. me \in SeriesRec
      BY <2>3 DEF SeriesRec
    <3> QED
      BY <2>3, <3>1 DEF SeriesRec
  <2> HIDE DEF me, K, R
  <2>6. Rewritten(srs, series', t) /\ series'[t] = me
    BY <1>1, <2>4, <2>5, Rewriting
  <2>7. /\ series' \in Seq(SeriesRec) /\ Len(series') = Len(srs) /\ Ids(series') = Ids(srs)
        /\ \A u \in Ids(srs) \ {t} : series'[u] = srs[u]
    BY <2>6 DEF Rewritten, Ids
  <2>8. copies' = copies \ {c}
    BY <2>1 DEF Absorbed
  <2>9. Typed(series', copies')
    BY <1>1, <2>7, <2>8 DEF Typed
  <2>10. \A r \in srs[t].rows : r[1] # c.day \/ Over(r) => r \in R
    BY DEF R, RowsOn, OpenRows
  <2>11. \A r \in R : r = slot \/ r \in srs[t].rows
    BY DEF R
  <2>12. \A u \in Ids(srs) : \A r \in srs[u].rows : Over(r) => r \in series'[u].rows
    BY <2>5, <2>6, <2>7, <2>10
  <2>13. ASSUME NEW dis, NEW d \in Days, d # c.day, DayOK(srs, copies, dis, d)
         PROVE  DayOK(series', copies', dis, d)
    <3>1. \A u \in Ids(series') : \A r \in series'[u].rows : r[1] = d => u \in Ids(srs) /\ r \in srs[u].rows
      BY <2>1, <2>5, <2>6, <2>7, <2>11, <2>13
    <3>2. \A u \in Ids(srs) : u \in Ids(series') /\ (d \in srs[u].skipped => d \in series'[u].skipped)
      BY <2>5, <2>6, <2>7, <2>13 DEF K
    <3>3. Shrinks(srs, copies, series', copies', d)
      BY <2>8, <3>1, <3>2 DEF Shrinks
    <3> QED
      BY <2>13, <3>3, ShrinksKeeps
  <2>14. ASSUME NEW dis, NEW d \in Days, d = c.day, Stands(srs, copies, c, dis, d)
         PROVE  DayOK(series', copies', dis, d)
    <3>1. ~Copied(copies', d) /\ d \notin dis
      BY <2>8, <2>14 DEF Copied, Stands
    <3>2. \A u \in Ids(srs) : \A r \in srs[u].rows : r[1] # d
      BY <2>14 DEF Stands, Rowed
    <3>3. \A u \in Ids(series') : \A r \in series'[u].rows : r[1] = d => u = t /\ r = slot
      BY <2>5, <2>6, <2>7, <2>11, <3>2
    <3>4. RowDay(series', copies', d)
      BY <3>1, <3>3 DEF RowDay
    <3> QED
      BY <3>1, <3>4 DEF DayOK
  <2>15. astray \subseteq astray' /\ astray' \subseteq Days
    BY <1>2, <2>1
  <2> QED
    BY <2>7, <2>8, <2>9, <2>12, <2>13, <2>14, <2>15
<1> QED
  BY <1>3, <1>4 DEF PutCopy, Owners

-----------------------------------------------------------------------------
(* The inductive invariant.  `DayOK` is stronger than OneOccurrence: a day  *)
(* its copy stands for, or the user dismissed, is                          *)
(* skipped by a series, or the next plan or append would seat it again.    *)

Inv ==
  /\ Typed(series, copies) /\ Len(series) <= MaxSeries
  /\ due \in [1 .. MaxSeries -> Clocks \cup {NoClock}]
  /\ now \in 2 .. MaxTime
  /\ requests \in 0 .. MaxRequests
  /\ dismissed \subseteq Days /\ ended \subseteq Days /\ dropped \subseteq Days /\ astray \subseteq Days
  /\ \A d \in Days \ astray : DayOK(series, copies, dismissed, d)

\* What is over is one of these rows and slots.
LEMMA PastCases ==
  ASSUME Inv, NEW r \in Past
  PROVE  /\ r \in Slots /\ Over(r)
         /\ (\E s \in Ids(series) : r \in series[s].rows) \/ (\E c \in copies : c.slot = r)
<1>1. r # NoSlot /\ Over(r)
  BY DEF Past
<1>2. (\E s \in Ids(series) : r \in series[s].rows) \/ (\E c \in copies : c.slot = r)
  BY DEF Past
<1>3. \A s \in Ids(series) : series[s].rows \subseteq Slots
  BY Parts DEF Inv, Typed
<1>4. \A c \in copies : c.slot \in Slots \cup {NoSlot}
  BY DEF Inv, Typed, CopyShape
<1> QED
  BY <1>1, <1>2, <1>3, <1>4

\* It stays what is over, when it is a row or a slot of a copy after the step.
LEMMA PastKept ==
  ASSUME Inv, now' \in Nat, now' >= now, NEW r \in Past,
         (\E s \in Ids(series') : r \in series'[s].rows) \/ (\E c \in copies' : c.slot = r)
  PROVE  r \in Past'
<1>1. r \in Slots /\ Over(r) /\ r # NoSlot
  BY PastCases, SlotParts
<1>2. r[1] \in Nat /\ r[2] \in Nat /\ now \in Nat
  BY <1>1, SlotParts DEF Days, Clocks, Inv
<1>3. now' > 2 * r[1] + r[2]
  BY <1>1, <1>2 DEF Over
<1>4. r \in UNION ({series'[s].rows : s \in Ids(series')} \cup {{c.slot : c \in copies'}})
  <2>1. CASE \E s \in Ids(series') : r \in series'[s].rows
    BY <2>1
  <2>2. CASE \E c \in copies' : c.slot = r
    <3>1. r \in {c.slot : c \in copies'}
      BY <2>2
    <3> QED
      BY <3>1
  <2> QED
    BY <2>1, <2>2
<1> QED
  BY <1>1, <1>3, <1>4 DEF Past, Over, Ids

\* A past seat goes only with a day that is lost count of, or with a copy.
HistoryKept ==
  \A r \in Past : \/ r \in Past' \/ r[1] \in astray
                  \/ \E c \in copies : c.slot = r /\ c.day \in dismissed' \cup astray

\* A step that keeps the past rows and the copies keeps history.
LEMMA PastRowsKept ==
  ASSUME Inv, now' \in Nat, now' >= now, KeepsPast(series, copies, series', copies')
  PROVE  HistoryKept
<1> SUFFICES ASSUME NEW r \in Past PROVE r \in Past'
  BY DEF HistoryKept
<1>1. Over(r) /\ ((\E s \in Ids(series) : r \in series[s].rows) \/ (\E c \in copies : c.slot = r))
  BY PastCases
<1>2. (\E s \in Ids(series') : r \in series'[s].rows) \/ (\E c \in copies' : c.slot = r)
  BY <1>1 DEF KeepsPast
<1> QED
  BY <1>2, PastKept

LEMMA InitInv == Init => Inv
<1> SUFFICES ASSUME Init PROVE Inv
  OBVIOUS
<1> DEFINE me == [rule |-> 0 .. Week - 1, from |-> 0, anchor |-> 1, clock |-> 0,
                  until |-> NoEnd, skipped |-> {}, rows |-> {}, parked |-> FALSE]
<1>1. me \in SeriesRec /\ me.rows = {}
  BY SeriesAssumption DEF SeriesRec, Days, Clocks, NoEnd
<1>2. series = <<me>> /\ copies = {} /\ dismissed = {} /\ ended = {} /\ dropped = {} /\ astray = {}
  BY DEF Init
<1> HIDE DEF me
<1>3. series \in Seq(SeriesRec) /\ Len(series) = 1 /\ series[1] = me
  BY <1>1, <1>2
<1>4. Typed(series, copies) /\ Len(series) <= MaxSeries
  BY <1>2, <1>3, SeriesAssumption DEF Typed
<1>5. \A s \in Ids(series) : series[s].rows = {}
  BY <1>1, <1>3 DEF Ids
<1>6. \A d : DayOK(series, copies, dismissed, d)
  BY <1>2, <1>5 DEF DayOK, RowDay, Copied
<1>7. due \in [1 .. MaxSeries -> Clocks \cup {NoClock}]
  BY DEF Init, Clocks, NoClock
<1>8. MaxTime >= 2
  BY SeriesAssumption
<1>9. now \in 2 .. MaxTime /\ requests \in 0 .. MaxRequests
  BY <1>8, SeriesAssumption DEF Init
<1> QED
  BY <1>2, <1>4, <1>6, <1>7, <1>9 DEF Inv

-----------------------------------------------------------------------------
(* One step: the invariant, and the past.                                  *)

LEMMA MembersAreSeries ==
  ASSUME Inv
  PROVE  /\ \A s \in Ids(series) : s \in 1 .. MaxSeries /\ series[s] \in SeriesRec
         /\ \A c \in copies : c \in CopyShape /\ c.parent \in Ids(series)
         /\ now \in Nat /\ Len(series) \in Nat
<1>1. series \in Seq(SeriesRec) /\ Len(series) <= MaxSeries
  BY DEF Inv, Typed
<1>2. \A s \in Ids(series) : series[s] \in SeriesRec
  BY <1>1, Parts
<1>3. \A s \in Ids(series) : s \in 1 .. MaxSeries
  BY <1>1, LenProperties, SeriesAssumption DEF Ids
<1> QED
  BY <1>1, <1>2, <1>3, LenProperties, SeriesAssumption DEF Inv, Typed

LEMMA PlaceStep ==
  ASSUME Inv, NEW s \in Ids(series), Place(s)
  PROVE  Inv' /\ HistoryKept
<1>1. due[s] \in Clocks /\ due' \in [1 .. MaxSeries -> Clocks \cup {NoClock}]
  <2>1. s \in 1 .. MaxSeries
    BY MembersAreSeries
  <2> QED
    BY <2>1 DEF Place, Inv
<1>2. PICK k \in Clocks : k = due[s]
  BY <1>1
<1>3. Seat(series, copies, s, k, 0)
  BY <1>2 DEF Place
<1>4. /\ Typed(series', copies') /\ KeepsPast(series, copies, series', copies')
      /\ requests' \in 0 .. MaxRequests
      /\ astray \subseteq astray' /\ astray' \subseteq Days
      /\ \A d \in Days \ astray' :
           DayOK(series, copies, dismissed, d) => DayOK(series', copies', dismissed, d)
  BY <1>3, Seating DEF Inv
<1>5. \A d \in Days \ astray' : DayOK(series', copies', dismissed', d)
  BY <1>4 DEF Inv, Place
<1>6. Inv'
  BY <1>1, <1>4, <1>5 DEF Inv, Place, Room
<1>7. HistoryKept
  BY <1>4, PastRowsKept, MembersAreSeries DEF Place
<1> QED
  BY <1>6, <1>7

LEMMA ExtendStep ==
  ASSUME Inv, NEW s \in Ids(series), Extend(s)
  PROVE  Inv' /\ HistoryKept
<1>1. PICK last \in Missing(s) \cup {LastDay} :
        /\ AppendDays(s, {d \in Missing(s) : d <= last})
        /\ dropped' = dropped \cup {d \in Yielded(s) : d <= last}
  BY DEF Extend
<1>2. PICK P : P = {d \in Missing(s) : d <= last}
  OBVIOUS
<1>3. P \subseteq Missing(s) /\ AppendDays(s, P)
  BY <1>1, <1>2
<1>4. series[s].clock \in Clocks
  <2>1. ~series[s].parked
    BY DEF Extend, Continues
  <2> QED
    BY <2>1, Parts DEF Inv, Typed
<1>5. /\ Typed(series', copies') /\ KeepsPast(series, copies, series', copies')
      /\ Len(series') = Len(series) /\ requests' \in 0 .. MaxRequests
      /\ astray \subseteq astray' /\ astray' \subseteq Days
      /\ \A d \in Days \ astray' :
           DayOK(series, copies, dismissed, d) => DayOK(series', copies', dismissed, d)
  BY <1>3, <1>4, Appending DEF Inv
<1>6. \A d \in Days \ astray' : DayOK(series', copies', dismissed', d)
  BY <1>5 DEF Inv, Extend
<1>7. dropped' \subseteq Days
  BY <1>1, Planned DEF Yielded, Inv
<1>8. Inv'
  BY <1>5, <1>6, <1>7 DEF Inv, Extend
<1>9. HistoryKept
  BY <1>5, PastRowsKept, MembersAreSeries DEF Extend
<1> QED
  BY <1>8, <1>9

LEMMA PastOfTwo ==
  ASSUME NEW srs, NEW cps, NEW srs1, NEW srs2, NEW cps2,
         KeepsPast(srs, cps, srs1, cps), KeepsPast(srs1, cps, srs2, cps2)
  PROVE  KeepsPast(srs, cps, srs2, cps2)
BY DEF KeepsPast

\* A new member without rows: no day gains anything.
LEMMA Joining ==
  ASSUME NEW srs, NEW cps, NEW me \in SeriesRec, Typed(srs, cps), me.rows = {}
  PROVE  /\ Typed(Append(srs, me), cps) /\ Len(srs) + 1 \in Ids(Append(srs, me))
         /\ \A dis, d : DayOK(srs, cps, dis, d) => DayOK(Append(srs, me), cps, dis, d)
         /\ KeepsPast(srs, cps, Append(srs, me), cps)
<1> DEFINE srs2 == Append(srs, me)
<1>1. srs \in Seq(SeriesRec) /\ Len(srs) \in Nat /\ Len(srs) >= 1
  BY LenProperties DEF Typed
<1>2. /\ srs2 \in Seq(SeriesRec) /\ Len(srs2) = Len(srs) + 1 /\ srs2[Len(srs) + 1] = me
      /\ \A t \in 1 .. Len(srs) : srs2[t] = srs[t]
  BY <1>1, AppendProperties
<1> HIDE DEF srs2
<1>3. Ids(srs2) = Ids(srs) \cup {Len(srs) + 1}
  BY <1>1, <1>2 DEF Ids
<1>4. \A t \in Ids(srs) : srs2[t] = srs[t]
  BY <1>2 DEF Ids
<1>5. Typed(srs2, cps)
  BY <1>1, <1>2, <1>3 DEF Typed
<1>6. \A d : Shrinks(srs, cps, srs2, cps, d)
  BY <1>2, <1>3, <1>4 DEF Shrinks
<1>7. \A dis, d : DayOK(srs, cps, dis, d) => DayOK(srs2, cps, dis, d)
  BY <1>6, ShrinksKeeps
<1>8. KeepsPast(srs, cps, srs2, cps)
  BY <1>3, <1>4 DEF KeepsPast
<1> QED
  BY <1>3, <1>5, <1>7, <1>8 DEF srs2

\* The series ends before a day: rows to come go, nothing else.
LEMMA EndingAt ==
  ASSUME NEW me \in SeriesRec, NEW d \in Days
  PROVE  /\ EndedAt(me, d) \in SeriesRec /\ EndedAt(me, d).skipped = me.skipped
         /\ EndedAt(me, d).rows \subseteq me.rows
         /\ \A r \in me.rows : Over(r) => r \in EndedAt(me, d).rows
<1> DEFINE u == IF me.until > d THEN d ELSE me.until
           R == me.rows \ RowsFrom(OpenRows(me.rows), d)
<1>1. me.until \in 1 .. NoEnd /\ me.rows \subseteq Slots
  BY DEF SeriesRec
<1>2. d \in 1 .. NoEnd
  BY SeriesAssumption DEF Days, NoEnd
<1>3. u \in 1 .. NoEnd /\ R \in SUBSET Slots
  BY <1>1, <1>2
<1>4. R \subseteq me.rows /\ \A r \in me.rows : Over(r) => r \in R
  BY DEF OpenRows, RowsFrom
<1>5. EndedAt(me, d) = [me EXCEPT !.until = u, !.rows = R]
  BY DEF EndedAt
<1> HIDE DEF u, R
<1>6. EndedAt(me, d) \in SeriesRec
  BY <1>3, <1>5 DEF SeriesRec
<1>7. EndedAt(me, d).rows = R /\ EndedAt(me, d).skipped = me.skipped
  BY <1>5, <1>6 DEF SeriesRec
<1> QED
  BY <1>4, <1>6, <1>7

LEMMA SaveClockStep ==
  ASSUME Inv, NEW s \in Ids(series), NEW d \in Days, NEW k \in Clocks, SaveClock(s, d, k)
  PROVE  Inv' /\ HistoryKept
<1> DEFINE open == OpenRows(series[s].rows)
           a    == IF open = {} THEN d ELSE First(open)[1]
           me   == [series[s] EXCEPT !.clock = k, !.anchor = a]
<1>1. series \in Seq(SeriesRec) /\ series[s] \in SeriesRec /\ s \in 1 .. MaxSeries
  BY MembersAreSeries DEF Inv, Typed
<1>2. a \in Days
  <2>1. open \in SUBSET Slots
    BY <1>1, Parts
  <2>2. open # {} => First(open) \in Slots
    BY <2>1, FirstRow
  <2> QED
    BY <2>2, SlotParts
<1>3. series' = [series EXCEPT ![s].clock = k, ![s].anchor = a]
  BY DEF SaveClock
<1> HIDE DEF open, a
<1>4. me \in SeriesRec /\ me.rows = series[s].rows /\ me.skipped = series[s].skipped
  <2>1. me \in SeriesRec
    BY <1>1, <1>2 DEF SeriesRec
  <2> QED
    BY <1>1, <2>1 DEF SeriesRec
<1>5. series' = [series EXCEPT ![s] = me]
  BY <1>1, <1>3
<1> HIDE DEF me
<1>6. copies' = copies /\ UNCHANGED <<now, dismissed, ended, astray>> /\ dropped' \subseteq Days
  BY DEF SaveClock, PassedOver, Inv
<1>7. /\ Typed(series', copies') /\ Len(series') = Len(series)
      /\ \A e : DayOK(series, copies, dismissed, e) => DayOK(series', copies', dismissed, e)
      /\ KeepsPast(series, copies, series', copies')
  <2>1. TrimsOpen(series, series', s) /\ Trims(series, series', s)
    BY <1>1, <1>4, <1>5, Trimmed
  <2> QED
    BY <1>6, <2>1, Trimming, TrimmedPast DEF Inv
<1>8. requests' \in 0 .. MaxRequests /\ due' \in [1 .. MaxSeries -> Clocks \cup {NoClock}]
  BY <1>1, SeriesAssumption DEF SaveClock, Request, Count, Inv
<1>9. Inv'
  BY <1>6, <1>7, <1>8 DEF Inv
<1>10. HistoryKept
  BY <1>6, <1>7, PastRowsKept, MembersAreSeries
<1> QED
  BY <1>9, <1>10

LEMMA SplitStep ==
  ASSUME Inv, NEW s \in Ids(series), NEW d \in Days, NEW k \in Clocks, Split(s, d, k)
  PROVE  Inv' /\ HistoryKept
<1> DEFINE old   == EndedAt(series[s], d)
           v     == IF series[s].until > d THEN series[s].until ELSE NoEnd
           fresh == [old EXCEPT !.from = d, !.anchor = d, !.clock = k, !.rows = {}, !.until = v,
                                !.skipped = {}, !.parked = FALSE]
           cut   == [series EXCEPT ![s] = old]
<1>1. series \in Seq(SeriesRec) /\ series[s] \in SeriesRec /\ Len(series) \in Nat
  BY MembersAreSeries DEF Inv, Typed
<1>2. v \in 1 .. NoEnd
  BY <1>1, Parts, SeriesAssumption DEF NoEnd
<1>3. \/ Seat(Append(cut, fresh), copies, Len(series) + 1, k, 1)
      \/ \E t \in Tails(s, d) : Seat([cut EXCEPT ![t].clock = k, ![t].anchor = d], copies, t, k, 1)
  BY DEF Split
<1>4. /\ old \in SeriesRec /\ old.skipped = series[s].skipped /\ old.rows \subseteq series[s].rows
      /\ \A r \in series[s].rows : Over(r) => r \in old.rows
  BY <1>1, EndingAt
<1> HIDE DEF old, v
<1>7. fresh \in SeriesRec /\ fresh.rows = {}
  <2>1. d \in 0 .. LastDay
    BY DEF Days
  <2>2. fresh \in SeriesRec
    BY <1>2, <1>4, <2>1 DEF SeriesRec
  <2> QED
    BY <1>4, <2>2 DEF SeriesRec
<1> HIDE DEF fresh
<1>8. /\ Typed(cut, copies) /\ Len(cut) = Len(series)
      /\ \A dis, e : DayOK(series, copies, dis, e) => DayOK(cut, copies, dis, e)
      /\ KeepsPast(series, copies, cut, copies)
  <2>1. TrimsOpen(series, cut, s) /\ Trims(series, cut, s)
    BY <1>1, <1>4, Trimmed
  <2> HIDE DEF cut
  <2> QED
    BY <2>1, Trimming, TrimmedPast DEF Inv
<1> HIDE DEF cut
<1>9. PICK srs, t :
        /\ t \in Ids(srs) /\ Typed(srs, copies) /\ Seat(srs, copies, t, k, 1)
        /\ \A dis, e : DayOK(cut, copies, dis, e) => DayOK(srs, copies, dis, e)
        /\ KeepsPast(cut, copies, srs, copies)
  <2>1. CASE Seat(Append(cut, fresh), copies, Len(series) + 1, k, 1)
    BY <1>7, <1>8, <2>1, Joining
  <2>2. CASE \E t \in Tails(s, d) : Seat([cut EXCEPT ![t].clock = k, ![t].anchor = d], copies, t, k, 1)
    <3>1. PICK t \in Tails(s, d) : Seat([cut EXCEPT ![t].clock = k, ![t].anchor = d], copies, t, k, 1)
      BY <2>2
    <3>2. t \in Ids(cut) /\ cut \in Seq(SeriesRec)
      BY <1>8 DEF Tails, Ids, Typed
    <3> DEFINE me == [cut[t] EXCEPT !.clock = k, !.anchor = d]
    <3>3. cut[t] \in SeriesRec
      BY <3>2, Parts
    <3>4. me \in SeriesRec /\ me.rows = cut[t].rows /\ me.skipped = cut[t].skipped
      <4>1. me \in SeriesRec
        BY <3>3 DEF SeriesRec
      <4> QED
        BY <3>3, <4>1 DEF SeriesRec
    <3>5. [cut EXCEPT ![t].clock = k, ![t].anchor = d] = [cut EXCEPT ![t] = me]
      BY <3>2
    <3> HIDE DEF me
    <3>6. PICK srs : srs = [cut EXCEPT ![t] = me]
      OBVIOUS
    <3>7. /\ Typed(srs, copies) /\ Len(srs) = Len(cut)
          /\ \A dis, e : DayOK(cut, copies, dis, e) => DayOK(srs, copies, dis, e)
          /\ KeepsPast(cut, copies, srs, copies)
      <4>1. TrimsOpen(cut, srs, t) /\ Trims(cut, srs, t)
        BY <3>2, <3>4, <3>6, Trimmed
      <4> QED
        BY <1>8, <3>2, <4>1, Trimming, TrimmedPast
    <3>8. t \in Ids(srs) /\ Seat(srs, copies, t, k, 1)
      BY <3>1, <3>2, <3>5, <3>6, <3>7 DEF Ids
    <3> QED
      BY <3>7, <3>8
  <2> QED
    BY <1>3, <2>1, <2>2
<1>10. /\ Typed(series', copies') /\ KeepsPast(srs, copies, series', copies')
       /\ requests' \in 0 .. MaxRequests
       /\ astray \subseteq astray' /\ astray' \subseteq Days
       /\ \A e \in Days \ astray' :
            DayOK(srs, copies, dismissed, e) => DayOK(series', copies', dismissed, e)
  BY <1>9, Seating DEF Inv
<1>11. \A e \in Days \ astray' : DayOK(series', copies', dismissed', e)
  BY <1>8, <1>9, <1>10 DEF Inv, Split
<1>12. KeepsPast(series, copies, series', copies')
  BY <1>8, <1>9, <1>10, PastOfTwo
<1>13. Inv'
  <2>1. dropped' \subseteq Days
    BY DEF Split, Inv
  <2> QED
    BY <1>10, <1>11, <2>1 DEF Inv, Split, Room
<1>14. HistoryKept
  BY <1>12, PastRowsKept, MembersAreSeries DEF Split
<1> QED
  BY <1>13, <1>14

LEMMA RequestCounts ==
  ASSUME Inv, Request
  PROVE  requests' \in 0 .. MaxRequests
<1>1. requests \in 0 .. MaxRequests /\ MaxRequests \in Nat
  BY SeriesAssumption DEF Inv
<1> QED
  BY <1>1 DEF Request, Count

LEMMA EndFromStep ==
  ASSUME Inv, NEW s \in Ids(series), NEW d \in Days, EndFrom(s, d)
  PROVE  Inv' /\ HistoryKept
<1> DEFINE me == EndedAt(series[s], d)
<1>1. series \in Seq(SeriesRec) /\ series[s] \in SeriesRec
  BY MembersAreSeries DEF Inv, Typed
<1>2. series' = [series EXCEPT ![s] = Refreshed(me)]
  BY <1>1 DEF EndFrom
<1>3. /\ me \in SeriesRec /\ me.skipped = series[s].skipped /\ me.rows \subseteq series[s].rows
      /\ \A r \in series[s].rows : Over(r) => r \in me.rows
  BY <1>1, EndingAt
<1> HIDE DEF me
<1>4. /\ Refreshed(me) \in SeriesRec /\ Refreshed(me).rows = me.rows
      /\ Refreshed(me).skipped = me.skipped
  BY <1>3, Refreshing
<1>7. TrimsOpen(series, series', s) /\ Trims(series, series', s)
  BY <1>1, <1>2, <1>3, <1>4, Trimmed
<1>8. UNCHANGED <<copies, due, now, dismissed, dropped, astray>> /\ ended' \subseteq Days
  BY DEF EndFrom, Inv
<1>9. /\ Typed(series', copies') /\ Len(series') = Len(series)
      /\ \A e : DayOK(series, copies, dismissed, e) => DayOK(series', copies', dismissed, e)
      /\ KeepsPast(series, copies, series', copies')
  BY <1>7, <1>8, Trimming, TrimmedPast DEF Inv
<1>10. requests' \in 0 .. MaxRequests
  BY RequestCounts DEF EndFrom
<1>11. Inv'
  BY <1>8, <1>9, <1>10 DEF Inv
<1>12. HistoryKept
  BY <1>8, <1>9, PastRowsKept, MembersAreSeries
<1> QED
  BY <1>11, <1>12

LEMMA SkipDayStep ==
  ASSUME Inv, NEW s \in Ids(series), NEW d \in Days, SkipDay(s, d)
  PROVE  Inv' /\ HistoryKept
<1>1. series \in Seq(SeriesRec) /\ series[s] \in SeriesRec
  BY MembersAreSeries DEF Inv, Typed
<1>2. PICK me : me = Refreshed(Skipping(series[s], d))
  OBVIOUS
<1>3. /\ me \in SeriesRec
      /\ me.rows = series[s].rows \ RowsOn(OpenRows(series[s].rows), d)
      /\ me.skipped = series[s].skipped \cup {d}
  BY <1>1, <1>2, SkippingDay, Refreshing
<1>4. series' = [series EXCEPT ![s] = me]
  BY <1>1, <1>2 DEF SkipDay
<1>5. \A r \in series[s].rows : Over(r) => r \in me.rows
  BY <1>3 DEF OpenRows, RowsOn
<1>6. TrimsOpen(series, series', s) /\ Trims(series, series', s)
  BY <1>1, <1>3, <1>4, <1>5, Trimmed
<1>7. UNCHANGED <<copies, due, now, ended, dropped, astray>> /\ dismissed' = dismissed \cup {d}
  BY DEF SkipDay
<1>8. /\ Typed(series', copies') /\ Len(series') = Len(series)
      /\ \A e : DayOK(series, copies, dismissed, e) => DayOK(series', copies', dismissed, e)
      /\ KeepsPast(series, copies, series', copies')
  BY <1>6, <1>7, Trimming, TrimmedPast DEF Inv
<1>9. requests' \in 0 .. MaxRequests
  BY RequestCounts DEF SkipDay
<1>10. ASSUME NEW e \in Days \ astray' PROVE DayOK(series', copies', dismissed', e)
  <2>1. DayOK(series, copies, dismissed, e) /\ DayOK(series', copies', dismissed, e)
    BY <1>7, <1>8 DEF Inv
  <2>2. CASE e # d
    BY <1>7, <2>1, <2>2 DEF DayOK
  <2>3. CASE e = d
    <3>1. ~Copied(copies, d) /\ ~Rowed(series', d) /\ d \in series'[s].skipped
      <4>1. RowsOn(OpenRows(series[s].rows), d) # {}
        BY DEF SkipDay
      <4>2. Typed(series, copies) /\ DayOK(series, copies, dismissed, d)
        BY <2>1, <2>3 DEF Inv
      <4> QED
        BY <1>3, <1>4, <4>1, <4>2, SkippedDay
    <3>2. s \in Ids(series')
      BY <1>8 DEF Ids
    <3>3. Dismissed(series', copies', d)
      BY <1>7, <3>1, <3>2 DEF Dismissed
    <3> QED
      BY <2>1, <2>3, <3>3 DEF DayOK
  <2> QED
    BY <2>2, <2>3
<1>11. Inv'
  BY <1>7, <1>8, <1>9, <1>10 DEF Inv
<1>12. HistoryKept
  BY <1>7, <1>8, PastRowsKept, MembersAreSeries
<1> QED
  BY <1>11, <1>12

\* The day goes from its series to a copy made for it.
LEMMA DisplaceStep ==
  ASSUME Inv, NEW s \in Ids(series), NEW d \in Days, NEW slot \in Slots \cup {NoSlot},
         Displace(s, d, slot)
  PROVE  Inv' /\ HistoryKept
<1>1. series \in Seq(SeriesRec) /\ series[s] \in SeriesRec /\ s \in Nat
  BY MembersAreSeries DEF Inv, Typed
<1>2. PICK me : me = Skipping(series[s], d)
  OBVIOUS
<1>3. /\ me \in SeriesRec
      /\ me.rows = series[s].rows \ RowsOn(OpenRows(series[s].rows), d)
      /\ me.skipped = series[s].skipped \cup {d}
  BY <1>1, <1>2, SkippingDay
<1>4. series' = [series EXCEPT ![s] = me]
  BY <1>1, <1>2 DEF Displace
<1>5. \A r \in series[s].rows : Over(r) => r \in me.rows
  BY <1>3 DEF OpenRows, RowsOn
<1>6. TrimsOpen(series, series', s) /\ Trims(series, series', s)
  BY <1>1, <1>3, <1>4, <1>5, Trimmed
<1>7. PICK b : b = [day |-> d, parent |-> s, slot |-> slot, own |-> FALSE]
  OBVIOUS
<1>8. b \in CopyShape /\ b.day = d /\ b.parent = s
  BY <1>1, <1>7 DEF CopyShape
<1>9. UNCHANGED <<due, now, dismissed, ended, dropped, astray>> /\ copies' = copies \cup {b}
  BY <1>7 DEF Displace
<1>10. /\ Typed(series', copies) /\ Len(series') = Len(series)
       /\ \A e : DayOK(series, copies, dismissed, e) => DayOK(series', copies, dismissed, e)
       /\ KeepsPast(series, copies, series', copies)
  BY <1>6, Trimming, TrimmedPast DEF Inv
<1>11. Typed(series', copies')
  BY <1>8, <1>9, <1>10 DEF Typed, Ids
<1>12. requests' \in 0 .. MaxRequests
  BY RequestCounts DEF Displace
<1>13. ASSUME NEW e \in Days \ astray' PROVE DayOK(series', copies', dismissed', e)
  <2>1. DayOK(series, copies, dismissed, e) /\ DayOK(series', copies, dismissed, e)
    BY <1>9, <1>10 DEF Inv
  <2>2. CASE e # d
    <3>1. Shrinks(series', copies, series', copies', e)
      BY <1>8, <1>9, <2>2 DEF Shrinks
    <3> QED
      BY <1>9, <1>10, <2>1, <3>1, ShrinksKeeps
  <2>3. CASE e = d
    <3>1. d \notin dismissed /\ ~Copied(copies, d) /\ ~Rowed(series', d) /\ d \in series'[s].skipped
      <4>1. RowsOn(OpenRows(series[s].rows), d) # {}
        BY DEF Displace
      <4>2. Typed(series, copies) /\ DayOK(series, copies, dismissed, d)
        BY <2>1, <2>3 DEF Inv
      <4> QED
        BY <1>3, <1>4, <4>1, <4>2, SkippedDay
    <3>2. \A c \in copies' : c.day = d => c = b
      BY <1>9, <3>1 DEF Copied
    <3>3. CopyDay(series', copies', d)
      BY <1>8, <3>1, <3>2 DEF CopyDay
    <3> QED
      BY <1>9, <2>3, <3>1, <3>3 DEF DayOK
  <2> QED
    BY <2>2, <2>3
<1>14. KeepsPast(series, copies, series', copies')
  BY <1>9, <1>10 DEF KeepsPast
<1>15. Inv'
  BY <1>9, <1>10, <1>11, <1>12, <1>13 DEF Inv
<1>16. HistoryKept
  BY <1>9, <1>14, PastRowsKept, MembersAreSeries
<1> QED
  BY <1>15, <1>16

\* findOrCreateDayCopy: a copy of that day; a new one when the day has none.
LEMMA DayCopyShape ==
  ASSUME Inv, NEW s \in Ids(series), NEW d \in Days, NEW c \in DayCopies(s, d)
  PROVE  /\ c \in CopyShape /\ c.day = d /\ c.parent \in Ids(series)
         /\ ~Copied(copies, d) => c.parent = s
<1> DEFINE fresh == [day |-> d, parent |-> s, slot |-> NoSlot, own |-> FALSE]
<1>1. fresh \in CopyShape /\ fresh.day = d /\ fresh.parent = s
  BY MembersAreSeries DEF CopyShape
<1> HIDE DEF fresh
<1>2. (c \in copies /\ c.day = d) \/ (c = fresh /\ ~Copied(copies, d))
  BY DEF DayCopies, fresh, Copied
<1>3. c \in copies /\ c.day = d => Copied(copies, d)
  BY DEF Copied
<1> QED
  BY <1>1, <1>2, <1>3, MembersAreSeries

LEMMA MoveDayStep ==
  ASSUME Inv, NEW s \in Ids(series), NEW d \in Days, NEW slot \in Slots \cup {NoSlot},
         MoveDay(s, d, slot)
  PROVE  Inv' /\ HistoryKept
<1>1. series \in Seq(SeriesRec) /\ series[s] \in SeriesRec
  BY MembersAreSeries DEF Inv, Typed
<1>2. PICK me : me = Skipping(series[s], d)
  OBVIOUS
<1>3. /\ me \in SeriesRec
      /\ me.rows = series[s].rows \ RowsOn(OpenRows(series[s].rows), d)
      /\ me.skipped = series[s].skipped \cup {d}
  BY <1>1, <1>2, SkippingDay
<1>4. PICK srs : srs = [series EXCEPT ![s] = me]
  OBVIOUS
<1>5. PICK c \in DayCopies(s, d) : PutCopy(srs, c, slot)
  BY <1>1, <1>2, <1>4 DEF MoveDay
<1>6. \A r \in series[s].rows : Over(r) => r \in me.rows
  BY <1>3 DEF OpenRows, RowsOn
<1>7. TrimsOpen(series, srs, s) /\ Trims(series, srs, s)
  BY <1>1, <1>3, <1>4, <1>6, Trimmed
<1>8. /\ Typed(srs, copies) /\ Len(srs) = Len(series)
      /\ \A e : DayOK(series, copies, dismissed, e) => DayOK(srs, copies, dismissed, e)
      /\ KeepsPast(series, copies, srs, copies)
  BY <1>7, Trimming, TrimmedPast DEF Inv
<1>9. /\ c \in CopyShape /\ c.day = d /\ c.parent \in Ids(srs)
      /\ ~Copied(copies, d) => c.parent = s
  BY <1>8, DayCopyShape DEF Ids
<1>10. /\ Typed(series', copies') /\ Len(series') = Len(srs)
       /\ \A t \in Ids(srs) : \A r \in srs[t].rows : Over(r) => r \in series'[t].rows
       /\ \A b \in copies : b # c => b \in copies'
       /\ astray \subseteq astray' /\ astray' \subseteq Days
       /\ \A e \in Days :
            \/ e # c.day /\ DayOK(srs, copies, dismissed, e)
            \/ e = c.day /\ Stands(srs, copies, c, dismissed, e)
            => DayOK(series', copies', dismissed, e)
  BY <1>5, <1>8, <1>9, Putting DEF Inv
<1>11. UNCHANGED <<due, now, dismissed, ended, dropped>> /\ requests' \in 0 .. MaxRequests
  BY RequestCounts DEF MoveDay
<1>12. ASSUME d \notin astray
       PROVE  ~Copied(copies, d) /\ Stands(srs, copies, c, dismissed, d)
  <2>1. d \notin dismissed /\ ~Copied(copies, d) /\ ~Rowed(srs, d) /\ d \in srs[s].skipped
    <3>1. RowsOn(OpenRows(series[s].rows), d) # {}
      BY DEF MoveDay
    <3>2. Typed(series, copies) /\ DayOK(series, copies, dismissed, d)
      BY <1>12 DEF Inv
    <3> QED
      BY <1>3, <1>4, <3>1, <3>2, SkippedDay
  <2> QED
    BY <1>9, <2>1 DEF Stands, Copied
<1>13. ASSUME NEW e \in Days \ astray' PROVE DayOK(series', copies', dismissed', e)
  <2>1. e \notin astray /\ DayOK(srs, copies, dismissed, e)
    BY <1>8, <1>10 DEF Inv
  <2> QED
    BY <1>9, <1>10, <1>11, <1>12, <2>1
<1>14. Inv'
  BY <1>8, <1>10, <1>11, <1>13 DEF Inv
<1>15. ASSUME NEW r \in Past
       PROVE  r \in Past' \/ \E b \in copies : b.slot = r /\ b.day \in astray
  <2>1. Over(r) /\ ((\E t \in Ids(series) : r \in series[t].rows) \/ (\E b \in copies : b.slot = r))
    BY PastCases
  <2>2. (\E t \in Ids(series) : r \in series[t].rows) => \E t \in Ids(series') : r \in series'[t].rows
    BY <1>8, <1>10, <2>1 DEF KeepsPast, Ids
  <2>3. \A b \in copies : b.slot = r /\ b.day \notin astray => b \in copies'
    BY <1>9, <1>10, <1>12 DEF Copied
  <2>4. now' \in Nat /\ now' >= now
    BY <1>11, MembersAreSeries
  <2> QED
    BY <2>1, <2>2, <2>3, <2>4, PastKept
<1> QED
  BY <1>14, <1>15 DEF HistoryKept

LEMMA HandOverStep ==
  ASSUME Inv, NEW s \in Ids(series), NEW r \in Slots, HandOver(s, r)
  PROVE  Inv' /\ HistoryKept
<1> DEFINE d  == r[1]
           K  == series[s].skipped \cup {d}
           R  == series[s].rows \ RowsOn(series[s].rows, d)
           me == [series[s] EXCEPT !.skipped = K, !.rows = R]
<1>1. series \in Seq(SeriesRec) /\ series[s] \in SeriesRec /\ d \in Days /\ r \in series[s].rows
  BY MembersAreSeries, SlotParts DEF Inv, Typed, HandOver
<1>2. PICK c \in DayCopies(s, d) : copies' = (copies \ {c}) \cup {[c EXCEPT !.slot = r, !.own = TRUE]}
  BY DEF HandOver
<1>3. K \in SUBSET Days /\ R \in SUBSET Slots
  BY <1>1, Parts
<1>4. \A q \in series[s].rows : q[1] # d => q \in R
  BY DEF RowsOn
<1>5. \A q \in R : q[1] # d /\ q \in series[s].rows
  BY DEF RowsOn
<1>6. series' = [series EXCEPT ![s] = me]
  <2>1. series' = [series EXCEPT ![s].skipped = K, ![s].rows = R]
    BY <1>1 DEF HandOver
  <2> HIDE DEF K, R
  <2> QED
    BY <1>1, <2>1
<1>7. me \in SeriesRec /\ me.rows = R /\ me.skipped = K
  <2> HIDE DEF K, R
  <2>1. me \in SeriesRec
    BY <1>1, <1>3 DEF SeriesRec
  <2> QED
    BY <1>1, <2>1 DEF SeriesRec
<1> HIDE DEF me
<1>8. R \subseteq series[s].rows /\ series[s].skipped \subseteq K /\ d \in K
  OBVIOUS
<1> HIDE DEF K, R
<1>9. Trims(series, series', s) /\ series'[s] = me
  <2>1. series'[s] = me
    BY <1>1, <1>6, <1>7, Rewriting
  <2>2. Trims(series, series', s)
    BY <1>1, <1>6, <1>7, <1>8, Trimmed
  <2> QED
    BY <2>1, <2>2
<1>10. /\ Typed(series', copies) /\ Len(series') = Len(series)
       /\ \A e : DayOK(series, copies, dismissed, e) => DayOK(series', copies, dismissed, e)
  BY <1>9, Trimming DEF Inv
<1>11. /\ c \in CopyShape /\ c.day = d /\ c.parent \in Ids(series)
       /\ ~Copied(copies, d) => c.parent = s
  BY <1>1, <1>2, DayCopyShape
<1>12. PICK b : b = [c EXCEPT !.slot = r, !.own = TRUE]
  OBVIOUS
<1>13. b \in CopyShape /\ b.day = d /\ b.parent = c.parent /\ b.slot = r
  BY <1>11, <1>12 DEF CopyShape
<1>14. copies' = (copies \ {c}) \cup {b}
  BY <1>2, <1>12
<1>15. Typed(series', copies')
  BY <1>10, <1>11, <1>13, <1>14 DEF Typed, Ids
<1>16. UNCHANGED <<due, now, dismissed, ended, dropped, astray>> /\ requests' \in 0 .. MaxRequests
  BY RequestCounts DEF HandOver
<1>17. ASSUME d \notin astray
       PROVE  /\ d \notin dismissed /\ ~Copied(copies, d)
              /\ \A t \in Ids(series) : \A q \in series[t].rows : q[1] = d => t = s /\ q = r
  <2>1. DayOK(series, copies, dismissed, d)
    BY <1>1, <1>17 DEF Inv
  <2> QED
    BY <1>1, <2>1, HeldDay
<1>18. ASSUME NEW e \in Days \ astray' PROVE DayOK(series', copies', dismissed', e)
  <2>1. e \notin astray /\ DayOK(series', copies, dismissed, e)
    BY <1>10, <1>16 DEF Inv
  <2>2. CASE e # d
    <3>1. Shrinks(series', copies, series', copies', e)
      BY <1>13, <1>14, <2>2 DEF Shrinks
    <3> QED
      BY <1>10, <1>16, <2>1, <3>1, ShrinksKeeps
  <2>3. CASE e = d
    <3>1. \A t \in Ids(series) : \A q \in series'[t].rows : q[1] # d
      BY <1>5, <1>7, <1>9, <1>17, <2>1, <2>3 DEF Trims, Rewritten
    <3>2. ~Rowed(series', d)
      BY <1>10, <3>1 DEF Rowed, Ids
    <3>3. \A x \in copies' : x.day = d => x = b
      BY <1>14, <1>17, <2>1, <2>3 DEF Copied
    <3>4. d \in series'[b.parent].skipped
      BY <1>7, <1>8, <1>9, <1>11, <1>13, <1>17, <2>1, <2>3
    <3>5. CopyDay(series', copies', d)
      BY <3>2, <3>3, <3>4 DEF CopyDay
    <3> QED
      BY <1>16, <1>17, <2>1, <2>3, <3>5 DEF DayOK
  <2> QED
    BY <2>2, <2>3
<1>19. Inv'
  BY <1>10, <1>15, <1>16, <1>18 DEF Inv
<1>20. ASSUME NEW q \in Past
       PROVE  q \in Past' \/ q[1] \in astray \/ \E x \in copies : x.slot = q /\ x.day \in astray
  <2>1. CASE \E t \in Ids(series) : q \in series[t].rows
    <3>1. PICK t \in Ids(series) : q \in series[t].rows
      BY <2>1
    <3>2. CASE t # s \/ q[1] # d
      <4>1. q \in series'[t].rows /\ t \in Ids(series')
        BY <1>4, <1>7, <1>9, <1>10, <3>1, <3>2 DEF Trims, Rewritten, Ids
      <4> QED
        BY <1>16, <4>1, PastKept, MembersAreSeries
    <3>3. CASE q[1] = d /\ d \notin astray
      <4>1. q = r
        BY <1>17, <3>1, <3>3
      <4>2. \E x \in copies' : x.slot = q
        BY <1>13, <1>14, <4>1
      <4> QED
        BY <1>16, <4>2, PastKept, MembersAreSeries
    <3> QED
      BY <3>2, <3>3
  <2>2. CASE \E x \in copies : x.slot = q
    <3>1. PICK x \in copies : x.slot = q
      BY <2>2
    <3>2. CASE x # c
      <4>1. x \in copies'
        BY <1>14, <3>2
      <4> QED
        BY <1>16, <3>1, <4>1, PastKept, MembersAreSeries
    <3>3. CASE x = c
      BY <1>11, <1>17, <3>1, <3>3 DEF Copied
    <3> QED
      BY <3>2, <3>3
  <2> QED
    BY <2>1, <2>2, PastCases
<1> QED
  BY <1>19, <1>20 DEF HistoryKept

LEMMA PlaceCopyStep ==
  ASSUME Inv, NEW c \in copies, NEW slot \in Slots, PlaceCopy(c, slot)
  PROVE  Inv' /\ HistoryKept
<1>1. c \in CopyShape /\ c.parent \in Ids(series) /\ c.day \in Days
  BY MembersAreSeries DEF CopyShape
<1>2. PutCopy(series, c, slot) /\ (~Over(c.slot) \/ c.slot = NoSlot)
  BY DEF PlaceCopy
<1>3. /\ Typed(series', copies') /\ Len(series') = Len(series)
      /\ \A t \in Ids(series) : \A r \in series[t].rows : Over(r) => r \in series'[t].rows
      /\ \A b \in copies : b # c => b \in copies'
      /\ astray \subseteq astray' /\ astray' \subseteq Days
      /\ \A e \in Days :
           \/ e # c.day /\ DayOK(series, copies, dismissed, e)
           \/ e = c.day /\ Stands(series, copies, c, dismissed, e)
           => DayOK(series', copies', dismissed, e)
  BY <1>1, <1>2, Putting DEF Inv
<1>4. UNCHANGED <<due, now, dismissed, ended, dropped>> /\ requests' \in 0 .. MaxRequests
  BY RequestCounts DEF PlaceCopy
<1>5. ASSUME NEW e \in Days \ astray' PROVE DayOK(series', copies', dismissed', e)
  <2>1. DayOK(series, copies, dismissed, e)
    BY <1>3 DEF Inv
  <2>2. e = c.day => Stands(series, copies, c, dismissed, e)
    BY <2>1, CopiedDay
  <2> QED
    BY <1>3, <1>4, <2>1, <2>2
<1>6. Inv'
  BY <1>3, <1>4, <1>5 DEF Inv
<1>7. ASSUME NEW r \in Past PROVE r \in Past'
  <2>1. /\ Over(r) /\ r \in Slots
        /\ (\E t \in Ids(series) : r \in series[t].rows) \/ (\E b \in copies : b.slot = r)
    BY PastCases
  <2>2. c.slot # r
    BY <1>2, <2>1, SlotParts
  <2>3. (\E t \in Ids(series') : r \in series'[t].rows) \/ (\E b \in copies' : b.slot = r)
    BY <1>3, <2>1, <2>2 DEF Ids
  <2> QED
    BY <1>4, <2>3, PastKept, MembersAreSeries
<1> QED
  BY <1>6, <1>7 DEF HistoryKept

LEMMA SkipCopyStep ==
  ASSUME Inv, NEW c \in copies, SkipCopy(c)
  PROVE  Inv' /\ HistoryKept
<1> DEFINE d == c.day
           s == c.parent
<1>1. /\ series \in Seq(SeriesRec) /\ s \in Ids(series) /\ series[s] \in SeriesRec /\ d \in Days
  BY MembersAreSeries DEF Inv, Typed, CopyShape
<1>2. PICK me : me = Refreshed(Skipping(series[s], d))
  OBVIOUS
<1>3. /\ me \in SeriesRec
      /\ me.rows = series[s].rows \ RowsOn(OpenRows(series[s].rows), d)
      /\ me.skipped = series[s].skipped \cup {d}
  BY <1>1, <1>2, SkippingDay, Refreshing
<1>4. series' = [series EXCEPT ![s] = me]
  BY <1>1, <1>2 DEF SkipCopy
<1>5. \A r \in series[s].rows : Over(r) => r \in me.rows
  BY <1>3 DEF OpenRows, RowsOn
<1>6. TrimsOpen(series, series', s) /\ Trims(series, series', s) /\ series'[s] = me
  <2>1. series'[s] = me
    BY <1>1, <1>3, <1>4, Rewriting
  <2> HIDE DEF s, d
  <2>2. TrimsOpen(series, series', s) /\ Trims(series, series', s)
    BY <1>1, <1>3, <1>4, <1>5, Trimmed
  <2> QED
    BY <2>1, <2>2
<1>7. /\ UNCHANGED <<due, now, ended, dropped, astray>>
      /\ copies' = copies \ {c} /\ dismissed' = dismissed \cup {d} /\ c.slot = NoSlot
  BY DEF SkipCopy
<1>8. /\ Typed(series', copies) /\ Len(series') = Len(series)
      /\ \A e : DayOK(series, copies, dismissed, e) => DayOK(series', copies, dismissed, e)
      /\ KeepsPast(series, copies, series', copies)
  BY <1>1, <1>6, Trimming, TrimmedPast DEF Inv
<1>9. /\ Typed(series', copies')
      /\ \A e : DayOK(series', copies, dismissed, e) => DayOK(series', copies', dismissed, e)
  <2>1. copies' \in SUBSET copies
    BY <1>7
  <2> QED
    BY <1>8, <2>1, Dropping
<1>10. requests' \in 0 .. MaxRequests
  BY RequestCounts DEF SkipCopy
<1>11. ASSUME NEW e \in Days \ astray' PROVE DayOK(series', copies', dismissed', e)
  <2>1. DayOK(series, copies, dismissed, e) /\ DayOK(series', copies', dismissed, e)
    BY <1>7, <1>8, <1>9 DEF Inv
  <2>2. CASE e # d
    BY <1>7, <2>1, <2>2 DEF DayOK
  <2>3. CASE e = d
    <3>1. Stands(series, copies, c, dismissed, d)
      BY <2>1, <2>3, CopiedDay
    <3>2. ~Copied(copies', d)
      BY <1>7, <3>1 DEF Stands, Copied
    <3>3. ~Rowed(series', d)
      <4>1. \A t \in Ids(series) : \A q \in series[t].rows : q[1] # d
        BY <3>1 DEF Stands, Rowed
      <4>2. \A t \in Ids(series) : series'[t].rows \subseteq series[t].rows
        BY <1>6 DEF Trims, Rewritten
      <4> QED
        BY <1>8, <4>1, <4>2 DEF Rowed, Ids
    <3>4. s \in Ids(series') /\ d \in series'[s].skipped
      BY <1>1, <1>3, <1>6, <1>8 DEF Ids
    <3>5. Dismissed(series', copies', d)
      BY <3>2, <3>3, <3>4 DEF Dismissed
    <3> QED
      BY <2>1, <2>3, <3>5 DEF DayOK
  <2> QED
    BY <2>2, <2>3
<1>12. Inv'
  BY <1>1, <1>7, <1>8, <1>9, <1>10, <1>11 DEF Inv
<1>13. ASSUME NEW r \in Past PROVE r \in Past'
  <2>1. /\ Over(r) /\ r \in Slots
        /\ (\E t \in Ids(series) : r \in series[t].rows) \/ (\E b \in copies : b.slot = r)
    BY PastCases
  <2>2. c.slot # r
    BY <1>7, <2>1, SlotParts
  <2>3. (\E t \in Ids(series') : r \in series'[t].rows) \/ (\E b \in copies' : b.slot = r)
    BY <1>7, <1>8, <2>1, <2>2 DEF KeepsPast
  <2> QED
    BY <1>7, <2>3, PastKept, MembersAreSeries
<1> QED
  BY <1>12, <1>13 DEF HistoryKept

LEMMA DeleteCopyStep ==
  ASSUME Inv, NEW c \in copies, DeleteCopy(c)
  PROVE  Inv' /\ HistoryKept
<1>1. /\ UNCHANGED <<series, due, now, ended, dropped, astray>>
      /\ copies' = copies \ {c} /\ dismissed' = dismissed \cup {c.day}
  BY DEF DeleteCopy
<1>2. c.day \in Days /\ c.parent \in Ids(series)
  BY MembersAreSeries DEF CopyShape
<1>3. /\ Typed(series', copies')
      /\ \A e : DayOK(series, copies, dismissed, e) => DayOK(series', copies', dismissed, e)
  <2>1. copies' \in SUBSET copies
    BY <1>1
  <2> QED
    BY <1>1, <2>1, Dropping DEF Inv
<1>4. requests' \in 0 .. MaxRequests
  BY RequestCounts DEF DeleteCopy
<1>5. ASSUME NEW e \in Days \ astray' PROVE DayOK(series', copies', dismissed', e)
  <2>1. DayOK(series, copies, dismissed, e) /\ DayOK(series', copies', dismissed, e)
    BY <1>1, <1>3 DEF Inv
  <2>2. CASE e # c.day
    BY <1>1, <2>1, <2>2 DEF DayOK
  <2>3. CASE e = c.day
    <3>1. Stands(series, copies, c, dismissed, c.day)
      BY <2>1, <2>3, CopiedDay
    <3>2. Dismissed(series', copies', c.day)
      BY <1>1, <1>2, <3>1 DEF Stands, Dismissed, Copied
    <3> QED
      BY <2>1, <2>3, <3>2 DEF DayOK
  <2> QED
    BY <2>2, <2>3
<1>6. Inv'
  BY <1>1, <1>2, <1>3, <1>4, <1>5 DEF Inv
<1>7. ASSUME NEW r \in Past
      PROVE  r \in Past' \/ \E b \in copies : b.slot = r /\ b.day \in dismissed'
  <2>1. (\E t \in Ids(series) : r \in series[t].rows) \/ (\E b \in copies : b.slot = r)
    BY PastCases
  <2>2. CASE c.slot = r
    BY <1>1, <2>2
  <2>3. CASE c.slot # r
    <3>1. (\E t \in Ids(series') : r \in series'[t].rows) \/ (\E b \in copies' : b.slot = r)
      BY <1>1, <2>1, <2>3
    <3> QED
      BY <1>1, <3>1, PastKept, MembersAreSeries
  <2> QED
    BY <2>2, <2>3
<1> QED
  BY <1>6, <1>7 DEF HistoryKept

LEMMA PurgeStep ==
  ASSUME Inv, Purge
  PROVE  Inv' /\ HistoryKept
<1>1. /\ UNCHANGED <<series, due, now, requests, dismissed, ended, dropped, astray>>
      /\ copies' \in SUBSET copies
  BY DEF Purge
<1>2. /\ Typed(series', copies')
      /\ \A e : DayOK(series, copies, dismissed, e) => DayOK(series', copies', dismissed, e)
  BY <1>1, Dropping DEF Inv
<1>3. Inv'
  BY <1>1, <1>2 DEF Inv
<1>4. ASSUME NEW r \in Past PROVE r \in Past'
  <2>1. /\ r \in Slots
        /\ (\E t \in Ids(series) : r \in series[t].rows) \/ (\E b \in copies : b.slot = r)
    BY PastCases
  <2>2. r # NoSlot
    BY <2>1, SlotParts
  <2>3. \A b \in copies : b.slot # NoSlot => b \in copies'
    BY DEF Purge
  <2>4. (\E t \in Ids(series') : r \in series'[t].rows) \/ (\E b \in copies' : b.slot = r)
    BY <1>1, <2>1, <2>2, <2>3
  <2> QED
    BY <1>1, <2>4, PastKept, MembersAreSeries
<1> QED
  BY <1>3, <1>4 DEF HistoryKept

LEMMA TickStep ==
  ASSUME Inv, Tick
  PROVE  Inv' /\ HistoryKept
<1>1. /\ UNCHANGED <<series, copies, due, requests, dismissed, ended, dropped, astray>>
      /\ now' = now + 1 /\ now < MaxTime
  BY DEF Tick
<1>2. now \in 2 .. MaxTime
  BY DEF Inv
<1>3. now' \in 2 .. MaxTime /\ now' \in Nat /\ now' >= now
  BY <1>1, <1>2, SeriesAssumption
<1>4. Inv'
  BY <1>1, <1>3 DEF Inv
<1>5. KeepsPast(series, copies, series', copies')
  BY <1>1 DEF KeepsPast
<1>6. HistoryKept
  BY <1>3, <1>5, PastRowsKept
<1> QED
  BY <1>4, <1>6

LEMMA NextInv == Inv /\ [Next]_vars => Inv' /\ HistoryKept
<1> SUFFICES ASSUME Inv, [Next]_vars
             PROVE  Inv' /\ HistoryKept
  OBVIOUS
<1>1. CASE \E s \in Ids(series) : OfSeries(s)
  BY <1>1, PlaceStep, ExtendStep, SaveClockStep, SplitStep, EndFromStep, SkipDayStep,
     DisplaceStep, MoveDayStep, HandOverStep DEF OfSeries
<1>2. CASE \E c \in copies : OfCopy(c)
  BY <1>2, PlaceCopyStep, SkipCopyStep, DeleteCopyStep DEF OfCopy
<1>3. CASE Purge \/ Tick
  BY <1>3, PurgeStep, TickStep
<1>4. CASE UNCHANGED vars
  <2>1. UNCHANGED <<series, copies, now>>
    BY <1>4 DEF vars
  <2>2. Inv'
    BY <1>4 DEF vars, Inv
  <2>3. HistoryKept
    <3>1. KeepsPast(series, copies, series', copies')
      BY <2>1 DEF KeepsPast
    <3> QED
      BY <2>1, <3>1, PastRowsKept, MembersAreSeries
  <2> QED
    BY <2>2, <2>3
<1> QED
  BY <1>1, <1>2, <1>3, <1>4 DEF Next

LEMMA SpecInv == Spec => []Inv
<1>1. Init => Inv
  BY InitInv
<1>2. Inv /\ [Next]_vars => Inv'
  BY NextInv
<1> QED
  BY <1>1, <1>2, PTL DEF Spec

-----------------------------------------------------------------------------
(* What the runs check.                                                    *)

\* A set in which any two members are equal has at most one.
LEMMA AtMostOne ==
  ASSUME NEW S, \A x, y \in S : x = y
  PROVE  Cardinality(S) <= 1
<1>1. CASE S = {}
  BY <1>1, FS_EmptySet
<1>2. CASE S # {}
  <2>1. PICK x \in S : S = {x}
    BY <1>2
  <2> QED
    BY <2>1, FS_Singleton
<1> QED
  BY <1>1, <1>2

\* The tables of the group keep their types, through every plan, split, end,
\* move, rejoin and append: a copy's series exists, a row is a slot.
THEOREM SeriesTypeCorrect == Spec => []TypeOK
<1>1. Inv => TypeOK
  <2> SUFFICES ASSUME Inv PROVE TypeOK
    OBVIOUS
  <2>1. series \in Seq(SeriesRec) /\ Len(series) \in 1 .. MaxSeries
    BY MembersAreSeries, SeriesAssumption DEF Inv, Typed
  <2>2. \A c \in copies : c \in CopyShape /\ c.parent \in 1 .. MaxSeries
    BY MembersAreSeries
  <2>3. copies \subseteq CopyRec
    BY <2>2 DEF CopyShape, CopyRec
  <2> QED
    BY <2>1, <2>3 DEF Inv, TypeOK
<1> QED
  BY <1>1, SpecInv, PTL

\* No two rows or copies of the group stand for one civil day, and a copy's
\* series skips that day, however days are moved, parked, split off, ended and
\* taken back; but for the days a series plans over another member.
THEOREM OneOccurrencePerDay == Spec => []OneOccurrence
<1>1. Inv => OneOccurrence
  <2> SUFFICES ASSUME Inv PROVE OneOccurrence
    OBVIOUS
  <2>1. ASSUME NEW d \in Days \ astray PROVE Cardinality(Holders(d)) <= 1
    <3>1. DayOK(series, copies, dismissed, d)
      BY DEF Inv
    <3>2. \A s, t \in Ids(series) :
            RowsOn(series[s].rows, d) # {} /\ RowsOn(series[t].rows, d) # {} => s = t /\ ~Copied(copies, d)
      BY <3>1 DEF DayOK, RowDay, CopyDay, Rowed, RowsOn
    <3>3. \A b, c \in copies : b.day = d /\ c.day = d => b = c /\ ~Rowed(series, d)
      BY <3>1 DEF DayOK, RowDay, CopyDay, Copied
    <3>4. \A x, y \in Holders(d) : x = y
      BY <3>2, <3>3 DEF Holders, Copied, Rowed, RowsOn
    <3> QED
      BY <3>4, AtMostOne
  <2>2. ASSUME NEW c \in copies, c.day \notin astray PROVE c.day \in series[c.parent].skipped
    <3>1. c.day \in Days
      BY MembersAreSeries DEF CopyShape
    <3>2. DayOK(series, copies, dismissed, c.day)
      BY <2>2, <3>1 DEF Inv
    <3> QED
      BY <3>2, CopiedDay DEF Stands
  <2> QED
    BY <2>1, <2>2 DEF OneOccurrence
<1> QED
  BY <1>1, SpecInv, PTL

\* What is over is never taken from the calendar by a plan, a split, an end, a
\* move or a purge: a copy may take a past row over, and the user may delete one.
THEOREM PastDaysStay == Spec => HistoryStays
<1>1. Inv /\ [Next]_vars => [HistoryKept]_vars
  BY NextInv
<1> QED
  BY <1>1, SpecInv, PTL DEF Spec, HistoryStays, HistoryKept

-----------------------------------------------------------------------------
(* No day to come is lost.                                                 *)

Passed(r, t) == t > 2 * r[1] + r[2]

\* What a series has sat on, skipped, or left to a copy are days of its rule,
\* and no day before the one it was split off on.
Ruled(srs, cps) ==
  /\ \A s \in Ids(srs) :
       /\ \A r \in srs[s].rows : r[1] % Week \in srs[s].rule /\ r[1] >= srs[s].from
       /\ \A e \in srs[s].skipped : e % Week \in srs[s].rule
  /\ \A c \in cps : c.day % Week \in srs[c.parent].rule

\* A row to come lies in the horizon, on a day that its series names.
Fits(me, ast, t) ==
  \A r \in me.rows : ~Passed(r, t) =>
    /\ r[1] < (t \div 2) + Horizon /\ r[1] < me.until /\ r[1] \notin me.skipped
    /\ r[1] >= StartDay(me) \/ r[1] \in ast

\* A clock sibling is in the group: members no longer follow one another.
Mixed(srs) == \E s \in Ids(srs) : s # 1 /\ srs[s].from = 0

\* Without one they do: each ends where the next begins, and sits before it.
Follows(u, t) ==
  /\ u.until <= t.from
  /\ \A q \in u.rows, r \in t.rows : 2 * q[1] + q[2] < 2 * r[1] + r[2]
Lined(srs) ==
  \/ Mixed(srs)
  \/ \A u, t \in Ids(srs) : u # t =>
       srs[u].from # srs[t].from /\ (srs[u].from < srs[t].from => Follows(srs[u], srs[t]))

\* The series has not come to a later day yet: neither sat nor skipped one.
Clean(srs, cps, s, x) ==
  /\ \A r \in srs[s].rows : r[1] <= x
  /\ \A e \in srs[s].skipped : e <= x
  /\ \A c \in cps : c.parent = s => c.day <= x

\* A series that names the day will be brought to it.
Awaits(srs, cps, s, x) ==
  Names(srs[s], x) /\ (Clean(srs, cps, s, x) \/ (Mixed(srs) /\ srs[s].from # 0))
Leads(srs, x) == Mixed(srs) \/ \A u \in Ids(srs) : srs[u].from <= x
Held(srs, cps, x) == Copied(cps, x) \/ Rowed(srs, x)
Kept(srs, cps, x) ==
  Held(srs, cps, x) \/ (Leads(srs, x) /\ \E s \in Ids(srs) : Awaits(srs, cps, s, x))

\* The group is in order.
Sound(srs, cps, ast, t) ==
  Ruled(srs, cps) /\ Lined(srs) /\ \A s \in Ids(srs) : Fits(srs[s], ast, t)

Gone == dismissed \cup ended \cup dropped \cup astray
Inv2 ==
  /\ Sound(series, copies, astray, now)
  /\ \A x \in Days \ Gone : x > Today => Kept(series, copies, x)

\* The clock of a day to come.
LEMMA DaysToCome ==
  ASSUME now \in Nat
  PROVE  /\ Today \in Nat /\ Today = now \div 2
         /\ \A r \in Slots : Over(r) => r[1] <= Today
         /\ \A r \in Slots : Over(r) <=> Passed(r, now)
<1>1. now \div 2 \in Nat /\ 2 * (now \div 2) <= now /\ now < 2 * (now \div 2) + 2
  OBVIOUS
<1>2. \A r \in Slots : Over(r) => r[1] <= now \div 2
  BY <1>1, SlotParts DEF Over, Days, Clocks
<1> QED
  BY <1>1, <1>2 DEF Today, Over, Passed

\* One member changes; members that join are clock siblings.
Changes(srs, srs2, s) ==
  /\ \A t \in Ids(srs) : t \in Ids(srs2) /\ (t # s => srs2[t] = srs[t])
  /\ srs2[s].from = srs[s].from
  /\ \A t \in Ids(srs2) : t \in Ids(srs) \/ (t # 1 /\ srs2[t].from = 0)

LEMMA MixedStays ==
  ASSUME NEW srs, NEW srs2, NEW s, Changes(srs, srs2, s), Mixed(srs)
  PROVE  Mixed(srs2)
BY DEF Changes, Mixed

\* The copies of the other members stand for the days they stood for.
CopiesOf(cps, cps2, s) ==
  \A c \in cps2 : c.parent = s \/ \E b \in cps : b.parent = c.parent /\ b.day = c.day

\* A day stays kept: it stays held, and the changed member, when it is to come
\* to that day, still is or holds it.
LEMMA KeepingDay ==
  ASSUME NEW srs, NEW cps, NEW srs2, NEW cps2, NEW s \in Ids(srs), NEW x,
         Changes(srs, srs2, s), CopiesOf(cps, cps2, s), Kept(srs, cps, x),
         Held(srs, cps, x) => Held(srs2, cps2, x),
         Awaits(srs, cps, s, x) /\ ~Held(srs, cps, x) =>
           \/ Held(srs2, cps2, x)
           \/ Names(srs2[s], x) /\ (Clean(srs, cps, s, x) => Clean(srs2, cps2, s, x))
  PROVE  Kept(srs2, cps2, x)
<1> SUFFICES ASSUME ~Held(srs2, cps2, x)
             PROVE  Leads(srs2, x) /\ \E t \in Ids(srs2) : Awaits(srs2, cps2, t, x)
  BY DEF Kept
<1>1. PICK t \in Ids(srs) : Leads(srs, x) /\ Awaits(srs, cps, t, x)
  BY DEF Kept
<1>2. Leads(srs2, x)
  <2>1. CASE Mixed(srs2)
    BY <2>1 DEF Leads
  <2>2. CASE ~Mixed(srs2)
    BY <1>1, <2>2, MixedStays DEF Leads, Changes, Mixed
  <2> QED
    BY <2>1, <2>2
<1>3. Names(srs2[t], x) /\ (Clean(srs, cps, t, x) => Clean(srs2, cps2, t, x))
  <2>1. CASE t = s
    BY <1>1, <2>1 DEF Kept
  <2>2. CASE t # s
    BY <1>1, <2>2 DEF Changes, CopiesOf, Clean, Awaits
  <2> QED
    BY <2>1, <2>2
<1>4. srs2[t].from = srs[t].from /\ t \in Ids(srs2)
  BY DEF Changes
<1>5. Awaits(srs2, cps2, t, x)
  BY <1>1, <1>3, <1>4, MixedStays DEF Awaits
<1> QED
  BY <1>2, <1>4, <1>5

\* The others still follow: the member keeps its beginning and ends no later,
\* and what it newly sits on is to come, within its bounds.
LEMMA KeepingLine ==
  ASSUME NEW srs, NEW cps, NEW srs2, NEW s \in Ids(srs), NEW ast,
         Typed(srs, cps), Sound(srs, cps, ast, now), now \in Nat,
         Rewritten(srs, srs2, s), srs2[s].from = srs[s].from, srs2[s].until <= srs[s].until,
         \A r \in srs2[s].rows : \/ r \in srs[s].rows
                                 \/ ~Over(r) /\ srs[s].from <= r[1] /\ r[1] < srs[s].until
  PROVE  Lined(srs2)
<1>1. Ids(srs2) = Ids(srs) /\ \A t \in Ids(srs) \ {s} : srs2[t] = srs[t]
  BY DEF Rewritten, Ids
<1>2. /\ \A t \in Ids(srs) : srs[t] \in SeriesRec /\ srs[t].rows \subseteq Slots /\ srs[t].until \in Int /\ srs[t].from \in Int
      /\ srs2[s].rows \subseteq Slots /\ srs2[s].until \in Int
  <2>1. srs \in Seq(SeriesRec) /\ srs2 \in Seq(SeriesRec)
    BY DEF Typed, Rewritten
  <2>2. \A t \in Ids(srs) : srs[t] \in SeriesRec /\ srs2[t] \in SeriesRec
    BY <1>1, <2>1, Parts
  <2> QED
    BY <2>2 DEF SeriesRec
<1>3. CASE Mixed(srs)
  BY <1>1, <1>3 DEF Mixed, Lined
<1>4. CASE ~Mixed(srs)
  <2>1. ASSUME NEW u \in Ids(srs), NEW t \in Ids(srs), u # t
        PROVE  srs2[u].from # srs2[t].from /\ (srs2[u].from < srs2[t].from => Follows(srs2[u], srs2[t]))
    <3>1. srs[u].from # srs[t].from /\ (srs[u].from < srs[t].from => Follows(srs[u], srs[t]))
      BY <1>4, <2>1 DEF Sound, Lined
    <3>2. srs2[u].from = srs[u].from /\ srs2[t].from = srs[t].from /\ srs2[u].until <= srs[u].until
      BY <1>1, <1>2
    <3> SUFFICES ASSUME srs[u].from < srs[t].from, NEW q \in srs2[u].rows, NEW r \in srs2[t].rows
                 PROVE  2 * q[1] + q[2] < 2 * r[1] + r[2]
      BY <1>1, <1>2, <3>1, <3>2 DEF Follows
    <3>3. /\ q \in Slots /\ r \in Slots
          /\ q[1] \in Int /\ r[1] \in Int /\ q[2] \in {0, 1} /\ r[2] \in {0, 1}
      BY <1>1, <1>2, SlotParts DEF Days, Clocks
    <3>4. srs[u].until <= srs[t].from /\ srs[u].until \in Int /\ srs[t].from \in Int
      BY <1>2, <3>1 DEF Follows
    <3>5. CASE q \in srs[u].rows /\ r \in srs[t].rows
      BY <3>1, <3>5 DEF Follows
    <3>6. CASE u = s /\ q \notin srs[u].rows
      <4>1. r \in srs[t].rows /\ q[1] < srs[u].until
        BY <1>1, <2>1, <3>6
      <4>2. r[1] >= srs[t].from
        BY <4>1 DEF Sound, Ruled
      <4> QED
        BY <3>3, <3>4, <4>1, <4>2
    <3>7. CASE t = s /\ r \notin srs[t].rows
      <4>1. q \in srs[u].rows /\ ~Over(r) /\ srs[t].from <= r[1]
        BY <1>1, <2>1, <3>7
      <4>2. CASE Over(q)
        BY <3>3, <4>1, <4>2 DEF Over
      <4>3. CASE ~Over(q)
        <5>1. q[1] < srs[u].until
          BY <3>3, <4>1, <4>3, DaysToCome DEF Sound, Fits
        <5> QED
          BY <3>3, <3>4, <4>1, <5>1
      <4> QED
        BY <4>2, <4>3
    <3> QED
      BY <1>1, <3>5, <3>6, <3>7
  <2> QED
    BY <1>1, <2>1 DEF Lined
<1> QED
  BY <1>3, <1>4

\* A member loses rows, skips the days of K besides, ends no later, and begins
\* where it did or at the first of its rows to come.
Lesser(me, me2, K) ==
  /\ me2.rule = me.rule /\ me2.from = me.from /\ me2.until <= me.until
  /\ me2.rows \subseteq me.rows /\ me2.skipped = me.skipped \cup K
  /\ \A r \in me2.rows : ~Over(r) => r[1] \notin K /\ (me2.until = me.until \/ r[1] < me2.until)
  /\ me2.anchor = me.anchor \/ \A r \in me2.rows : ~Over(r) => me2.anchor <= r[1]

LEMMA LessIsSound ==
  ASSUME NEW srs, NEW cps, NEW srs2, NEW cps2, NEW s \in Ids(srs), NEW ast, NEW K,
         Typed(srs, cps), Sound(srs, cps, ast, now), now \in Nat,
         Rewritten(srs, srs2, s), Lesser(srs[s], srs2[s], K),
         \A e \in K : e % Week \in srs[s].rule,
         \A c \in cps2 : c.parent \in Ids(srs) /\ c.day % Week \in srs[c.parent].rule
  PROVE  Sound(srs2, cps2, ast, now)
<1>1. Ids(srs2) = Ids(srs) /\ \A t \in Ids(srs) \ {s} : srs2[t] = srs[t]
  BY DEF Rewritten, Ids
<1>2. \A t \in Ids(srs) : srs2[t].rule = srs[t].rule
  BY <1>1 DEF Lesser
<1>3. Ruled(srs2, cps2)
  <2>1. /\ \A r \in srs2[s].rows : r[1] % Week \in srs2[s].rule /\ r[1] >= srs2[s].from
        /\ \A e \in srs2[s].skipped : e % Week \in srs2[s].rule
    BY DEF Lesser, Sound, Ruled
  <2>2. \A c \in cps2 : c.day % Week \in srs2[c.parent].rule
    BY <1>2
  <2>3. \A t \in Ids(srs) \ {s} : /\ \A r \in srs[t].rows : r[1] % Week \in srs[t].rule /\ r[1] >= srs[t].from
                                  /\ \A e \in srs[t].skipped : e % Week \in srs[t].rule
    BY DEF Sound, Ruled
  <2> QED
    BY <1>1, <2>1, <2>2, <2>3 DEF Ruled
<1>4. Lined(srs2)
  BY KeepingLine DEF Lesser
<1>5. Fits(srs2[s], ast, now)
  <2>1. Fits(srs[s], ast, now)
    BY DEF Sound
  <2>2. srs[s].rows \subseteq Slots
    BY Parts DEF Typed
  <2> SUFFICES ASSUME NEW r \in srs2[s].rows, ~Passed(r, now)
               PROVE  /\ r[1] < (now \div 2) + Horizon /\ r[1] < srs2[s].until /\ r[1] \notin srs2[s].skipped
                      /\ r[1] >= StartDay(srs2[s]) \/ r[1] \in ast
    BY DEF Fits
  <2>3. r \in srs[s].rows /\ ~Over(r)
    BY <2>2, DaysToCome DEF Lesser
  <2>4. /\ r[1] < (now \div 2) + Horizon /\ r[1] < srs[s].until /\ r[1] \notin srs[s].skipped
        /\ r[1] >= StartDay(srs[s]) \/ r[1] \in ast
    BY <2>1, <2>3 DEF Fits
  <2>5. r[1] >= srs[s].from
    BY <2>3 DEF Sound, Ruled
  <2>6. r[1] < srs2[s].until /\ r[1] \notin srs2[s].skipped
    BY <2>3, <2>4 DEF Lesser
  <2>7. r[1] >= StartDay(srs2[s]) \/ r[1] \in ast
    <3>1. r[1] \in Int /\ srs2[s].anchor \in Int
      <4>1. srs2[s] \in SeriesRec /\ r \in Slots
        BY <1>1, <2>2, <2>3, Parts DEF Rewritten
      <4> QED
        BY <4>1, SlotParts DEF SeriesRec, Days
    <3> QED
      BY <2>3, <2>4, <2>5, <3>1 DEF Lesser, StartDay
  <2> QED
    BY <2>4, <2>6, <2>7
<1> QED
  BY <1>1, <1>3, <1>4, <1>5 DEF Sound

\* A day stays kept when the member still names it and skips no later day.
LEMMA LessKeepsDay ==
  ASSUME NEW srs, NEW cps, NEW srs2, NEW cps2, NEW s \in Ids(srs), NEW K, NEW x \in Days,
         Rewritten(srs, srs2, s), Lesser(srs[s], srs2[s], K),
         CopiesOf(cps, cps2, s), Kept(srs, cps, x),
         Held(srs, cps, x) => Held(srs2, cps2, x),
         Names(srs[s], x) /\ ~Held(srs, cps, x) => x \notin K /\ x < srs2[s].until,
         Clean(srs, cps, s, x) =>
           /\ \A e \in K : e <= x
           /\ \A c \in cps2 : c.parent = s => c.day <= x
           /\ srs2[s].anchor = srs[s].anchor \/ srs2[s].anchor <= x \/ ~Names(srs[s], x) \/ Held(srs, cps, x)
  PROVE  Kept(srs2, cps2, x)
<1>1. Changes(srs, srs2, s)
  BY DEF Rewritten, Changes, Ids, Lesser
<1>2. ASSUME Awaits(srs, cps, s, x), ~Held(srs, cps, x)
      PROVE  Names(srs2[s], x) /\ (Clean(srs, cps, s, x) => Clean(srs2, cps2, s, x))
  <2>1. x >= StartDay(srs2[s])
    BY <1>2 DEF Awaits, Names, StartDay, Lesser
  <2>2. Names(srs2[s], x)
    BY <1>2, <2>1 DEF Awaits, Names, Lesser
  <2>3. Clean(srs, cps, s, x) => Clean(srs2, cps2, s, x)
    BY DEF Clean, Lesser
  <2> QED
    BY <2>2, <2>3
<1> QED
  BY <1>1, <1>2, KeepingDay

\* Refreshing shows the first row to come.
LEMMA RefreshedFirst ==
  ASSUME NEW me \in SeriesRec
  PROVE  /\ Refreshed(me).rule = me.rule /\ Refreshed(me).from = me.from
         /\ \/ Refreshed(me).anchor = me.anchor
            \/ /\ \E r \in me.rows : r[1] = Refreshed(me).anchor
               /\ \A r \in me.rows : ~Over(r) => Refreshed(me).anchor <= r[1]
<1>1. CASE OpenRows(me.rows) = {}
  BY <1>1 DEF Refreshed
<1>2. CASE OpenRows(me.rows) # {}
  <2> DEFINE q == First(OpenRows(me.rows))
  <2>1. OpenRows(me.rows) \in SUBSET Slots
    BY DEF SeriesRec, OpenRows
  <2>2. q \in OpenRows(me.rows) /\ \A r \in OpenRows(me.rows) : q[1] <= r[1]
    BY <1>2, <2>1, FirstRow
  <2> HIDE DEF q
  <2>3. Refreshed(me) = [me EXCEPT !.anchor = q[1], !.clock = q[2]]
    BY <1>2 DEF Refreshed, q
  <2>4. Refreshed(me).anchor = q[1] /\ Refreshed(me).rule = me.rule /\ Refreshed(me).from = me.from
    BY <2>3 DEF SeriesRec
  <2> QED
    BY <2>2, <2>4 DEF OpenRows
<1> QED
  BY <1>1, <1>2

\* The step leaves the clock alone, the group in order and every day kept.
LEMMA StaysSound ==
  ASSUME now' = now, Sound(series', copies', astray', now),
         \A x \in Days \ Gone' : x > Today => Kept(series', copies', x)
  PROVE  Inv2'
BY DEF Inv2, Today

\* What the invariants say, for the steps below.
LEMMA Given ==
  ASSUME Inv, Inv2
  PROVE  /\ now \in Nat /\ Typed(series, copies) /\ series \in Seq(SeriesRec)
         /\ Sound(series, copies, astray, now) /\ Ruled(series, copies)
         /\ \A x \in Days \ Gone : x > Today => Kept(series, copies, x)
         /\ \A s \in Ids(series) : /\ series[s] \in SeriesRec /\ series[s].rows \subseteq Slots
                                   /\ \A r \in series[s].rows : r[1] % Week \in series[s].rule
                                   /\ \A r \in series[s].rows : ~Over(r) => r[1] < series[s].until
         /\ \A c \in copies : c.parent \in Ids(series) /\ c.day % Week \in series[c.parent].rule
<1>1. now \in Nat /\ Typed(series, copies) /\ series \in Seq(SeriesRec)
  BY MembersAreSeries DEF Inv, Typed
<1>2. Sound(series, copies, astray, now) /\ Ruled(series, copies)
  BY DEF Inv2, Sound
<1>3. ASSUME NEW s \in Ids(series)
      PROVE  /\ series[s] \in SeriesRec /\ series[s].rows \subseteq Slots
             /\ \A r \in series[s].rows : r[1] % Week \in series[s].rule
             /\ \A r \in series[s].rows : ~Over(r) => r[1] < series[s].until
  BY <1>1, <1>2, Parts, DaysToCome DEF Sound, Fits, Ruled
<1>4. \A c \in copies : c.parent \in Ids(series) /\ c.day % Week \in series[c.parent].rule
  BY <1>2, MembersAreSeries DEF Ruled
<1> QED
  BY <1>1, <1>2, <1>3, <1>4 DEF Inv2

LEMMA GoneGrows ==
  ASSUME dismissed \subseteq dismissed', ended \subseteq ended', dropped \subseteq dropped', astray \subseteq astray'
  PROVE  Gone \subseteq Gone'
BY DEF Gone

\* The step has one member lose rows.
LEMMA LessHere ==
  ASSUME Inv, Inv2, NEW s \in Ids(series), NEW K, Rewritten(series, series', s),
         Lesser(series[s], series'[s], K), UNCHANGED <<now, astray>>,
         \A e \in K : e % Week \in series[s].rule,
         \A c \in copies' : c.parent \in Ids(series) /\ c.day % Week \in series[c.parent].rule
  PROVE  Sound(series', copies', astray', now)
<1>1. PICK srs2, cps2 : srs2 = series' /\ cps2 = copies'
  OBVIOUS
<1>2. Typed(series, copies) /\ Sound(series, copies, astray, now) /\ now \in Nat
  BY Given
<1>3. Rewritten(series, srs2, s) /\ Lesser(series[s], srs2[s], K)
      /\ \A c \in cps2 : c.parent \in Ids(series) /\ c.day % Week \in series[c.parent].rule
  BY <1>1
<1>4. \A e \in K : e % Week \in series[s].rule
  OBVIOUS
<1>5. Sound(srs2, cps2, astray, now)
  BY <1>2, <1>3, <1>4, LessIsSound
<1> QED
  BY <1>1, <1>5

\* What skipping a day, and ending a series, leave alone.
LEMMA Frame ==
  ASSUME NEW me \in SeriesRec, NEW d \in Days
  PROVE  /\ Skipping(me, d).rule = me.rule /\ Skipping(me, d).from = me.from
         /\ Skipping(me, d).until = me.until /\ Skipping(me, d).anchor = me.anchor
         /\ EndedAt(me, d).rule = me.rule /\ EndedAt(me, d).from = me.from
         /\ EndedAt(me, d).anchor = me.anchor
         /\ EndedAt(me, d).until = (IF me.until > d THEN d ELSE me.until)
         /\ EndedAt(me, d).rows = me.rows \ RowsFrom(OpenRows(me.rows), d)
BY DEF SeriesRec, Skipping, EndedAt

LEMMA Skips ==
  ASSUME NEW me \in SeriesRec, NEW d \in Days
  PROVE  Lesser(me, Skipping(me, d), {d}) /\ Lesser(me, Refreshed(Skipping(me, d)), {d})
<1>1. PICK e : e = Skipping(me, d)
  OBVIOUS
<1>2. /\ e \in SeriesRec /\ e.rows = me.rows \ RowsOn(OpenRows(me.rows), d)
      /\ e.skipped = me.skipped \cup {d}
  BY <1>1, SkippingDay
<1>3. e.rule = me.rule /\ e.from = me.from /\ e.until = me.until /\ e.anchor = me.anchor
  BY <1>1, Frame
<1>4. me.until \in Int
  BY DEF SeriesRec
<1>5. \A r \in e.rows : ~Over(r) => r[1] # d
  BY <1>2 DEF RowsOn, OpenRows
<1>6. Lesser(me, e, {d})
  BY <1>2, <1>3, <1>4, <1>5 DEF Lesser
<1>7. Lesser(me, Refreshed(e), {d})
  BY <1>2, <1>3, <1>4, <1>5, Refreshing, RefreshedFirst DEF Lesser
<1> QED
  BY <1>1, <1>6, <1>7

LEMMA Ends ==
  ASSUME NEW me \in SeriesRec, NEW d \in Days,
         \A r \in me.rows : ~Over(r) => r[1] < me.until
  PROVE  Lesser(me, EndedAt(me, d), {}) /\ Lesser(me, Refreshed(EndedAt(me, d)), {})
<1>1. PICK e : e = EndedAt(me, d)
  OBVIOUS
<1>2. /\ e \in SeriesRec /\ e.rows = me.rows \ RowsFrom(OpenRows(me.rows), d)
      /\ e.skipped = me.skipped
  BY <1>1, EndingAt, Frame
<1>3. e.rule = me.rule /\ e.from = me.from /\ e.anchor = me.anchor
      /\ e.until = (IF me.until > d THEN d ELSE me.until)
  BY <1>1, Frame
<1>4. me.until \in Int /\ d \in Int /\ \A r \in me.rows : r[1] \in Int
  BY SlotParts DEF SeriesRec, Days
<1>5. \A r \in e.rows : ~Over(r) => r[1] < e.until
  BY <1>2, <1>3, <1>4 DEF RowsFrom, OpenRows
<1>6. Lesser(me, e, {})
  BY <1>2, <1>3, <1>4, <1>5 DEF Lesser
<1>7. Lesser(me, Refreshed(e), {})
  BY <1>2, <1>3, <1>4, <1>5, Refreshing, RefreshedFirst DEF Lesser
<1> QED
  BY <1>1, <1>6, <1>7

LEMMA EndFromDays ==
  ASSUME Inv, Inv2, NEW s \in Ids(series), NEW d \in Days, EndFrom(s, d)
  PROVE  Inv2'
<1> DEFINE me  == series[s]
           me2 == Refreshed(EndedAt(series[s], d))
<1>1. me \in SeriesRec /\ \A r \in me.rows : ~Over(r) => r[1] < me.until
  BY Given
<1>2. Lesser(me, me2, {})
  BY <1>1, Ends
<1>3. /\ EndedAt(me, d) \in SeriesRec /\ me2 \in SeriesRec
      /\ EndedAt(me, d).rows = me.rows \ RowsFrom(OpenRows(me.rows), d)
      /\ EndedAt(me, d).until = (IF me.until > d THEN d ELSE me.until)
      /\ me2.rows = EndedAt(me, d).rows /\ me2.until = EndedAt(me, d).until
  BY <1>1, EndingAt, Refreshing, Frame
<1>4. me2.anchor = me.anchor \/ \E r \in me.rows : r[1] = me2.anchor
  BY <1>1, <1>3, RefreshedFirst, Frame
<1>5. /\ series' = [series EXCEPT ![s] = me2] /\ UNCHANGED <<copies, now, dismissed, dropped, astray>>
      /\ ended' = ended \cup {x \in Days : d <= x /\ x < me.until}
  BY Given DEF EndFrom
<1> HIDE DEF me2
<1>6. Rewritten(series, series', s) /\ series'[s] = me2
  <2>1. series \in Seq(SeriesRec) /\ me2 \in SeriesRec /\ series' = [series EXCEPT ![s] = me2]
    BY <1>3, <1>5, Given
  <2> QED
    BY <2>1, Rewriting
<1>7. Sound(series', copies', astray', now)
  <2>1. \A c \in copies' : c.parent \in Ids(series) /\ c.day % Week \in series[c.parent].rule
    BY <1>5, Given
  <2>2. Lesser(series[s], series'[s], {}) /\ (\A e \in {} : e % Week \in series[s].rule)
    BY <1>2, <1>6
  <2>3. now' = now /\ astray' = astray /\ Rewritten(series, series', s)
    BY <1>5, <1>6
  <2>4. PICK K : K = {}
    OBVIOUS
  <2>5. Lesser(series[s], series'[s], K) /\ (\A e \in K : e % Week \in series[s].rule)
    BY <2>2, <2>4
  <2> HIDE DEF me
  <2> QED
    BY <2>1, <2>3, <2>5, LessHere
<1>8. ASSUME NEW x \in Days \ Gone', x > Today PROVE Kept(series', copies', x)
  <2>1. x \notin ended' /\ Kept(series, copies, x)
    BY <1>5, <1>8, Given, GoneGrows DEF Gone
  <2>2. me.until \in Int /\ d \in Int /\ x \in Int /\ \A r \in me.rows : r[1] \in Int
    BY <1>1, SlotParts DEF SeriesRec, Days
  <2>3. Names(me, x) => x < me2.until
    BY <1>3, <1>5, <2>1, <2>2 DEF Names
  <2>4. Held(series, copies, x) => Held(series', copies', x)
    <3>1. ASSUME NEW r \in me.rows, r[1] = x PROVE r \in me2.rows
      <4>1. ~Over(r) => x < me.until
        BY <1>1, <3>1
      <4> QED
        BY <1>3, <1>5, <2>1, <2>2, <3>1, <4>1 DEF RowsFrom, OpenRows
    <3> QED
      BY <1>5, <1>6, <3>1 DEF Held, Rowed, Rewritten, Ids
  <2>5. CopiesOf(copies, copies', s)
    BY <1>5 DEF CopiesOf
  <2>6. Clean(series, copies, s, x) =>
           (\A c \in copies' : c.parent = s => c.day <= x) /\ (me2.anchor = me.anchor \/ me2.anchor <= x)
    BY <1>4, <1>5 DEF Clean
  <2> QED
    BY <1>2, <1>6, <2>1, <2>3, <2>4, <2>5, <2>6, LessKeepsDay
<1> QED
  BY <1>5, <1>7, <1>8, StaysSound DEF EndFrom

\* A series that gives up the row of a day: other days stay held.
LEMMA HeldElsewhere ==
  ASSUME NEW srs, NEW srs2, NEW cps, NEW cps2, NEW s \in Ids(srs), NEW d, NEW x, x # d,
         Rewritten(srs, srs2, s),
         \A r \in srs[s].rows : r[1] # d => r \in srs2[s].rows,
         \A c \in cps : c.day # d => \E b \in cps2 : b.day = c.day,
         Held(srs, cps, x)
  PROVE  Held(srs2, cps2, x)
<1>1. CASE Copied(cps, x)
  BY <1>1 DEF Held, Copied
<1>2. CASE Rowed(srs, x)
  <2>1. PICK t \in Ids(srs) : \E r \in srs[t].rows : r[1] = x
    BY <1>2 DEF Rowed
  <2>2. t \in Ids(srs2) /\ \E r \in srs2[t].rows : r[1] = x
    BY <2>1 DEF Rewritten, Ids
  <2> QED
    BY <2>2 DEF Held, Rowed
<1> QED
  BY <1>1, <1>2 DEF Held

LEMMA SkipDayDays ==
  ASSUME Inv, Inv2, NEW s \in Ids(series), NEW d \in Days, SkipDay(s, d)
  PROVE  Inv2'
<1> DEFINE me == series[s]
<1>1. PICK me2 : me2 = Refreshed(Skipping(me, d))
  OBVIOUS
<1>2. me \in SeriesRec /\ Lesser(me, me2, {d})
  BY <1>1, Given, Skips
<1>3. me2 \in SeriesRec /\ me2.rows = me.rows \ RowsOn(OpenRows(me.rows), d)
  BY <1>1, <1>2, SkippingDay, Refreshing
<1>4. me2.anchor = me.anchor \/ \E r \in me.rows : r[1] = me2.anchor
  <2>1. PICK e : e = Skipping(me, d)
    OBVIOUS
  <2>2. e \in SeriesRec /\ e.anchor = me.anchor /\ e.rows \subseteq me.rows
    BY <1>2, <2>1, SkippingDay, Frame
  <2> QED
    BY <1>1, <2>1, <2>2, RefreshedFirst
<1>5. /\ series' = [series EXCEPT ![s] = me2] /\ UNCHANGED <<copies, now, ended, dropped, astray>>
      /\ dismissed' = dismissed \cup {d} /\ \E r \in me.rows : r[1] = d
  <2>1. series' = [series EXCEPT ![s] = me2]
    BY <1>1 DEF SkipDay
  <2>2. RowsOn(OpenRows(me.rows), d) # {}
    BY DEF SkipDay
  <2> QED
    BY <2>1, <2>2 DEF SkipDay, RowsOn, OpenRows
<1>6. Rewritten(series, series', s) /\ series'[s] = me2
  <2>1. series \in Seq(SeriesRec) /\ me2 \in SeriesRec /\ series' = [series EXCEPT ![s] = me2]
    BY <1>3, <1>5, Given
  <2> QED
    BY <2>1, Rewriting
<1>7. d % Week \in me.rule
  BY <1>5, Given
<1>8. Sound(series', copies', astray', now)
  <2>1. \A c \in copies' : c.parent \in Ids(series) /\ c.day % Week \in series[c.parent].rule
    BY <1>5, Given
  <2>2. Lesser(series[s], series'[s], {d}) /\ (\A e \in {d} : e % Week \in series[s].rule)
    BY <1>2, <1>6, <1>7
  <2>3. now' = now /\ astray' = astray /\ Rewritten(series, series', s)
    BY <1>5, <1>6
  <2>4. PICK K : K = {d}
    OBVIOUS
  <2>5. Lesser(series[s], series'[s], K) /\ (\A e \in K : e % Week \in series[s].rule)
    BY <2>2, <2>4
  <2> HIDE DEF me
  <2> QED
    BY <2>1, <2>3, <2>5, LessHere
<1>9. ASSUME NEW x \in Days \ Gone', x > Today PROVE Kept(series', copies', x)
  <2>1. x # d /\ Kept(series, copies, x)
    BY <1>5, <1>9, Given, GoneGrows DEF Gone
  <2>2. Held(series, copies, x) => Held(series', copies', x)
    <3>1. \A r \in me.rows : r[1] # d => r \in me2.rows
      BY <1>3 DEF RowsOn
    <3> QED
      BY <1>5, <1>6, <2>1, <3>1, HeldElsewhere
  <2>3. CopiesOf(copies, copies', s)
    BY <1>5 DEF CopiesOf
  <2>4. Clean(series, copies, s, x) =>
           /\ d <= x /\ (\A c \in copies' : c.parent = s => c.day <= x)
           /\ (me2.anchor = me.anchor \/ me2.anchor <= x)
    BY <1>4, <1>5 DEF Clean
  <2>5. Names(me, x) => x < me2.until
    BY <1>1, <1>2, SkippingDay, Refreshing, Frame DEF Names
  <2> QED
    BY <1>2, <1>6, <2>1, <2>2, <2>3, <2>4, <2>5, LessKeepsDay
<1> QED
  BY <1>5, <1>8, <1>9, StaysSound DEF SkipDay

LEMMA SkipCopyDays ==
  ASSUME Inv, Inv2, NEW c \in copies, SkipCopy(c)
  PROVE  Inv2'
<1> DEFINE s == c.parent
           d == c.day
           me == series[s]
<1>0. s \in Ids(series) /\ d \in Days
  BY MembersAreSeries DEF CopyShape
<1>1. PICK me2 : me2 = Refreshed(Skipping(me, d))
  OBVIOUS
<1>2. me \in SeriesRec /\ Lesser(me, me2, {d})
  BY <1>0, <1>1, Given, Skips
<1>3. me2 \in SeriesRec /\ me2.rows = me.rows \ RowsOn(OpenRows(me.rows), d)
  BY <1>0, <1>1, <1>2, SkippingDay, Refreshing
<1>4. me2.anchor = me.anchor \/ \E r \in me.rows : r[1] = me2.anchor
  <2>1. PICK e : e = Skipping(me, d)
    OBVIOUS
  <2>2. e \in SeriesRec /\ e.anchor = me.anchor /\ e.rows \subseteq me.rows
    BY <1>0, <1>2, <2>1, SkippingDay, Frame
  <2> QED
    BY <1>1, <2>1, <2>2, RefreshedFirst
<1>5. /\ series' = [series EXCEPT ![s] = me2] /\ UNCHANGED <<now, ended, dropped, astray>>
      /\ copies' = copies \ {c} /\ dismissed' = dismissed \cup {d}
  <2>1. series' = [series EXCEPT ![s] = me2]
    BY <1>1 DEF SkipCopy
  <2> QED
    BY <2>1 DEF SkipCopy
<1>6. Rewritten(series, series', s) /\ series'[s] = me2
  <2>1. /\ series \in Seq(SeriesRec) /\ me2 \in SeriesRec /\ series' = [series EXCEPT ![s] = me2]
        /\ s \in Ids(series)
    BY <1>0, <1>3, <1>5, Given
  <2> HIDE DEF s, d
  <2> QED
    BY <2>1, Rewriting
<1>7. d % Week \in me.rule
  BY Given
<1>8. Sound(series', copies', astray', now)
  <2>1. \A b \in copies' : b.parent \in Ids(series) /\ b.day % Week \in series[b.parent].rule
    BY <1>5, Given
  <2>2. Lesser(series[s], series'[s], {d}) /\ (\A e \in {d} : e % Week \in series[s].rule)
    BY <1>2, <1>6, <1>7
  <2>3. now' = now /\ astray' = astray /\ Rewritten(series, series', s)
    BY <1>5, <1>6
  <2>4. PICK K : K = {d}
    OBVIOUS
  <2>5. Lesser(series[s], series'[s], K) /\ (\A e \in K : e % Week \in series[s].rule)
    BY <2>2, <2>4
  <2> HIDE DEF s, d, me
  <2> QED
    BY <1>0, <2>1, <2>3, <2>5, LessHere
<1>9. ASSUME NEW x \in Days \ Gone', x > Today PROVE Kept(series', copies', x)
  <2>1. x # d /\ Kept(series, copies, x)
    BY <1>5, <1>9, Given, GoneGrows DEF Gone
  <2>2. Held(series, copies, x) => Held(series', copies', x)
    <3>1. \A r \in me.rows : r[1] # d => r \in me2.rows
      BY <1>3 DEF RowsOn
    <3>2. \A b \in copies : b.day # d => \E e \in copies' : e.day = b.day
      BY <1>5
    <3> HIDE DEF s, d
    <3> QED
      BY <1>0, <1>6, <2>1, <3>1, <3>2, HeldElsewhere
  <2>3. CopiesOf(copies, copies', s)
    BY <1>5 DEF CopiesOf
  <2>4. Clean(series, copies, s, x) =>
           /\ d <= x /\ (\A b \in copies' : b.parent = s => b.day <= x)
           /\ (me2.anchor = me.anchor \/ me2.anchor <= x)
    BY <1>4, <1>5 DEF Clean
  <2>5. Names(me, x) => x < me2.until
    BY <1>0, <1>1, <1>2, SkippingDay, Refreshing, Frame DEF Names
  <2> HIDE DEF s, d
  <2> QED
    BY <1>0, <1>2, <1>6, <2>1, <2>2, <2>3, <2>4, <2>5, LessKeepsDay
<1> QED
  BY <1>5, <1>8, <1>9, StaysSound DEF SkipCopy

\* A day stays kept, in a step that has a member lose rows.
StaysKept(s, K, x) ==
  \/ Held(series', copies', x)
  \/ /\ Held(series, copies, x) => Held(series', copies', x)
     /\ Names(series[s], x) /\ ~Held(series, copies, x) => x \notin K /\ x < series'[s].until
     /\ Clean(series, copies, s, x) =>
          /\ \A e \in K : e <= x
          /\ \A c \in copies' : c.parent = s => c.day <= x
          /\ \/ series'[s].anchor = series[s].anchor \/ series'[s].anchor <= x
             \/ ~Names(series[s], x) \/ Held(series, copies, x)

LEMMA LessDays ==
  ASSUME Inv, Inv2, NEW s \in Ids(series), NEW K, Rewritten(series, series', s),
         Lesser(series[s], series'[s], K), now' = now, astray' = astray, Gone \subseteq Gone',
         \A e \in K : e % Week \in series[s].rule,
         \A c \in copies' : c.parent \in Ids(series) /\ c.day % Week \in series[c.parent].rule,
         CopiesOf(copies, copies', s),
         \A x \in Days \ Gone' : x > Today => StaysKept(s, K, x)
  PROVE  Inv2'
<1>1. Sound(series', copies', astray', now)
  BY LessHere
<1>2. ASSUME NEW x \in Days \ Gone', x > Today PROVE Kept(series', copies', x)
  <2>1. Kept(series, copies, x) /\ StaysKept(s, K, x) /\ x \in Days
    BY <1>2 DEF Inv2
  <2>2. CASE Held(series', copies', x)
    BY <2>2 DEF Kept
  <2>3. CASE ~Held(series', copies', x)
    <3>1. PICK srs2, cps2 : srs2 = series' /\ cps2 = copies'
      OBVIOUS
    <3>2. /\ Rewritten(series, srs2, s) /\ Lesser(series[s], srs2[s], K) /\ CopiesOf(copies, cps2, s)
          /\ Held(series, copies, x) => Held(srs2, cps2, x)
          /\ Names(series[s], x) /\ ~Held(series, copies, x) => x \notin K /\ x < srs2[s].until
          /\ Clean(series, copies, s, x) =>
               /\ \A e \in K : e <= x
               /\ \A c \in cps2 : c.parent = s => c.day <= x
               /\ \/ srs2[s].anchor = series[s].anchor \/ srs2[s].anchor <= x
                  \/ ~Names(series[s], x) \/ Held(series, copies, x)
      BY <2>1, <2>3, <3>1 DEF StaysKept
    <3>3. Kept(srs2, cps2, x)
      BY <2>1, <3>2, LessKeepsDay
    <3> QED
      BY <3>1, <3>3
  <2> QED
    BY <2>2, <2>3
<1> QED
  BY <1>1, <1>2, StaysSound

LEMMA HeldElsewhereHere ==
  ASSUME NEW s \in Ids(series), NEW d, NEW x, x # d, Rewritten(series, series', s),
         \A r \in series[s].rows : r[1] # d => r \in series'[s].rows,
         \A c \in copies : c.day # d => \E b \in copies' : b.day = c.day
  PROVE  Held(series, copies, x) => Held(series', copies', x)
<1> SUFFICES ASSUME Held(series, copies, x) PROVE Held(series', copies', x)
  OBVIOUS
<1>1. CASE Copied(copies, x)
  BY <1>1 DEF Held, Copied
<1>2. CASE Rowed(series, x)
  <2>1. PICK t \in Ids(series) : \E r \in series[t].rows : r[1] = x
    BY <1>2 DEF Rowed
  <2>2. t \in Ids(series') /\ \E r \in series'[t].rows : r[1] = x
    BY <2>1 DEF Rewritten, Ids
  <2> QED
    BY <2>2 DEF Held, Rowed
<1> QED
  BY <1>1, <1>2 DEF Held

LEMMA LessSelf ==
  ASSUME Inv, NEW s \in Ids(series), series' = series
  PROVE  Rewritten(series, series', s) /\ Lesser(series[s], series'[s], {})
<1>1. series[s] \in SeriesRec /\ series \in Seq(SeriesRec)
  BY MembersAreSeries DEF Inv, Typed
<1>2. series[s].until \in Int
  BY <1>1 DEF SeriesRec
<1> QED
  BY <1>1, <1>2 DEF Rewritten, Lesser

LEMMA DeleteCopyDays ==
  ASSUME Inv, Inv2, NEW c \in copies, DeleteCopy(c)
  PROVE  Inv2'
<1>1. PICK s, K : s = c.parent /\ K = {}
  OBVIOUS
<1>2. s \in Ids(series)
  BY <1>1, MembersAreSeries
<1>3. series' = series /\ now' = now /\ astray' = astray /\ copies' = copies \ {c}
      /\ Gone \subseteq Gone' /\ c.day \in Gone'
  BY DEF DeleteCopy, Gone
<1>4. Rewritten(series, series', s) /\ Lesser(series[s], series'[s], K)
  BY <1>1, <1>2, <1>3, LessSelf
<1>5. \A b \in copies' : b.parent \in Ids(series) /\ b.day % Week \in series[b.parent].rule
  BY <1>3, Given
<1>6. CopiesOf(copies, copies', s)
  BY <1>3 DEF CopiesOf
<1>7. ASSUME NEW x \in Days \ Gone', x > Today PROVE StaysKept(s, K, x)
  <2>1. Held(series, copies, x) => Held(series', copies', x)
    BY <1>3, <1>7 DEF Held, Copied
  <2>2. Clean(series, copies, s, x) => \A b \in copies' : b.parent = s => b.day <= x
    BY <1>3 DEF Clean
  <2> QED
    BY <1>1, <1>3, <2>1, <2>2 DEF StaysKept, Names
<1> QED
  <2>1. \A e \in K : e % Week \in series[s].rule
    BY <1>1
  <2> QED
    BY <1>2, <1>3, <1>4, <1>5, <1>6, <1>7, <2>1, LessDays

LEMMA PurgeDays ==
  ASSUME Inv, Inv2, Purge
  PROVE  Inv2'
<1>1. PICK s, K : s = 1 /\ K = {}
  OBVIOUS
<1>2. s \in Ids(series)
  BY <1>1, LenProperties DEF Inv, Typed, Ids
<1>3. series' = series /\ now' = now /\ astray' = astray /\ Gone \subseteq Gone'
      /\ copies' = copies \ {c \in copies : c.slot = NoSlot /\ c.day < Today}
  BY DEF Purge, Gone
<1>4. Rewritten(series, series', s) /\ Lesser(series[s], series'[s], K)
  BY <1>1, <1>2, <1>3, LessSelf
<1>5. \A b \in copies' : b.parent \in Ids(series) /\ b.day % Week \in series[b.parent].rule
  BY <1>3, Given
<1>6. CopiesOf(copies, copies', s)
  BY <1>3 DEF CopiesOf
<1>7. ASSUME NEW x \in Days \ Gone', x > Today PROVE StaysKept(s, K, x)
  <2>1. Held(series, copies, x) => Held(series', copies', x)
    <3>1. x \in Int /\ Today \in Int
      BY MembersAreSeries, DaysToCome DEF Days
    <3>2. \A b \in copies : b.day = x => b \in copies'
      BY <1>3, <1>7, <3>1
    <3> QED
      BY <1>3, <3>2 DEF Held, Copied
  <2>2. Clean(series, copies, s, x) => \A b \in copies' : b.parent = s => b.day <= x
    BY <1>3 DEF Clean
  <2> QED
    BY <1>1, <1>3, <2>1, <2>2 DEF StaysKept, Names
<1> QED
  BY <1>1, <1>2, <1>3, <1>4, <1>5, <1>6, <1>7, LessDays

LEMMA TickDays ==
  ASSUME Inv, Inv2, Tick
  PROVE  Inv2'
<1>1. now \in Nat /\ now' = now + 1 /\ UNCHANGED <<series, copies, dismissed, ended, dropped, astray>>
  BY MembersAreSeries DEF Tick
<1>2. (now + 1) \div 2 >= now \div 2 /\ now \div 2 \in Int /\ (now + 1) \div 2 \in Int /\ Horizon \in Int
  BY <1>1, SeriesAssumption
<1>3. ASSUME NEW s \in Ids(series) PROVE Fits(series[s], astray, now + 1)
  <2>1. Fits(series[s], astray, now) /\ series[s].rows \subseteq Slots
    BY Given DEF Sound
  <2>2. \A r \in series[s].rows : r[1] \in Int /\ r[2] \in Int
    BY <2>1, SlotParts DEF Days, Clocks
  <2>3. \A r \in series[s].rows : ~Passed(r, now + 1) => ~Passed(r, now)
    BY <1>1, <2>2 DEF Passed
  <2>4. ASSUME NEW r \in series[s].rows, ~Passed(r, now + 1)
        PROVE  /\ r[1] < ((now + 1) \div 2) + Horizon /\ r[1] < series[s].until /\ r[1] \notin series[s].skipped
               /\ r[1] >= StartDay(series[s]) \/ r[1] \in astray
    BY <1>2, <2>1, <2>2, <2>3, <2>4 DEF Fits
  <2> QED
    BY <2>4 DEF Fits
<1>4. Sound(series', copies', astray', now')
  BY <1>1, <1>3 DEF Inv2, Sound
<1>5. ASSUME NEW x \in Days \ Gone', x > Today' PROVE Kept(series', copies', x)
  <2>1. x \notin Gone
    BY <1>1, <1>5 DEF Gone
  <2>2. x > Today
    BY <1>1, <1>2, <1>5 DEF Today, Days
  <2> QED
    BY <1>1, <2>1, <2>2 DEF Inv2
<1> QED
  BY <1>4, <1>5 DEF Inv2

LEMMA SaveClockDays ==
  ASSUME Inv, Inv2, NEW s \in Ids(series), NEW d \in Days, NEW k \in Clocks, SaveClock(s, d, k)
  PROVE  Inv2'
<1> DEFINE open == OpenRows(series[s].rows)
           a    == IF open = {} THEN d ELSE First(open)[1]
           me   == [series[s] EXCEPT !.clock = k, !.anchor = a]
<1>1. series \in Seq(SeriesRec) /\ series[s] \in SeriesRec /\ series[s].rows \subseteq Slots
  BY Given
<1>2. open # {} => /\ First(open) \in series[s].rows /\ a \in Days /\ a = First(open)[1]
                   /\ \A r \in open : a <= r[1]
  <2>1. open \in SUBSET Slots /\ open \subseteq series[s].rows
    BY <1>1 DEF OpenRows
  <2>2. open # {} => First(open) \in open /\ \A q \in open : First(open)[1] <= q[1]
    BY <2>1, FirstRow
  <2> HIDE DEF open
  <2> QED
    BY <2>1, <2>2, SlotParts
<1>3. a \in Days /\ (open = {} => a = d) /\ \A r \in series[s].rows : ~Over(r) => a <= r[1]
  BY <1>2 DEF OpenRows
<1>4. series' = [series EXCEPT ![s].clock = k, ![s].anchor = a]
  BY DEF SaveClock
<1> HIDE DEF a
<1>5. /\ me \in SeriesRec /\ me.rows = series[s].rows /\ me.skipped = series[s].skipped
      /\ me.rule = series[s].rule /\ me.from = series[s].from /\ me.until = series[s].until /\ me.anchor = a
  <2>1. me \in SeriesRec
    BY <1>1, <1>3 DEF SeriesRec
  <2> QED
    BY <1>1, <2>1 DEF SeriesRec
<1>6. series' = [series EXCEPT ![s] = me]
  BY <1>1, <1>4
<1> HIDE DEF me
<1>7. Rewritten(series, series', s) /\ series'[s] = me
  BY <1>1, <1>5, <1>6, Rewriting
<1>8. PICK K : K = {}
  OBVIOUS
<1>9. series[s].until \in Int
  BY <1>1 DEF SeriesRec
<1>10. Lesser(series[s], series'[s], K)
  BY <1>3, <1>5, <1>7, <1>8, <1>9 DEF Lesser
<1>11. /\ copies' = copies /\ now' = now /\ astray' = astray /\ Gone \subseteq Gone'
       /\ dropped' = dropped \cup PassedOver(s, d) /\ dropped' \subseteq Gone'
  BY DEF SaveClock, Gone
<1>12. /\ \A c \in copies' : c.parent \in Ids(series) /\ c.day % Week \in series[c.parent].rule
       /\ CopiesOf(copies, copies', s)
  BY <1>11, Given DEF CopiesOf
<1>13. ASSUME NEW x \in Days \ Gone', x > Today PROVE StaysKept(s, K, x)
  <2>1. Held(series, copies, x) => Held(series', copies', x)
    <3>1. \A t \in Ids(series) : t \in Ids(series') /\ series'[t].rows = series[t].rows
      BY <1>5, <1>7 DEF Rewritten, Ids
    <3> QED
      BY <1>11, <3>1 DEF Held, Rowed
  <2>2. Names(series[s], x) => x < series'[s].until
    BY <1>5, <1>7 DEF Names
  <2>3. Clean(series, copies, s, x) => \A c \in copies' : c.parent = s => c.day <= x
    BY <1>11 DEF Clean
  <2>4. Clean(series, copies, s, x) => a <= x \/ ~Names(series[s], x) \/ Held(series, copies, x)
    <3>1. CASE open # {}
      BY <1>2, <3>1 DEF Clean
    <3>2. CASE open = {} /\ d <= x
      BY <1>3, <3>2
    <3>3. CASE open = {} /\ ~(d <= x)
      <4>1. x < d /\ x \notin PassedOver(s, d)
        BY <1>11, <1>13, <3>3 DEF Days
      <4>2. ~Names(series[s], x) \/ Holders(x) # {}
        BY <3>3, <4>1 DEF PassedOver
      <4>3. Holders(x) # {} => Held(series, copies, x)
        BY DEF Holders, Held, Copied, Rowed, RowsOn
      <4> QED
        BY <4>2, <4>3
    <3> QED
      BY <3>1, <3>2, <3>3
  <2>5. series'[s].anchor = a
    BY <1>5, <1>7
  <2> QED
    BY <1>8, <2>1, <2>2, <2>3, <2>4, <2>5 DEF StaysKept
<1> QED
  BY <1>7, <1>8, <1>10, <1>11, <1>12, <1>13, LessDays

LEMMA DisplaceDays ==
  ASSUME Inv, Inv2, NEW s \in Ids(series), NEW d \in Days, NEW slot \in Slots \cup {NoSlot},
         Displace(s, d, slot)
  PROVE  Inv2'
<1>1. PICK me, b, K : me = Skipping(series[s], d) /\ K = {d}
        /\ b = [day |-> d, parent |-> s, slot |-> slot, own |-> FALSE]
  OBVIOUS
<1>2. series[s] \in SeriesRec /\ series \in Seq(SeriesRec)
  BY Given
<1>3. /\ me \in SeriesRec /\ me.rows = series[s].rows \ RowsOn(OpenRows(series[s].rows), d)
      /\ me.anchor = series[s].anchor /\ me.until = series[s].until
      /\ Lesser(series[s], me, K)
  BY <1>1, <1>2, SkippingDay, Frame, Skips
<1>4. series' = [series EXCEPT ![s] = me]
  BY <1>1 DEF Displace
<1>5. Rewritten(series, series', s) /\ series'[s] = me
  <2>1. me \in SeriesRec /\ series \in Seq(SeriesRec)
    BY <1>2, <1>3
  <2>2. Rewritten(series, [series EXCEPT ![s] = me], s) /\ [series EXCEPT ![s] = me][s] = me
    BY <2>1, Rewriting
  <2> QED
    BY <1>4, <2>2
<1>6. b.day = d /\ b.parent = s /\ copies' = copies \cup {b}
      /\ now' = now /\ astray' = astray /\ Gone \subseteq Gone'
  BY <1>1 DEF Displace, Gone
<1>7. \E r \in series[s].rows : r[1] = d
  BY DEF Displace, RowsOn, OpenRows
<1>8. d % Week \in series[s].rule
  BY <1>7, Given
<1>9. /\ \A c \in copies' : c.parent \in Ids(series) /\ c.day % Week \in series[c.parent].rule
      /\ CopiesOf(copies, copies', s)
  BY <1>6, <1>8, Given DEF CopiesOf
<1>10. ASSUME NEW x \in Days \ Gone', x > Today PROVE StaysKept(s, K, x)
  <2>1. CASE x = d
    BY <1>6, <2>1 DEF StaysKept, Held, Copied
  <2>2. CASE x # d
    <3>1. Held(series, copies, x) => Held(series', copies', x)
      <4>1. \A r \in series[s].rows : r[1] # d => r \in series'[s].rows
        BY <1>3, <1>5 DEF RowsOn
      <4>2. \A c \in copies : c.day # d => \E e \in copies' : e.day = c.day
        BY <1>6
      <4> QED
        BY <1>5, <2>2, <4>1, <4>2, HeldElsewhereHere
    <3>2. Names(series[s], x) => x \notin K /\ x < series'[s].until
      BY <1>1, <1>3, <1>5, <2>2 DEF Names
    <3>3. Clean(series, copies, s, x) => d <= x /\ \A c \in copies' : c.parent = s => c.day <= x
      BY <1>6, <1>7 DEF Clean
    <3> QED
      BY <1>1, <1>3, <1>5, <3>1, <3>2, <3>3 DEF StaysKept
  <2> QED
    BY <2>1, <2>2
<1> QED
  <2>1. (\A e \in K : e % Week \in series[s].rule) /\ Lesser(series[s], series'[s], K)
    BY <1>1, <1>3, <1>5, <1>8
  <2> QED
    BY <1>5, <1>6, <1>9, <1>10, <2>1, LessDays

LEMMA HandOverDays ==
  ASSUME Inv, Inv2, NEW s \in Ids(series), NEW r \in Slots, HandOver(s, r)
  PROVE  Inv2'
<1> DEFINE KK == series[s].skipped \cup {r[1]}
           RR == series[s].rows \ RowsOn(series[s].rows, r[1])
           me == [series[s] EXCEPT !.skipped = KK, !.rows = RR]
<1>1. PICK d, K : d = r[1] /\ K = {r[1]}
  OBVIOUS
<1>2. /\ series[s] \in SeriesRec /\ series \in Seq(SeriesRec) /\ d \in Days
      /\ r \in series[s].rows
  BY <1>1, Given, SlotParts DEF HandOver
<1>3. KK \in SUBSET Days /\ RR \in SUBSET Slots
  BY <1>1, <1>2 DEF SeriesRec
<1>4. series' = [series EXCEPT ![s] = me]
  BY <1>2 DEF HandOver
<1> HIDE DEF KK, RR
<1>5. /\ me \in SeriesRec /\ me.rows = RR /\ me.skipped = KK /\ me.rule = series[s].rule
      /\ me.from = series[s].from /\ me.until = series[s].until /\ me.anchor = series[s].anchor
  <2>1. me \in SeriesRec
    BY <1>2, <1>3 DEF SeriesRec
  <2> QED
    BY <1>2, <2>1 DEF SeriesRec
<1> HIDE DEF me
<1>6. Rewritten(series, series', s) /\ series'[s] = me
  BY <1>2, <1>4, <1>5, Rewriting
<1>7. series[s].until \in Int
  BY <1>2 DEF SeriesRec
<1>8. Lesser(series[s], series'[s], K)
  <2>1. \A q \in RR : q \in series[s].rows /\ q[1] # d
    BY <1>1 DEF RR, RowsOn
  <2> QED
    BY <1>1, <1>5, <1>6, <1>7, <2>1 DEF Lesser, KK
<1>9. PICK c \in DayCopies(s, d) :
        copies' = (copies \ {c}) \cup {[c EXCEPT !.slot = r, !.own = TRUE]}
  BY <1>1 DEF HandOver
<1>10. c \in CopyShape /\ c.day = d /\ c.parent \in Ids(series) /\ (c.parent = s \/ c \in copies)
  <2>1. c \in CopyShape /\ c.day = d /\ c.parent \in Ids(series)
    BY <1>2, <1>9, DayCopyShape
  <2>2. c.parent = s \/ c \in copies
    BY <1>9 DEF DayCopies
  <2> QED
    BY <2>1, <2>2
<1>11. PICK b : b = [c EXCEPT !.slot = r, !.own = TRUE]
  OBVIOUS
<1>12. b.day = d /\ b.parent = c.parent /\ copies' = (copies \ {c}) \cup {b}
  BY <1>9, <1>10, <1>11 DEF CopyShape
<1>13. now' = now /\ astray' = astray /\ Gone \subseteq Gone'
  BY DEF HandOver, Gone
<1>14. d % Week \in series[s].rule
  BY <1>1, <1>2, Given
<1>15. /\ \A e \in copies' : e.parent \in Ids(series) /\ e.day % Week \in series[e.parent].rule
       /\ CopiesOf(copies, copies', s)
  <2>1. b.day % Week \in series[b.parent].rule
    BY <1>10, <1>12, <1>14, Given
  <2> QED
    BY <1>10, <1>12, <2>1, Given DEF CopiesOf
<1>16. ASSUME NEW x \in Days \ Gone', x > Today PROVE StaysKept(s, K, x)
  <2>1. CASE x = d
    BY <1>12, <2>1 DEF StaysKept, Held, Copied
  <2>2. CASE x # d
    <3>1. Held(series, copies, x) => Held(series', copies', x)
      <4>1. \A q \in series[s].rows : q[1] # d => q \in series'[s].rows
        BY <1>1, <1>5, <1>6 DEF RowsOn, RR
      <4>2. \A e \in copies : e.day # d => \E f \in copies' : f.day = e.day
        BY <1>10, <1>12
      <4> QED
        BY <1>6, <2>2, <4>1, <4>2, HeldElsewhereHere
    <3>2. Names(series[s], x) => x \notin K /\ x < series'[s].until
      BY <1>1, <1>5, <1>6, <2>2 DEF Names
    <3>3. Clean(series, copies, s, x) => d <= x /\ \A e \in copies' : e.parent = s => e.day <= x
      BY <1>1, <1>2, <1>12 DEF Clean
    <3> QED
      BY <1>1, <1>5, <1>6, <3>1, <3>2, <3>3 DEF StaysKept
  <2> QED
    BY <2>1, <2>2
<1> QED
  BY <1>1, <1>6, <1>8, <1>13, <1>14, <1>15, <1>16, LessDays

\* A copy is placed: what has a copy keeps it, or the series that takes the day
\* back is not behind it.
LEMMA RejoiningSound ==
  ASSUME NEW srs, NEW c \in CopyShape, NEW slot \in Slots, NEW t \in Ids(srs), NEW srs2, NEW ast2,
         now \in Nat, Typed(srs, copies \cup {c}), Sound(srs, copies \cup {c}, astray, now),
         Rewritten(srs, srs2, t), srs2[t].rule = srs[t].rule, srs2[t].from = srs[t].from,
         srs2[t].until = srs[t].until, StartDay(srs2[t]) = StartDay(srs[t]),
         srs2[t].skipped = srs[t].skipped \ {c.day},
         srs2[t].rows \subseteq srs[t].rows \cup {slot},
         slot[1] = c.day, c.day \in InHorizon, ~Over(slot), c.day \in srs[t].skipped,
         srs[t].from <= c.day, c.day < srs[t].until,
         ast2 = astray \cup {d \in {c.day} : d < StartDay(srs[t])}
  PROVE  Sound(srs2, copies \ {c}, ast2, now)
<1>1. Ids(srs2) = Ids(srs) /\ \A u \in Ids(srs) \ {t} : srs2[u] = srs[u]
  BY DEF Rewritten, Ids
<1>2. Ruled(srs, copies \cup {c}) /\ \A u \in Ids(srs) : Fits(srs[u], astray, now)
  BY DEF Sound
<1>3. Ruled(srs2, copies \ {c})
  <2>1. \A u \in Ids(srs) : srs2[u].rule = srs[u].rule
    BY <1>1
  <2>2. /\ \A r \in srs2[t].rows : r[1] % Week \in srs2[t].rule /\ r[1] >= srs2[t].from
        /\ \A e \in srs2[t].skipped : e % Week \in srs2[t].rule
    BY <1>2 DEF Ruled, CopyShape, Days
  <2>3. \A b \in copies \ {c} : b.parent \in Ids(srs) /\ b.day % Week \in srs2[b.parent].rule
    BY <1>2, <2>1 DEF Ruled, Typed
  <2>4. \A u \in Ids(srs) \ {t} : /\ \A r \in srs[u].rows : r[1] % Week \in srs[u].rule /\ r[1] >= srs[u].from
                                  /\ \A e \in srs[u].skipped : e % Week \in srs[u].rule
    BY <1>2 DEF Ruled
  <2> QED
    BY <1>1, <2>2, <2>3, <2>4 DEF Ruled
<1>4. Lined(srs2)
  <2>1. \A r \in srs2[t].rows : \/ r \in srs[t].rows
                                \/ ~Over(r) /\ srs[t].from <= r[1] /\ r[1] < srs[t].until
    OBVIOUS
  <2>2. srs2[t].until <= srs[t].until
    <3>1. srs[t].until \in Int
      BY Parts DEF Typed
    <3> QED
      BY <3>1
  <2>3. PICK cps : cps = copies \cup {c}
    OBVIOUS
  <2>4. Typed(srs, cps) /\ Sound(srs, cps, astray, now)
    BY <2>3
  <2> QED
    BY <2>1, <2>2, <2>4, KeepingLine
<1>5. Fits(srs2[t], ast2, now)
  <2>1. ASSUME NEW r \in srs2[t].rows, ~Passed(r, now)
        PROVE  /\ r[1] < (now \div 2) + Horizon /\ r[1] < srs2[t].until /\ r[1] \notin srs2[t].skipped
               /\ r[1] >= StartDay(srs2[t]) \/ r[1] \in ast2
    <3>1. CASE r \in srs[t].rows
      BY <1>2, <2>1, <3>1 DEF Fits
    <3>2. CASE r = slot
      <4>1. c.day < Today + Horizon
        BY DEF InHorizon
      <4>2. c.day >= StartDay(srs[t]) \/ c.day < StartDay(srs[t])
        <5>1. srs[t] \in SeriesRec
          BY Parts DEF Typed
        <5> QED
          BY <5>1 DEF StartDay, SeriesRec, CopyShape, Days
      <4> QED
        BY <3>2, <4>1, <4>2 DEF Today
    <3> QED
      BY <2>1, <3>1, <3>2
  <2> QED
    BY <2>1 DEF Fits
<1>6. \A u \in Ids(srs) \ {t} : Fits(srs2[u], ast2, now)
  BY <1>1, <1>2 DEF Fits
<1> QED
  BY <1>1, <1>3, <1>4, <1>5, <1>6 DEF Sound

LEMMA RejoiningKeeps ==
  ASSUME NEW srs, NEW cps, NEW cps2, NEW c \in cps, NEW t \in Ids(srs), NEW srs2, NEW slot, NEW x,
         Rewritten(srs, srs2, t), srs2[t].rule = srs[t].rule, srs2[t].from = srs[t].from,
         srs2[t].until = srs[t].until, StartDay(srs2[t]) = StartDay(srs[t]),
         srs2[t].skipped = srs[t].skipped \ {c.day},
         srs2[t].rows \subseteq srs[t].rows \cup {slot}, slot \in srs2[t].rows,
         \A r \in srs[t].rows : r[1] # c.day => r \in srs2[t].rows,
         slot[1] = c.day, c.day \in srs[t].skipped,
         cps2 \subseteq cps, \A b \in cps : b # c => b \in cps2,
         Kept(srs, cps, x)
  PROVE  Kept(srs2, cps2, x)
<1>0. Ids(srs2) = Ids(srs) /\ \A u \in Ids(srs) \ {t} : srs2[u] = srs[u]
  BY DEF Rewritten, Ids
<1>1. Changes(srs, srs2, t) /\ CopiesOf(cps, cps2, t)
  BY <1>0 DEF Changes, CopiesOf
<1>2. x = c.day => Held(srs2, cps2, x)
  BY <1>0 DEF Held, Rowed
<1>3. Held(srs, cps, x) => Held(srs2, cps2, x)
  <2>1. CASE Copied(cps, x)
    BY <1>2, <2>1 DEF Held, Copied
  <2>2. CASE Rowed(srs, x)
    <3>1. PICK u \in Ids(srs) : \E r \in srs[u].rows : r[1] = x
      BY <2>2 DEF Rowed
    <3>2. x # c.day => \E r \in srs2[u].rows : r[1] = x
      BY <1>0, <3>1
    <3> QED
      BY <1>0, <1>2, <3>2 DEF Held, Rowed
  <2> QED
    BY <2>1, <2>2 DEF Held
<1>4. Awaits(srs, cps, t, x) => Names(srs2[t], x) /\ (Clean(srs, cps, t, x) => Clean(srs2, cps2, t, x))
  BY DEF Awaits, Names, Clean
<1> QED
  BY <1>1, <1>3, <1>4, KeepingDay

LEMMA PuttingDays ==
  ASSUME NEW srs, NEW c \in CopyShape, NEW slot \in Slots \cup {NoSlot},
         now \in Nat, Typed(srs, copies \cup {c}), Sound(srs, copies \cup {c}, astray, now),
         \A x \in Days \ Gone : x > Today => Kept(srs, copies \cup {c}, x),
         Free(slot, c.day), PutCopy(srs, c, slot), UNCHANGED <<now, dismissed, ended, dropped>>
  PROVE  Inv2'
<1>0. /\ srs \in Seq(SeriesRec) /\ c.parent \in Ids(srs)
      /\ \A b \in copies : b.parent \in Ids(srs)
  BY DEF Typed
<1>1. CASE /\ series' = srs
           /\ copies' = (copies \ {c}) \cup {[c EXCEPT !.slot = slot]}
           /\ astray' = astray
  <2>1. PICK e : e = [c EXCEPT !.slot = slot]
    OBVIOUS
  <2>2. e.day = c.day /\ e.parent = c.parent
    BY <2>1 DEF CopyShape
  <2>3. series' = srs /\ copies' = (copies \ {c}) \cup {e} /\ now' = now /\ astray' = astray /\ Gone' = Gone
    BY <1>1, <2>1 DEF Gone
  <2>4. Ruled(srs, (copies \ {c}) \cup {e})
    BY <2>2 DEF Sound, Ruled
  <2>5. Sound(series', copies', astray', now)
    BY <2>3, <2>4 DEF Sound
  <2>6. ASSUME NEW x \in Days \ Gone', x > Today PROVE Kept(series', copies', x)
    <3>1. Kept(srs, copies \cup {c}, x)
      BY <2>3, <2>6
    <3>2. Held(srs, copies \cup {c}, x) => Held(srs, (copies \ {c}) \cup {e}, x)
      BY <2>2 DEF Held, Copied
    <3>3. \A s : Clean(srs, copies \cup {c}, s, x) => Clean(srs, (copies \ {c}) \cup {e}, s, x)
      BY <2>2 DEF Clean
    <3>4. Kept(srs, (copies \ {c}) \cup {e}, x)
      BY <3>1, <3>2, <3>3 DEF Kept, Awaits
    <3> QED
      BY <2>3, <3>4
  <2> QED
    BY <2>3, <2>5, <2>6, StaysSound
<1>2. CASE \E t \in Ids(srs) :
             /\ slot[1] = c.day /\ t \in Owners(srs, c, slot)
             /\ series' = [srs EXCEPT
                  ![t].skipped = @ \ {c.day},
                  ![t].rows    = (@ \ RowsOn(OpenRows(@), c.day)) \cup {slot}]
             /\ copies' = Absorbed(c)
             /\ astray' = astray \cup {d \in {c.day} : d < StartDay(srs[t])}
  <2>1. PICK t \in Ids(srs) :
             /\ slot[1] = c.day /\ t \in Owners(srs, c, slot)
             /\ series' = [srs EXCEPT
                  ![t].skipped = @ \ {c.day},
                  ![t].rows    = (@ \ RowsOn(OpenRows(@), c.day)) \cup {slot}]
             /\ copies' = Absorbed(c)
             /\ astray' = astray \cup {d \in {c.day} : d < StartDay(srs[t])}
    BY <1>2
  <2> DEFINE K  == srs[t].skipped \ {c.day}
             R  == (srs[t].rows \ RowsOn(OpenRows(srs[t].rows), c.day)) \cup {slot}
             me == [srs[t] EXCEPT !.skipped = K, !.rows = R]
  <2>2. c.day \in Days /\ slot \in Slots /\ slot # NoSlot
    BY <2>1, SlotParts, SeriesAssumption DEF Days, CopyShape
  <2>3. srs[t] \in SeriesRec /\ K \in SUBSET Days /\ R \in SUBSET Slots
    BY <1>0, <2>2, Parts
  <2>4. series' = [srs EXCEPT ![t] = me]
    BY <1>0, <2>1
  <2>5. \A r \in srs[t].rows : r[1] # c.day => r \in R
    BY DEF RowsOn
  <2>6. R \subseteq srs[t].rows \cup {slot} /\ slot \in R
    OBVIOUS
  <2>7. K = srs[t].skipped \ {c.day}
    OBVIOUS
  <2> HIDE DEF K, R
  <2>8. /\ me \in SeriesRec /\ me.skipped = K /\ me.rows = R /\ me.rule = srs[t].rule
        /\ me.from = srs[t].from /\ me.until = srs[t].until /\ me.anchor = srs[t].anchor
    <3>1. me \in SeriesRec
      BY <2>3 DEF SeriesRec
    <3> QED
      BY <2>3, <3>1 DEF SeriesRec
  <2> HIDE DEF me
  <2>9. PICK srs2, ast2 : srs2 = series' /\ ast2 = astray'
    OBVIOUS
  <2>10. Rewritten(srs, srs2, t) /\ srs2[t] = me
    BY <1>0, <2>4, <2>8, <2>9, Rewriting
  <2>11. /\ srs2[t].rule = srs[t].rule /\ srs2[t].from = srs[t].from /\ srs2[t].until = srs[t].until
         /\ srs2[t].skipped = srs[t].skipped \ {c.day} /\ srs2[t].rows = R
    BY <2>7, <2>8, <2>10
  <2>12. StartDay(srs2[t]) = StartDay(srs[t])
    BY <2>8, <2>10 DEF StartDay
  <2>13. srs2[t].rows \subseteq srs[t].rows \cup {slot} /\ slot \in srs2[t].rows
         /\ \A r \in srs[t].rows : r[1] # c.day => r \in srs2[t].rows
    BY <2>5, <2>6, <2>11
  <2>14. /\ slot[1] = c.day /\ c.day \in InHorizon /\ ~Over(slot)
         /\ c.day \in srs[t].skipped /\ srs[t].from <= c.day /\ c.day < srs[t].until
    BY <2>1, <2>2 DEF Free, Owners
  <2>15. copies' = copies \ {c} /\ ast2 = astray \cup {d \in {c.day} : d < StartDay(srs[t])}
    BY <2>1, <2>9 DEF Absorbed
  <2>16. Sound(srs2, copies \ {c}, ast2, now)
    BY <2>2, <2>10, <2>11, <2>12, <2>13, <2>14, <2>15, RejoiningSound
  <2>17. ASSUME NEW x \in Days \ Gone', x > Today PROVE Kept(srs2, copies', x)
    <3>1. x \in Days \ Gone
      BY <2>1, <2>17 DEF Gone
    <3>2. PICK cps, cps2 : cps = copies \cup {c} /\ cps2 = copies'
      OBVIOUS
    <3>3. Kept(srs, cps, x) /\ c \in cps /\ cps2 \subseteq cps /\ \A b \in cps : b # c => b \in cps2
      BY <2>15, <2>17, <3>1, <3>2
    <3>4. Kept(srs2, cps2, x)
      BY <2>10, <2>11, <2>12, <2>13, <2>14, <3>3, RejoiningKeeps
    <3> QED
      BY <3>2, <3>4
  <2>18. Sound(series', copies', astray', now) /\ \A x \in Days \ Gone' : x > Today => Kept(series', copies', x)
    BY <2>9, <2>15, <2>16, <2>17
  <2> QED
    BY <2>18, StaysSound
<1>3. \/ /\ series' = srs
         /\ copies' = (copies \ {c}) \cup {[c EXCEPT !.slot = slot]}
         /\ astray' = astray
      \/ \E t \in Ids(srs) :
             /\ slot[1] = c.day /\ t \in Owners(srs, c, slot)
             /\ series' = [srs EXCEPT
                  ![t].skipped = @ \ {c.day},
                  ![t].rows    = (@ \ RowsOn(OpenRows(@), c.day)) \cup {slot}]
             /\ copies' = Absorbed(c)
             /\ astray' = astray \cup {d \in {c.day} : d < StartDay(srs[t])}
  <2>1. Owners(srs, c, slot) \subseteq Ids(srs)
    BY DEF Owners
  <2> QED
    BY <1>0, <2>1 DEF PutCopy
<1> QED
  BY <1>1, <1>2, <1>3

LEMMA PlaceCopyDays ==
  ASSUME Inv, Inv2, NEW c \in copies, NEW slot \in Slots, PlaceCopy(c, slot)
  PROVE  Inv2'
<1>1. copies \cup {c} = copies /\ c \in CopyShape
  BY MembersAreSeries
<1>2. /\ Free(slot, c.day) /\ PutCopy(series, c, slot) /\ UNCHANGED <<now, dismissed, ended, dropped>>
      /\ slot \in Slots \cup {NoSlot}
  BY DEF PlaceCopy
<1>3. /\ now \in Nat /\ Typed(series, copies \cup {c}) /\ Sound(series, copies \cup {c}, astray, now)
      /\ \A x \in Days \ Gone : x > Today => Kept(series, copies \cup {c}, x)
  BY <1>1, Given
<1> QED
  BY <1>1, <1>2, <1>3, PuttingDays

LEMMA MoveDayDays ==
  ASSUME Inv, Inv2, NEW s \in Ids(series), NEW d \in Days, NEW slot \in Slots \cup {NoSlot},
         MoveDay(s, d, slot)
  PROVE  Inv2'
<1>1. PICK srs, me, K : /\ me = Skipping(series[s], d) /\ K = {d} /\ srs = [series EXCEPT ![s] = me]
  OBVIOUS
<1>2. PICK c \in DayCopies(s, d) : PutCopy(srs, c, slot)
  BY <1>1 DEF MoveDay
<1>3. c \in CopyShape /\ c.day = d /\ c.parent \in Ids(series) /\ (c.parent = s \/ c \in copies)
  BY <1>2, DayCopyShape DEF DayCopies
<1>4. series[s] \in SeriesRec /\ series \in Seq(SeriesRec)
  BY Given
<1>5. /\ me \in SeriesRec /\ me.rows = series[s].rows \ RowsOn(OpenRows(series[s].rows), d)
      /\ me.anchor = series[s].anchor /\ me.until = series[s].until
      /\ Lesser(series[s], me, K)
  BY <1>1, <1>4, SkippingDay, Frame, Skips
<1>6. Rewritten(series, srs, s) /\ srs[s] = me
  BY <1>1, <1>4, <1>5, Rewriting
<1>7. \E r \in series[s].rows : r[1] = d
  BY DEF MoveDay, RowsOn, OpenRows
<1>8. d % Week \in series[s].rule
  BY <1>7, Given
<1>9. PICK cps : cps = copies \cup {c}
  OBVIOUS
<1>10. /\ \A b \in cps : b.parent \in Ids(series) /\ b.day % Week \in series[b.parent].rule
       /\ CopiesOf(copies, cps, s)
  BY <1>3, <1>8, <1>9, Given DEF CopiesOf
<1>11. Sound(srs, cps, astray, now)
  <2>1. Typed(series, copies) /\ Sound(series, copies, astray, now) /\ now \in Nat
    BY Given
  <2>2. Lesser(series[s], srs[s], K) /\ \A e \in K : e % Week \in series[s].rule
    BY <1>1, <1>5, <1>6, <1>8
  <2> QED
    BY <1>6, <1>10, <2>1, <2>2, LessIsSound
<1>12. Typed(srs, cps)
  BY <1>3, <1>6, <1>9, Given DEF Typed, Rewritten, Ids
<1>13. ASSUME NEW x \in Days \ Gone, x > Today PROVE Kept(srs, cps, x)
  <2>1. CASE x = d
    BY <1>3, <1>9, <2>1 DEF Kept, Held, Copied
  <2>2. CASE x # d
    <3>1. ASSUME Held(series, copies, x) PROVE Held(srs, cps, x)
      <4>1. CASE Copied(copies, x)
        BY <1>9, <4>1 DEF Held, Copied
      <4>2. CASE Rowed(series, x)
        <5>1. \A r \in series[s].rows : r[1] # d => r \in srs[s].rows
          BY <1>5, <1>6 DEF RowsOn
        <5>2. PICK t \in Ids(series) : \E r \in series[t].rows : r[1] = x
          BY <4>2 DEF Rowed
        <5>3. t \in Ids(srs) /\ \E r \in srs[t].rows : r[1] = x
          BY <1>6, <2>2, <5>1, <5>2 DEF Rewritten, Ids
        <5> QED
          BY <5>3 DEF Held, Rowed
      <4> QED
        BY <3>1, <4>1, <4>2 DEF Held
    <3>2. Names(series[s], x) => x \notin K /\ x < srs[s].until
      BY <1>1, <1>5, <1>6, <2>2 DEF Names
    <3>3. Clean(series, copies, s, x) => (\A e \in K : e <= x) /\ \A b \in cps : b.parent = s => b.day <= x
      BY <1>1, <1>3, <1>7, <1>9 DEF Clean
    <3>4. Kept(series, copies, x) /\ Lesser(series[s], srs[s], K) /\ srs[s].anchor = series[s].anchor
      BY <1>5, <1>6, <1>13, Given
    <3> QED
      BY <1>6, <1>10, <3>1, <3>2, <3>3, <3>4, LessKeepsDay
  <2> QED
    BY <2>1, <2>2
<1>14. Free(slot, c.day) /\ UNCHANGED <<now, dismissed, ended, dropped>> /\ now \in Nat
  BY <1>3, Given DEF MoveDay
<1> QED
  BY <1>2, <1>3, <1>9, <1>11, <1>12, <1>13, <1>14, PuttingDays

\* What seating a series leaves: it keeps the days of `mine` at one clock, those
\* of `others` go to a sibling at the other clock or to a copy, those of
\* `failed` are parked.
Reseated(srs, cps, srs2, cps2, s, P, k, mine, others, failed) ==
  /\ k \in Clocks /\ 1 - k \in Clocks /\ mine # {}
  /\ mine \in SUBSET Days /\ others \in SUBSET Days /\ failed \in SUBSET Days
  /\ P = mine \cup others \cup failed
  /\ mine \cap others = {} /\ mine \cap failed = {} /\ others \cap failed = {}
  /\ (\A d \in mine : ~Over(<<d, k>>)) /\ (\A d \in others : ~Over(<<d, 1 - k>>))
  /\ srs2 \in Seq(SeriesRec) /\ (\A t \in Ids(srs) : t \in Ids(srs2) /\ (t # s => srs2[t] = srs[t]))
  /\ srs2[s].rows = (srs[s].rows \ OpenRows(srs[s].rows)) \cup (mine \X {k})
  /\ srs2[s].skipped = srs[s].skipped \cup others \cup failed
  /\ srs2[s].rule = srs[s].rule /\ srs2[s].from = srs[s].from /\ srs2[s].until = srs[s].until
  /\ srs2[s].anchor = Least(mine)
  /\ \A t \in Ids(srs2) \ Ids(srs) :
       /\ t = Len(srs) + 1 /\ Cardinality(others) >= 2
       /\ srs2[t].rows = others \X {1 - k} /\ srs2[t].skipped = {}
       /\ srs2[t].rule = {d % Week : d \in others} /\ srs2[t].from = 0
       /\ srs2[t].until = srs[s].until /\ srs2[t].anchor = Least(others)
  /\ Cardinality(others) >= 2 => Len(srs) + 1 \in Ids(srs2) \ Ids(srs)
  /\ cps2 = cps \cup Parked(s, failed)
                \cup CopiesAt(s, IF Cardinality(others) >= 2 THEN {} ELSE others, 1 - k)

LEMMA ReseatShape ==
  ASSUME NEW srs, NEW cps, NEW s \in Ids(srs), NEW wanted \in Clocks, NEW P,
         Typed(srs, cps), P = DaysOf(srs[s], wanted),
         NEW f \in Answers(P, wanted), NEW e \in P, f[e] # Nowhere,
         Reseat(srs, cps, s, P, f, wanted)
  PROVE  \E k, mine, others, failed : Reseated(srs, cps, series', copies', s, P, k, mine, others, failed)
<1> DEFINE k       == MainClock(f, P, wanted)
           mine    == {d \in P : f[d] = k}
           others  == {d \in P : f[d] = 1 - k}
           failed  == {d \in P : f[d] = Nowhere}
           R       == (srs[s].rows \ OpenRows(srs[s].rows)) \cup (mine \X {k})
           K       == srs[s].skipped \cup others \cup failed
           me      == [srs[s] EXCEPT !.rows = R, !.skipped = K, !.anchor = Least(mine),
                                     !.clock = k, !.parked = FALSE]
           sibling == [rule |-> {d % Week : d \in others}, from |-> 0, anchor |-> Least(others),
                       clock |-> 1 - k, until |-> me.until, skipped |-> {},
                       rows |-> others \X {1 - k}, parked |-> FALSE]
           repeats == Cardinality(others) >= 2
           alone   == [srs EXCEPT ![s] = me]
           moved   == {CopyAt(s, d, 1 - k) : d \in IF repeats THEN {} ELSE others}
<1>1. srs \in Seq(SeriesRec) /\ Len(srs) >= 1
  BY DEF Typed
<1>2. srs[s] \in SeriesRec /\ srs[s].skipped \subseteq Days /\ srs[s].rows \subseteq Slots
  BY <1>1, Parts
<1>3. P \in SUBSET Days /\ \A d \in P : ~Over(<<d, wanted>>)
  BY Planned DEF DaysOf
<1>4. k \in Clocks /\ 1 - k \in Clocks /\ mine # {}
  BY <1>3, SomeDayAtMain DEF Clocks
<1>5. P = mine \cup others \cup failed
  <2>1. \A d \in P : d \in mine \/ d \in others \/ d \in failed
    BY <1>4, AnswerShape DEF Clocks
  <2> QED
    BY <2>1
<1>6. /\ mine \in SUBSET Days /\ others \in SUBSET Days /\ failed \in SUBSET Days
      /\ mine \cap others = {} /\ mine \cap failed = {} /\ others \cap failed = {}
  BY <1>3, <1>4 DEF Clocks, Nowhere
<1>7. (\A d \in mine : ~Over(<<d, k>>)) /\ (\A d \in others : ~Over(<<d, 1 - k>>))
  <2>1. \A d \in P : f[d] \in {wanted, Nowhere} \/ ~Over(<<d, f[d]>>)
    BY DEF Answers
  <2>2. k # Nowhere /\ 1 - k # Nowhere
    BY <1>4 DEF Clocks, Nowhere
  <2> QED
    BY <1>3, <2>1, <2>2
<1>8. series' = (IF repeats THEN Append(alone, sibling) ELSE alone)
      /\ copies' = cps \cup Parked(s, failed) \cup moved
  BY DEF Reseat
<1>9. moved = CopiesAt(s, IF repeats THEN {} ELSE others, 1 - k)
  BY DEF CopiesAt
<1> HIDE DEF k, mine, others, failed, moved
<1>10. R \in SUBSET Slots /\ K \in SUBSET Days
  BY <1>2, <1>4, <1>6 DEF Slots
<1>11. Least(mine) \in Days
  BY <1>4, <1>6, LeastDay
<1>12. /\ me \in SeriesRec /\ me.rows = R /\ me.skipped = K /\ me.until = srs[s].until
       /\ me.rule = srs[s].rule /\ me.from = srs[s].from /\ me.anchor = Least(mine)
  <2>1. me \in SeriesRec
    <3> DEFINE a == Least(mine)
    <3> HIDE DEF R, K, a
    <3>1. [srs[s] EXCEPT !.rows = R, !.skipped = K, !.anchor = a, !.clock = k, !.parked = FALSE] \in SeriesRec
      BY <1>2, <1>4, <1>10, <1>11 DEF SeriesRec, a
    <3> QED
      BY <3>1 DEF a
  <2> QED
    BY <1>2, <2>1 DEF SeriesRec
<1>13. repeats => /\ sibling \in SeriesRec /\ sibling.rows = others \X {1 - k} /\ sibling.skipped = {}
                  /\ sibling.rule = {d % Week : d \in others} /\ sibling.from = 0
                  /\ sibling.until = srs[s].until /\ sibling.anchor = Least(others)
  <2> SUFFICES ASSUME repeats
               PROVE  sibling \in SeriesRec
    BY <1>12
  <2>1. others # {}
    BY FS_EmptySet
  <2>2. Least(others) \in Days
    BY <1>6, <2>1, LeastDay
  <2>3. {d % Week : d \in others} \in SUBSET (0 .. Week - 1)
    BY <1>6, SeriesAssumption DEF Days
  <2>4. others \X {1 - k} \in SUBSET Slots
    BY <1>4, <1>6 DEF Slots
  <2>5. 0 \in 0 .. LastDay /\ {} \in SUBSET Days /\ me.until \in 1 .. NoEnd
    BY <1>2, <1>12, SeriesAssumption DEF SeriesRec
  <2> HIDE DEF me, repeats
  <2> QED
    BY <1>4, <2>2, <2>3, <2>4, <2>5 DEF SeriesRec
<1> HIDE DEF me, sibling, repeats
<1>14. /\ alone \in Seq(SeriesRec) /\ Len(alone) = Len(srs) /\ alone[s] = me
       /\ \A t \in Ids(srs) \ {s} : alone[t] = srs[t]
  BY <1>1, <1>12, Rewriting DEF Rewritten
<1> HIDE DEF alone
<1>15. Len(srs) \in Nat
  BY <1>1, LenProperties
<1>16. /\ series' \in Seq(SeriesRec)
       /\ \A t \in Ids(srs) : t \in Ids(series') /\ (t # s => series'[t] = srs[t])
       /\ series'[s] = me
       /\ \A t \in Ids(series') \ Ids(srs) : repeats /\ t = Len(srs) + 1 /\ series'[t] = sibling
       /\ repeats => Len(srs) + 1 \in Ids(series') \ Ids(srs)
  <2>1. CASE repeats
    <3>1. series' = Append(alone, sibling)
      BY <1>8, <2>1
    <3>2. /\ series' \in Seq(SeriesRec) /\ Len(series') = Len(srs) + 1
          /\ series'[Len(srs) + 1] = sibling
          /\ \A t \in Ids(srs) : series'[t] = alone[t]
      <4>1. sibling \in SeriesRec /\ alone \in Seq(SeriesRec) /\ Len(alone) = Len(srs)
        BY <1>13, <1>14, <2>1
      <4> QED
        BY <3>1, <4>1, AppendProperties DEF Ids
    <3>3. Ids(series') = Ids(srs) \cup {Len(srs) + 1} /\ Len(srs) + 1 \notin Ids(srs)
      BY <1>15, <3>2 DEF Ids
    <3>4. series'[s] = me /\ \A t \in Ids(srs) : t # s => series'[t] = srs[t]
      BY <1>14, <3>2
    <3>5. \A t \in Ids(srs) : t \in Ids(series') /\ (t # s => series'[t] = srs[t])
      BY <3>3, <3>4
    <3>6. \A t \in Ids(series') \ Ids(srs) : t = Len(srs) + 1 /\ series'[t] = sibling
      BY <3>2, <3>3
    <3> QED
      BY <2>1, <3>2, <3>3, <3>4, <3>5, <3>6
  <2>2. CASE ~repeats
    BY <1>8, <1>14, <1>15, <2>2 DEF Ids
  <2> QED
    BY <2>1, <2>2
<1>17. \A t \in Ids(series') \ Ids(srs) :
         /\ series'[t].rows = others \X {1 - k} /\ series'[t].skipped = {}
         /\ series'[t].rule = {d % Week : d \in others} /\ series'[t].from = 0
         /\ series'[t].until = srs[s].until /\ series'[t].anchor = Least(others)
  BY <1>13, <1>16
<1>18. /\ series'[s].rows = R /\ series'[s].skipped = K
       /\ series'[s].rule = srs[s].rule /\ series'[s].from = srs[s].from /\ series'[s].until = srs[s].until
       /\ series'[s].anchor = Least(mine)
  BY <1>12, <1>16
<1>19. copies' = cps \cup Parked(s, failed) \cup CopiesAt(s, IF repeats THEN {} ELSE others, 1 - k)
  BY <1>8, <1>9
<1>20. Reseated(srs, cps, series', copies', s, P, k, mine, others, failed)
  BY <1>4, <1>5, <1>6, <1>7, <1>16, <1>17, <1>18, <1>19 DEF Reseated, repeats
<1> HIDE DEF R, K
<1> QED
  BY <1>20

\* A clock sibling of `me` on days of P.
Joins(me2, me, P) ==
  /\ me2.from = 0 /\ me2.until = me.until /\ me2.skipped = {}
  /\ \A r \in me2.rows : r[1] \in P /\ r[1] % Week \in me2.rule /\ me2.anchor <= r[1]

\* A series takes, skips or hands out the days of P, and nothing else.
Replans(srs, cps, srs2, cps2, s, P) ==
  /\ \A t \in Ids(srs) : t \in Ids(srs2) /\ (t # s => srs2[t] = srs[t])
  /\ \A t \in Ids(srs2) \ Ids(srs) : t # 1 /\ Joins(srs2[t], srs[s], P)
  /\ srs2[s].rule = srs[s].rule /\ srs2[s].from = srs[s].from /\ srs2[s].until = srs[s].until
  /\ \A r \in srs2[s].rows : \/ r \in srs[s].rows
                             \/ r[1] \in P /\ ~Over(r)
  /\ \A r \in srs2[s].rows : ~Over(r) => r[1] \notin srs2[s].skipped \ srs[s].skipped
  /\ \A e \in srs2[s].skipped : e \in srs[s].skipped \/ e \in P
  /\ \/ srs2[s].anchor = srs[s].anchor
     \/ srs2[s].anchor \in P /\ \A r \in srs2[s].rows : ~Over(r) => srs2[s].anchor <= r[1]
  /\ \A c \in cps2 : c \in cps \/ (c.parent = s /\ c.day \in P)
  /\ cps \subseteq cps2
  /\ \A x \in P : Held(srs2, cps2, x)

\* The planned days are days of the series, in the horizon.
LEMMA PlannedDays ==
  ASSUME NEW me \in SeriesRec, NEW k
  PROVE  \A d \in DaysOf(me, k) :
           /\ d \in Days /\ d \in Nat /\ d < Today + Horizon /\ d % Week \in me.rule /\ d < me.until
           /\ d \notin me.skipped /\ d >= StartDay(me) /\ d >= me.from
<1>1. me.from \in Nat /\ me.anchor \in Nat
  BY SeriesAssumption DEF SeriesRec, Days
<1>2. \A d \in DaysOf(me, k) : d \in Days /\ d \in InHorizon /\ Names(me, d)
  BY DEF DaysOf, InHorizon
<1> QED
  BY <1>1, <1>2 DEF InHorizon, Names, StartDay, Days

LEMMA ReplanSound ==
  ASSUME NEW srs, NEW cps, NEW srs2, NEW cps2, NEW s \in Ids(srs), NEW k, NEW P, NEW ast, NEW ast2,
         now \in Nat, Typed(srs, cps), Typed(srs2, cps2), Sound(srs, cps, ast, now),
         P \subseteq DaysOf(srs[s], k), ast \subseteq ast2, Replans(srs, cps, srs2, cps2, s, P)
  PROVE  Sound(srs2, cps2, ast2, now)
<1>1. /\ srs \in Seq(SeriesRec) /\ srs2 \in Seq(SeriesRec) /\ srs[s] \in SeriesRec
      /\ Len(srs) \in Nat /\ Len(srs2) \in Nat /\ Len(srs) >= 1
      /\ \A t \in Ids(srs2) : srs2[t] \in SeriesRec /\ srs2[t].rows \subseteq Slots
  BY Parts, LenProperties DEF Typed
<1>2. \A d \in P : /\ d \in Days /\ d \in Nat /\ d < Today + Horizon /\ d % Week \in srs[s].rule /\ d < srs[s].until
                   /\ d \notin srs[s].skipped /\ d >= StartDay(srs[s]) /\ d >= srs[s].from
  BY <1>1, PlannedDays
<1>3. s \in Ids(srs2) /\ \A t \in Ids(srs) \ {s} : t \in Ids(srs2) /\ srs2[t] = srs[t]
  BY DEF Replans
<1>4. /\ Ruled(srs, cps) /\ \A t \in Ids(srs) : Fits(srs[t], ast, now)
      /\ \A t \in Ids(srs) : /\ \A r \in srs[t].rows : r[1] % Week \in srs[t].rule /\ r[1] >= srs[t].from
                             /\ \A e \in srs[t].skipped : e % Week \in srs[t].rule
  BY DEF Sound, Ruled
<1>5. Today = now \div 2 /\ \A r \in Slots : Over(r) <=> Passed(r, now)
  BY DaysToCome
<1>6. \A t \in Ids(srs2) : t = s \/ t \in Ids(srs) \ {s} \/ t \in Ids(srs2) \ Ids(srs)
  OBVIOUS
<1>7. Ruled(srs2, cps2)
  <2>1. \A r \in srs2[s].rows : r[1] % Week \in srs2[s].rule /\ r[1] >= srs2[s].from
    BY <1>2, <1>4 DEF Replans
  <2>2. \A e \in srs2[s].skipped : e % Week \in srs2[s].rule
    BY <1>2, <1>4 DEF Replans
  <2>3. \A t \in Ids(srs) \ {s} : /\ \A r \in srs2[t].rows : r[1] % Week \in srs2[t].rule /\ r[1] >= srs2[t].from
                                  /\ \A e \in srs2[t].skipped : e % Week \in srs2[t].rule
    BY <1>3, <1>4
  <2>4. \A t \in Ids(srs2) \ Ids(srs) : /\ \A r \in srs2[t].rows : r[1] % Week \in srs2[t].rule /\ r[1] >= srs2[t].from
                                        /\ \A e \in srs2[t].skipped : e % Week \in srs2[t].rule
    BY <1>2 DEF Replans, Joins
  <2>5. \A c \in cps2 : c.day % Week \in srs2[c.parent].rule
    <3>1. \A t \in Ids(srs) : srs2[t].rule = srs[t].rule
      BY <1>3 DEF Replans
    <3>2. \A c \in cps : c.parent \in Ids(srs) /\ c.day % Week \in srs[c.parent].rule
      BY <1>4 DEF Ruled, Typed
    <3> QED
      BY <1>2, <3>1, <3>2 DEF Replans
  <2>6. \A t \in Ids(srs2) : /\ \A r \in srs2[t].rows : r[1] % Week \in srs2[t].rule /\ r[1] >= srs2[t].from
                             /\ \A e \in srs2[t].skipped : e % Week \in srs2[t].rule
    BY <1>6, <2>1, <2>2, <2>3, <2>4
  <2> QED
    BY <2>5, <2>6 DEF Ruled
<1>8. Lined(srs2)
  <2>1. CASE Ids(srs2) \ Ids(srs) = {}
    <3>1. Len(srs2) = Len(srs)
      <4>1. Ids(srs2) = Ids(srs)
        BY <1>3, <2>1
      <4> QED
        BY <1>1, <4>1 DEF Ids
    <3>2. Rewritten(srs, srs2, s)
      BY <1>1, <1>3, <3>1 DEF Rewritten
    <3>3. \A r \in srs2[s].rows : \/ r \in srs[s].rows
                                  \/ ~Over(r) /\ srs[s].from <= r[1] /\ r[1] < srs[s].until
      BY <1>2 DEF Replans
    <3>4. srs2[s].from = srs[s].from /\ srs2[s].until <= srs[s].until
      <4>1. srs[s].until \in Int
        BY <1>1 DEF SeriesRec
      <4> QED
        BY <4>1 DEF Replans
    <3> QED
      BY <3>2, <3>3, <3>4, KeepingLine
  <2>2. CASE Ids(srs2) \ Ids(srs) # {}
    BY <2>2 DEF Replans, Joins, Lined, Mixed
  <2> QED
    BY <2>1, <2>2
<1>9. Fits(srs2[s], ast2, now)
  <2>1. ASSUME NEW r \in srs2[s].rows, ~Passed(r, now)
        PROVE  /\ r[1] < (now \div 2) + Horizon /\ r[1] < srs2[s].until /\ r[1] \notin srs2[s].skipped
               /\ r[1] >= StartDay(srs2[s]) \/ r[1] \in ast2
    <3>1. ~Over(r) /\ r[1] \notin srs2[s].skipped \ srs[s].skipped
      BY <1>1, <1>3, <1>5, <2>1 DEF Replans
    <3>2. r \in srs[s].rows \/ r[1] \in P
      BY DEF Replans
    <3>3. /\ r[1] < (now \div 2) + Horizon /\ r[1] < srs[s].until /\ r[1] \notin srs[s].skipped
          /\ r[1] >= StartDay(srs[s]) \/ r[1] \in ast
      BY <1>2, <1>4, <1>5, <2>1, <3>2 DEF Fits
    <3>4. r[1] >= srs[s].from
      BY <1>2, <1>4, <3>2
    <3>5. StartDay(srs2[s]) = StartDay(srs[s]) \/ r[1] >= StartDay(srs2[s])
      BY <3>1, <3>4 DEF Replans, StartDay
    <3> QED
      BY <3>1, <3>3, <3>5 DEF Replans
  <2> QED
    BY <2>1 DEF Fits
<1>10. ASSUME NEW t \in Ids(srs2) \ Ids(srs) PROVE Fits(srs2[t], ast2, now)
  <2>1. Joins(srs2[t], srs[s], P)
    BY <1>10 DEF Replans
  <2> QED
    BY <1>2, <1>5, <2>1 DEF Joins, Fits, StartDay
<1>11. \A t \in Ids(srs) \ {s} : Fits(srs2[t], ast2, now)
  BY <1>3, <1>4 DEF Fits
<1>12. \A t \in Ids(srs2) : Fits(srs2[t], ast2, now)
  BY <1>6, <1>9, <1>10, <1>11
<1> QED
  BY <1>7, <1>8, <1>12 DEF Sound

LEMMA ReplanKeeps ==
  ASSUME NEW srs, NEW cps, NEW srs2, NEW cps2, NEW s \in Ids(srs), NEW P, NEW x \in Days,
         P \subseteq Days, srs[s] \in SeriesRec, Replans(srs, cps, srs2, cps2, s, P),
         x \in P \/ Kept(srs, cps, x),
         x \notin P => \A r \in srs[s].rows : r[1] = x => r \in srs2[s].rows,
         x \notin P /\ Names(srs[s], x) /\ ~Held(srs, cps, x) => \A d \in P : d < x
  PROVE  Kept(srs2, cps2, x)
<1>1. CASE x \in P
  BY <1>1 DEF Replans, Kept
<1>2. CASE x \notin P
  <2>1. Changes(srs, srs2, s) /\ CopiesOf(cps, cps2, s)
    BY DEF Replans, Changes, CopiesOf, Joins
  <2>2. Held(srs, cps, x) => Held(srs2, cps2, x)
    <3>1. CASE Copied(cps, x)
      BY <3>1 DEF Held, Copied, Replans
    <3>2. CASE Rowed(srs, x)
      <4>1. PICK u \in Ids(srs) : \E r \in srs[u].rows : r[1] = x
        BY <3>2 DEF Rowed
      <4>2. u \in Ids(srs2) /\ \E r \in srs2[u].rows : r[1] = x
        BY <1>2, <4>1 DEF Replans
      <4> QED
        BY <4>2 DEF Held, Rowed
    <3> QED
      BY <3>1, <3>2 DEF Held
  <2>3. ASSUME Awaits(srs, cps, s, x), ~Held(srs, cps, x)
        PROVE  Names(srs2[s], x) /\ (Clean(srs, cps, s, x) => Clean(srs2, cps2, s, x))
    <3>1. \A d \in P : d < x /\ d <= x
      BY <1>2, <2>3 DEF Awaits, Days
    <3>2. x >= StartDay(srs2[s])
      BY <2>3, <3>1 DEF Awaits, Names, StartDay, Replans
    <3>3. Names(srs2[s], x)
      BY <1>2, <2>3, <3>2 DEF Awaits, Names, Replans
    <3>4. Clean(srs, cps, s, x) => Clean(srs2, cps2, s, x)
      BY <3>1 DEF Clean, Replans
    <3> QED
      BY <3>3, <3>4
  <2> QED
    BY <1>2, <2>1, <2>2, <2>3, KeepingDay
<1> QED
  BY <1>1, <1>2

\* A day to come that a series names is planned, or lies beyond the horizon.
LEMMA NamedDays ==
  ASSUME now \in Nat, NEW x \in Days, x > Today, NEW me, NEW k \in Clocks, Names(me, x)
  PROVE  x \in DaysOf(me, k) \/ x >= Today + Horizon
<1>1. <<x, k>> \in Slots /\ <<x, k>>[1] = x
  BY SlotParts
<1>2. Today \in Nat /\ x \in Nat /\ Horizon \in Nat
  BY DaysToCome, SeriesAssumption DEF Days
<1>3. ~Over(<<x, k>>)
  BY <1>1, <1>2, DaysToCome
<1> QED
  BY <1>2, <1>3 DEF DaysOf, InHorizon

LEMMA ReseatReplans ==
  ASSUME NEW srs, NEW cps, NEW srs2, NEW cps2, NEW s \in Ids(srs), NEW P,
         NEW k, NEW mine, NEW others, NEW failed, Typed(srs, cps),
         Reseated(srs, cps, srs2, cps2, s, P, k, mine, others, failed)
  PROVE  Replans(srs, cps, srs2, cps2, s, P)
<1>1. /\ mine \subseteq P /\ others \subseteq P /\ failed \subseteq P /\ mine # {}
      /\ \A x \in P : x \in mine \/ x \in others \/ x \in failed
      /\ mine \in SUBSET Days /\ others \in SUBSET Days
  BY DEF Reseated
<1>2. Least(mine) \in mine /\ \A d \in mine : Least(mine) <= d
  BY <1>1, LeastDay
<1>3. \A d \in others : Least(others) <= d
  <2>1. CASE others = {}
    BY <2>1
  <2>2. CASE others # {}
    BY <1>1, <2>2, LeastDay
  <2> QED
    BY <2>1, <2>2
<1>4. \A t \in Ids(srs) : t \in Ids(srs2) /\ (t # s => srs2[t] = srs[t])
  BY DEF Reseated
<1>5. ASSUME NEW t \in Ids(srs2) \ Ids(srs) PROVE t # 1 /\ Joins(srs2[t], srs[s], P)
  <2>1. t = Len(srs) + 1 /\ Len(srs) \in Nat /\ Len(srs) >= 1
    BY LenProperties DEF Reseated, Typed
  <2>2. /\ srs2[t].rows = others \X {1 - k} /\ srs2[t].skipped = {}
        /\ srs2[t].rule = {d % Week : d \in others} /\ srs2[t].from = 0
        /\ srs2[t].until = srs[s].until /\ srs2[t].anchor = Least(others)
    BY DEF Reseated
  <2>3. \A r \in srs2[t].rows : r[1] \in others
    BY <2>2
  <2> QED
    BY <1>1, <1>3, <2>1, <2>2, <2>3 DEF Joins
<1>6. srs2[s].rule = srs[s].rule /\ srs2[s].from = srs[s].from /\ srs2[s].until = srs[s].until
  BY DEF Reseated
<1>7. \A r \in srs2[s].rows : \/ r \in srs[s].rows /\ Over(r)
                              \/ r[1] \in mine /\ ~Over(r)
  <2>1. srs2[s].rows = (srs[s].rows \ OpenRows(srs[s].rows)) \cup (mine \X {k})
    BY DEF Reseated
  <2>2. \A r \in mine \X {k} : r[1] \in mine /\ r = <<r[1], k>>
    OBVIOUS
  <2>3. \A d \in mine : ~Over(<<d, k>>)
    BY DEF Reseated
  <2>4. \A r \in mine \X {k} : r[1] \in mine /\ ~Over(r)
    BY <2>2, <2>3
  <2> QED
    BY <2>1, <2>4 DEF OpenRows
<1>8. \A e \in srs2[s].skipped : e \in srs[s].skipped \/ e \in others \cup failed
  BY DEF Reseated
<1>9. \A r \in srs2[s].rows : ~Over(r) => r[1] \notin srs2[s].skipped \ srs[s].skipped
  BY <1>7, <1>8 DEF Reseated
<1>10. srs2[s].anchor \in P /\ \A r \in srs2[s].rows : ~Over(r) => srs2[s].anchor <= r[1]
  BY <1>1, <1>2, <1>7 DEF Reseated
<1>11. PICK D : D = IF Cardinality(others) >= 2 THEN {} ELSE others
  OBVIOUS
<1>12. cps2 = cps \cup Parked(s, failed) \cup CopiesAt(s, D, 1 - k)
  BY <1>11 DEF Reseated
<1>13. /\ \A c \in Parked(s, failed) : c.parent = s /\ c.day \in failed
       /\ \A c \in CopiesAt(s, D, 1 - k) : c.parent = s /\ c.day \in others
  BY <1>11 DEF Parked, CopiesAt, CopyAt
<1>14. cps \subseteq cps2 /\ \A c \in cps2 : c \in cps \/ (c.parent = s /\ c.day \in P)
  BY <1>1, <1>12, <1>13
<1>15. ASSUME NEW x \in P PROVE Held(srs2, cps2, x)
  <2>1. CASE x \in mine
    <3>1. <<x, k>> \in srs2[s].rows
      BY <2>1 DEF Reseated
    <3> QED
      BY <1>4, <3>1 DEF Held, Rowed
  <2>2. CASE x \in others /\ Cardinality(others) >= 2
    <3>1. PICK t : t = Len(srs) + 1
      OBVIOUS
    <3>2. t \in Ids(srs2) /\ srs2[t].rows = others \X {1 - k}
      BY <2>2, <3>1 DEF Reseated
    <3>3. <<x, 1 - k>> \in srs2[t].rows
      BY <2>2, <3>2
    <3> QED
      BY <3>2, <3>3 DEF Held, Rowed
  <2>3. CASE x \in others /\ ~(Cardinality(others) >= 2)
    <3>1. CopyAt(s, x, 1 - k) \in cps2
      BY <1>11, <1>12, <2>3 DEF CopiesAt
    <3> QED
      BY <3>1 DEF Held, Copied, CopyAt
  <2>4. CASE x \in failed
    <3>1. [day |-> x, parent |-> s, slot |-> NoSlot, own |-> FALSE] \in cps2
      BY <1>12, <2>4 DEF Parked
    <3> QED
      BY <3>1 DEF Held, Copied
  <2> QED
    BY <1>1, <2>1, <2>2, <2>3, <2>4
<1>16. \A r \in srs2[s].rows : r \in srs[s].rows \/ (r[1] \in P /\ ~Over(r))
  BY <1>1, <1>7
<1>17. \A e \in srs2[s].skipped : e \in srs[s].skipped \/ e \in P
  BY <1>1, <1>8
<1> QED
  BY <1>4, <1>5, <1>6, <1>9, <1>10, <1>14, <1>15, <1>16, <1>17 DEF Replans

LEMMA ParkReplans ==
  ASSUME NEW srs, NEW cps, NEW s \in Ids(srs), NEW P, Typed(srs, cps),
         P \subseteq Days, OpenRows(srs[s].rows) = {}, ParkDays(srs, cps, s, P)
  PROVE  Replans(srs, cps, series', copies', s, P) /\ series'[s].rows = srs[s].rows
<1> DEFINE K  == srs[s].skipped \cup P
           j  == IF P = {} THEN NoClock ELSE srs[s].clock
           me == [srs[s] EXCEPT !.skipped = K, !.parked = srs[s].parked \/ P = {}, !.clock = j]
<1>1. srs \in Seq(SeriesRec) /\ srs[s] \in SeriesRec
  BY Parts DEF Typed
<1>2. /\ me.rows = srs[s].rows /\ me.skipped = K /\ me.rule = srs[s].rule /\ me.from = srs[s].from
      /\ me.until = srs[s].until /\ me.anchor = srs[s].anchor /\ me \in SeriesRec
  <2>1. /\ K \in SUBSET Days /\ (srs[s].parked \/ P = {}) \in BOOLEAN
        /\ j \in Clocks \cup {NoClock} /\ (srs[s].parked \/ P = {} \/ j \in Clocks)
    BY <1>1 DEF SeriesRec
  <2> HIDE DEF K, j
  <2>2. me \in SeriesRec
    BY <1>1, <2>1 DEF SeriesRec
  <2> QED
    BY <1>1, <2>2 DEF SeriesRec
<1>3. series' = [srs EXCEPT ![s] = me] /\ copies' = cps \cup Parked(s, P)
  BY DEF ParkDays
<1> HIDE DEF me
<1>4. Rewritten(srs, series', s) /\ series'[s] = me
  BY <1>1, <1>2, <1>3, Rewriting
<1>5. \A t \in Ids(srs) : t \in Ids(series') /\ (t # s => series'[t] = srs[t])
  BY <1>4 DEF Rewritten, Ids
<1>6. Ids(series') \ Ids(srs) = {}
  BY <1>4 DEF Rewritten, Ids
<1>7. \A c \in Parked(s, P) : c.parent = s /\ c.day \in P
  BY DEF Parked
<1>8. ASSUME NEW x \in P PROVE Held(series', copies', x)
  <2>1. [day |-> x, parent |-> s, slot |-> NoSlot, own |-> FALSE] \in copies'
    BY <1>3 DEF Parked
  <2> QED
    BY <2>1 DEF Held, Copied
<1>9. \A r \in srs[s].rows : Over(r)
  BY DEF OpenRows
<1>10. cps \subseteq copies' /\ \A c \in copies' : c \in cps \/ (c.parent = s /\ c.day \in P)
  BY <1>3, <1>7
<1> QED
  BY <1>2, <1>4, <1>5, <1>6, <1>8, <1>9, <1>10 DEF Replans

\* Seating a series: a day it plans is held, any other day stays kept.
LEMMA SeatingDays ==
  ASSUME NEW srs, NEW cps, NEW s \in Ids(srs), NEW wanted \in Clocks, NEW asked \in Nat, NEW X,
         Typed(srs, cps), Typed(series', copies'), Sound(srs, cps, astray, now), now \in Nat,
         Seat(srs, cps, s, wanted, asked), astray \subseteq astray',
         \A x \in X : /\ x \in Days /\ x > Today /\ x \notin astray
                      /\ \/ Kept(srs, cps, x)
                         \/ x \in DaysOf(srs[s], wanted) /\ OpenRows(srs[s].rows) = {}
  PROVE  Sound(series', copies', astray', now) /\ \A x \in X : Kept(series', copies', x)
<1> DEFINE P == DaysOf(srs[s], wanted)
<1>1. /\ srs \in Seq(SeriesRec) /\ srs[s] \in SeriesRec /\ P \subseteq Days
      /\ srs[s].rows \subseteq Slots
  BY Parts, Planned DEF Typed
<1>2. PICK f \in Answers(P, wanted) :
        IF \E d \in P : f[d] # Nowhere THEN Reseat(srs, cps, s, P, f, wanted)
        ELSE IF OpenRows(srs[s].rows) # {} THEN KeepSeats(srs, cps)
        ELSE ParkDays(srs, cps, s, P)
  BY DEF Seat
<1>3. ASSUME NEW x \in X, x \notin P, Names(srs[s], x)
      PROVE  \A d \in P : d < x
  <2>1. x \in Nat /\ Today \in Nat /\ Horizon \in Nat /\ x >= Today + Horizon
    BY <1>3, NamedDays, DaysToCome, SeriesAssumption DEF Days
  <2>2. \A d \in P : d \in Nat /\ d < Today + Horizon
    BY <1>1, PlannedDays
  <2> QED
    BY <2>1, <2>2
<1>4. ASSUME NEW x \in X, x \notin P, NEW r \in srs[s].rows, r[1] = x
      PROVE  Over(r)
  <2> SUFFICES ASSUME ~Over(r) PROVE FALSE
    OBVIOUS
  <2>1. ~Passed(r, now) /\ Fits(srs[s], astray, now) /\ Ruled(srs, cps) /\ Today = now \div 2
    BY <1>1, DaysToCome DEF Sound
  <2>2. /\ x < Today + Horizon /\ x < srs[s].until /\ x \notin srs[s].skipped
        /\ x >= StartDay(srs[s])
    BY <1>4, <2>1 DEF Fits
  <2>3. x % Week \in srs[s].rule
    BY <1>4, <2>1 DEF Ruled
  <2>4. Names(srs[s], x)
    BY <2>2, <2>3 DEF Names
  <2>5. x >= Today + Horizon /\ x \in Nat /\ Today \in Nat /\ Horizon \in Nat
    BY <1>4, <2>4, NamedDays, DaysToCome, SeriesAssumption DEF Days
  <2> QED
    BY <2>2, <2>5
<1>5. PICK srs2, cps2, ast2 : srs2 = series' /\ cps2 = copies' /\ ast2 = astray'
  OBVIOUS
<1>6. ASSUME Replans(srs, cps, srs2, cps2, s, P), 
             \A r \in srs[s].rows : Over(r) => r \in srs2[s].rows,
             \A x \in X : x \in P \/ Kept(srs, cps, x)
      PROVE  Sound(srs2, cps2, ast2, now) /\ \A x \in X : Kept(srs2, cps2, x)
  <2>1. Sound(srs2, cps2, ast2, now)
    <3>1. Typed(srs2, cps2) /\ astray \subseteq ast2 /\ P \subseteq DaysOf(srs[s], wanted)
      BY <1>5
    <3> HIDE DEF P
    <3> QED
      BY <1>6, <3>1, ReplanSound
  <2>2. ASSUME NEW x \in X PROVE Kept(srs2, cps2, x)
    <3>1. x \in Days /\ (x \in P \/ Kept(srs, cps, x))
      BY <1>6
    <3>2. x \notin P => \A r \in srs[s].rows : r[1] = x => r \in srs2[s].rows
      BY <1>4, <1>6
    <3>3. x \notin P /\ Names(srs[s], x) /\ ~Held(srs, cps, x) => \A d \in P : d < x
      BY <1>3
    <3> HIDE DEF P
    <3> QED
      BY <1>1, <1>6, <3>1, <3>2, <3>3, ReplanKeeps
  <2> QED
    BY <2>1, <2>2
<1>7. CASE \E d \in P : f[d] # Nowhere
  <2>1. PICK e \in P : f[e] # Nowhere
    BY <1>7
  <2>2. Reseat(srs, cps, s, P, f, wanted)
    BY <1>2, <1>7
  <2>3. \E k, mine, others, failed : Reseated(srs, cps, series', copies', s, P, k, mine, others, failed)
    <3> HIDE DEF P
    <3> QED
      BY <2>1, <2>2, ReseatShape DEF P
  <2>4. PICK k, mine, others, failed : Reseated(srs, cps, srs2, cps2, s, P, k, mine, others, failed)
    BY <1>5, <2>3
  <2>5. Replans(srs, cps, srs2, cps2, s, P)
    <3> HIDE DEF P
    <3> QED
      BY <2>4, ReseatReplans
  <2>6. \A r \in srs[s].rows : Over(r) => r \in srs2[s].rows
    BY <2>4 DEF Reseated, OpenRows
  <2>7. \A x \in X : x \in P \/ Kept(srs, cps, x)
    OBVIOUS
  <2> QED
    BY <1>5, <1>6, <2>5, <2>6, <2>7
<1>8. CASE KeepSeats(srs, cps) /\ OpenRows(srs[s].rows) # {}
  <2>1. series' = srs /\ copies' = cps
    BY <1>8 DEF KeepSeats
  <2>2. Sound(srs, cps, ast2, now)
    BY <1>5 DEF Sound, Fits
  <2> QED
    BY <1>5, <1>8, <2>1, <2>2
<1>9. CASE ParkDays(srs, cps, s, P) /\ OpenRows(srs[s].rows) = {}
  <2>1. Replans(srs, cps, series', copies', s, P) /\ series'[s].rows = srs[s].rows
    <3> HIDE DEF P
    <3> QED
      BY <1>1, <1>9, ParkReplans
  <2>2. Replans(srs, cps, srs2, cps2, s, P) /\ \A r \in srs[s].rows : Over(r) => r \in srs2[s].rows
    BY <1>5, <2>1
  <2>3. \A x \in X : x \in P \/ Kept(srs, cps, x)
    OBVIOUS
  <2> QED
    BY <1>5, <1>6, <2>2, <2>3
<1> QED
  BY <1>2, <1>7, <1>8, <1>9

LEMMA PlaceDays ==
  ASSUME Inv, Inv2, Inv', NEW s \in Ids(series), Place(s)
  PROVE  Inv2'
<1>1. due[s] \in Clocks
  <2>1. s \in 1 .. MaxSeries
    BY MembersAreSeries
  <2> QED
    BY <2>1 DEF Place, Inv
<1>2. PICK k \in Clocks : k = due[s]
  BY <1>1
<1>3. Seat(series, copies, s, k, 0)
  BY <1>2 DEF Place
<1>4. Typed(series, copies) /\ Typed(series', copies') /\ Sound(series, copies, astray, now) /\ now \in Nat
  BY Given DEF Inv
<1>5. astray \subseteq astray'
  BY <1>3 DEF Seat
<1>6. Gone \subseteq Gone' /\ now' = now
  BY <1>5 DEF Place, Gone
<1>7. PICK X : X = {x \in Days \ Gone' : x > Today}
  OBVIOUS
<1>8. \A x \in X : x \in Days /\ x > Today /\ x \notin astray /\ Kept(series, copies, x)
  BY <1>6, <1>7 DEF Gone, Inv2
<1>9. Sound(series', copies', astray', now) /\ \A x \in X : Kept(series', copies', x)
  BY <1>3, <1>4, <1>5, <1>8, SeatingDays
<1> QED
  BY <1>6, <1>7, <1>9, StaysSound

\* What an append leaves.
LEMMA AppendShape ==
  ASSUME NEW s \in Ids(series), NEW P, P \subseteq Missing(s), series[s].clock \in Clocks,
         series \in Seq(SeriesRec), AppendDays(s, P)
  PROVE  Replans(series, copies, series', copies', s, P) /\ series[s].rows \subseteq series'[s].rows
<1> DEFINE clock == series[s].clock
<1>1. PICK f \in Answers(P, clock) :
        /\ series' = [series EXCEPT
                ![s].rows    = @ \cup ((P \ ({d \in P : f[d] = 1 - clock} \cup {d \in P : f[d] = Nowhere})) \X {clock}),
                ![s].skipped = @ \cup {d \in P : f[d] = 1 - clock} \cup {d \in P : f[d] = Nowhere}]
        /\ copies' = copies \cup Parked(s, {d \in P : f[d] = Nowhere})
                            \cup {CopyAt(s, d, 1 - clock) : d \in {d \in P : f[d] = 1 - clock}}
  BY DEF AppendDays
<1> DEFINE moved  == {d \in P : f[d] = 1 - clock}
           failed == {d \in P : f[d] = Nowhere}
           mine   == P \ (moved \cup failed)
           R  == series[s].rows \cup (mine \X {clock})
           K  == series[s].skipped \cup moved \cup failed
           me == [series[s] EXCEPT !.rows = R, !.skipped = K]
<1>2. series[s] \in SeriesRec /\ series[s].rows \subseteq Slots /\ series[s].skipped \subseteq Days
  BY Parts
<1>3. /\ P \in SUBSET Days
      /\ \A d \in P : ~Over(<<d, clock>>) /\ \A r \in series[s].rows : r[1] # d
  BY Planned DEF Missing, RowsOn, DaysOf
<1>4. moved \subseteq P /\ failed \subseteq P /\ mine \subseteq P /\ \A x \in P : x \in mine \/ x \in moved \/ x \in failed
  OBVIOUS
<1>5. mine \cap moved = {} /\ mine \cap failed = {}
  OBVIOUS
<1>6. series' = [series EXCEPT ![s] = me]
  <2> HIDE DEF moved, failed
  <2>1. series' = [series EXCEPT ![s].rows = @ \cup ((P \ (moved \cup failed)) \X {clock}),
                                 ![s].skipped = @ \cup moved \cup failed]
    BY <1>1 DEF moved, failed
  <2> QED
    BY <2>1
<1>7. copies' = copies \cup Parked(s, failed) \cup CopiesAt(s, moved, 1 - clock)
  BY <1>1 DEF CopiesAt
<1> HIDE DEF moved, failed, mine
<1>8. R \in SUBSET Slots /\ K \in SUBSET Days
  BY <1>2, <1>3, <1>4 DEF Slots
<1>9. /\ me \in SeriesRec /\ me.rows = R /\ me.skipped = K /\ me.rule = series[s].rule /\ me.from = series[s].from
      /\ me.until = series[s].until /\ me.anchor = series[s].anchor
  <2> HIDE DEF R, K
  <2>1. me \in SeriesRec
    BY <1>2, <1>8 DEF SeriesRec
  <2> QED
    BY <1>2, <2>1 DEF SeriesRec
<1> HIDE DEF me
<1>10. Rewritten(series, series', s) /\ series'[s] = me
  <2>1. me \in SeriesRec
    BY <1>9
  <2>2. Rewritten(series, [series EXCEPT ![s] = me], s) /\ [series EXCEPT ![s] = me][s] = me
    BY <2>1, Rewriting
  <2> QED
    BY <1>6, <2>2
<1>11. /\ Ids(series') = Ids(series) /\ \A t \in Ids(series) : t # s => series'[t] = series[t]
  BY <1>10 DEF Rewritten, Ids
<1>12. \A r \in mine \X {clock} : r[1] \in mine /\ ~Over(r)
  <2>1. \A r \in mine \X {clock} : r[1] \in mine /\ r = <<r[1], clock>>
    OBVIOUS
  <2> QED
    BY <1>3, <1>4, <2>1
<1>13. \A r \in series'[s].rows : r \in series[s].rows \/ (r[1] \in mine /\ ~Over(r))
  BY <1>9, <1>10, <1>12
<1>14. \A e \in series'[s].skipped : e \in series[s].skipped \/ e \in moved \cup failed
  BY <1>9, <1>10
<1>15. \A r \in series'[s].rows : r[1] \notin moved \cup failed
  BY <1>3, <1>4, <1>5, <1>13
<1>16. \A c \in copies' : c \in copies \/ (c.parent = s /\ c.day \in P)
  BY <1>4, <1>7 DEF Parked, CopiesAt, CopyAt
<1>17. ASSUME NEW x \in P PROVE Held(series', copies', x)
  <2>1. CASE x \in mine
    <3>1. <<x, clock>> \in series'[s].rows
      BY <1>9, <1>10, <2>1
    <3> QED
      BY <1>11, <3>1 DEF Held, Rowed
  <2>2. CASE x \in moved
    <3>1. CopyAt(s, x, 1 - clock) \in copies'
      BY <1>7, <2>2 DEF CopiesAt
    <3> QED
      BY <3>1 DEF Held, Copied, CopyAt
  <2>3. CASE x \in failed
    <3>1. [day |-> x, parent |-> s, slot |-> NoSlot, own |-> FALSE] \in copies'
      BY <1>7, <2>3 DEF Parked
    <3> QED
      BY <3>1 DEF Held, Copied
  <2> QED
    BY <1>4, <2>1, <2>2, <2>3
<1>18. series[s].rows \subseteq series'[s].rows /\ copies \subseteq copies'
  BY <1>7, <1>9, <1>10
<1>19. \A r \in series'[s].rows : ~Over(r) => r[1] \notin series'[s].skipped \ series[s].skipped
  BY <1>14, <1>15
<1>20. /\ series'[s].rule = series[s].rule /\ series'[s].from = series[s].from
       /\ series'[s].until = series[s].until /\ series'[s].anchor = series[s].anchor
  BY <1>9, <1>10
<1>21. /\ \A r \in series'[s].rows : r \in series[s].rows \/ (r[1] \in P /\ ~Over(r))
       /\ \A e \in series'[s].skipped : e \in series[s].skipped \/ e \in P
  BY <1>4, <1>13, <1>14
<1> QED
  BY <1>11, <1>16, <1>17, <1>18, <1>19, <1>20, <1>21 DEF Replans

LEMMA ExtendDays ==
  ASSUME Inv, Inv2, Inv', NEW s \in Ids(series), Extend(s)
  PROVE  Inv2'
<1>1. PICK last \in Missing(s) \cup {LastDay} :
        /\ AppendDays(s, {d \in Missing(s) : d <= last})
        /\ dropped' = dropped \cup {d \in Yielded(s) : d <= last}
  BY DEF Extend
<1>2. PICK P, k : P = {d \in Missing(s) : d <= last} /\ k = series[s].clock
  OBVIOUS
<1>3. P \subseteq Missing(s) /\ AppendDays(s, P)
  BY <1>1, <1>2
<1>4. k \in Clocks /\ series \in Seq(SeriesRec) /\ series[s] \in SeriesRec
  <2>1. ~series[s].parked
    BY DEF Extend, Continues
  <2> QED
    BY <1>2, <2>1, Parts DEF Inv, Typed
<1>5. PICK srs2, cps2, ast2 : srs2 = series' /\ cps2 = copies' /\ ast2 = astray'
  OBVIOUS
<1>6. Replans(series, copies, srs2, cps2, s, P) /\ series[s].rows \subseteq srs2[s].rows
  BY <1>2, <1>3, <1>4, <1>5, AppendShape
<1>7. Typed(series, copies) /\ Typed(srs2, cps2) /\ Sound(series, copies, astray, now) /\ now \in Nat
  BY <1>5, Given DEF Inv
<1>8. /\ astray \subseteq ast2 /\ now' = now /\ Gone \subseteq Gone'
      /\ {d \in Yielded(s) : d <= last} \subseteq Gone'
  BY <1>1, <1>3, <1>5 DEF AppendDays, Extend, Gone
<1>9. P \subseteq DaysOf(series[s], k) /\ P \subseteq Days
  BY <1>2, <1>3, Planned DEF Missing
<1>10. Sound(srs2, cps2, ast2, now)
  BY <1>6, <1>7, <1>8, <1>9, ReplanSound
<1>11. ASSUME NEW x \in Days \ Gone', x > Today PROVE Kept(srs2, cps2, x)
  <2>1. Kept(series, copies, x)
    BY <1>8, <1>11, Given
  <2>2. x \notin P => \A r \in series[s].rows : r[1] = x => r \in srs2[s].rows
    BY <1>6
  <2>3. ASSUME x \notin P, Names(series[s], x), ~Held(series, copies, x)
        PROVE  \A d \in P : d < x
    <3>1. CASE x \in DaysOf(series[s], k)
      <4>1. Holders(x) = {}
        BY <2>3 DEF Held, Copied, Rowed, Holders, RowsOn
      <4>2. \A t \in Ids(series) : RowsOn(series[t].rows, x) = {}
        BY <2>3 DEF Held, Rowed, RowsOn
      <4>3. x \in Missing(s) \/ x \in Yielded(s)
        BY <1>2, <3>1, <4>1, <4>2 DEF Missing, Yielded, HeldByOther
      <4>4. ~(x <= last)
        BY <1>2, <1>8, <1>11, <2>3, <4>3
      <4>5. last \in Int /\ x \in Int /\ \A d \in P : d \in Int /\ d <= last
        BY <1>2, <1>9, Planned, SeriesAssumption DEF Missing, Days
      <4> QED
        BY <4>4, <4>5
    <3>2. CASE x \notin DaysOf(series[s], k)
      <4>1. x \in Nat /\ Today \in Nat /\ Horizon \in Nat /\ x >= Today + Horizon
        BY <1>4, <1>7, <1>11, <2>3, <3>2, NamedDays, DaysToCome, SeriesAssumption DEF Days
      <4>2. \A d \in P : d \in Nat /\ d < Today + Horizon
        BY <1>4, <1>9, PlannedDays
      <4> QED
        BY <4>1, <4>2
    <3> QED
      BY <3>1, <3>2
  <2> QED
    BY <1>4, <1>6, <1>9, <2>1, <2>2, <2>3, ReplanKeeps
<1> QED
  BY <1>5, <1>8, <1>10, <1>11, StaysSound

\* The series that is cut is sound, and keeps what lies before the cut.
\* The cut of series s before day d, as a whole.
Cuts(cut, s, d) ==
  /\ Typed(cut, copies) /\ Sound(cut, copies, astray, now) /\ Rewritten(series, cut, s)
  /\ Lesser(series[s], cut[s], {}) /\ cut[s].anchor = series[s].anchor
  /\ cut[s].until = (IF series[s].until > d THEN d ELSE series[s].until)
  /\ \A r \in series[s].rows : r[1] < d \/ Over(r) => r \in cut[s].rows

LEMMA CutSound ==
  ASSUME Inv, Inv2, NEW s \in Ids(series), NEW d \in Days, NEW cut,
         cut = [series EXCEPT ![s] = EndedAt(series[s], d)]
  PROVE  Cuts(cut, s, d)
<1>1. PICK me : me = EndedAt(series[s], d)
  OBVIOUS
<1>2. series \in Seq(SeriesRec) /\ series[s] \in SeriesRec /\ series[s].rows \subseteq Slots
  BY Given
<1>3. /\ me \in SeriesRec /\ Lesser(series[s], me, {}) /\ me.anchor = series[s].anchor
      /\ me.until = (IF series[s].until > d THEN d ELSE series[s].until)
      /\ me.rows = series[s].rows \ RowsFrom(OpenRows(series[s].rows), d)
  BY <1>1, <1>2, EndingAt, Frame, Ends, Given
<1>4. Rewritten(series, cut, s) /\ cut[s] = me
  BY <1>1, <1>2, <1>3, Rewriting
<1>5. Typed(series, copies) /\ Sound(series, copies, astray, now) /\ now \in Nat
      /\ \A c \in copies : c.parent \in Ids(series) /\ c.day % Week \in series[c.parent].rule
  BY Given
<1>6. PICK K : K = {}
  OBVIOUS
<1>7. Lesser(series[s], cut[s], K) /\ \A e \in K : e % Week \in series[s].rule
  BY <1>3, <1>4, <1>6
<1>8. Sound(cut, copies, astray, now)
  BY <1>4, <1>5, <1>7, LessIsSound
<1>9. Typed(cut, copies)
  BY <1>4, <1>5 DEF Typed, Rewritten, Ids
<1>10. \A r \in series[s].rows : r[1] < d \/ Over(r) => r \in cut[s].rows
  <2>1. \A r \in series[s].rows : r[1] \in Int /\ d \in Int
    BY <1>2, SlotParts DEF Days
  <2> QED
    BY <1>3, <1>4, <2>1 DEF RowsFrom, OpenRows
<1> QED
  BY <1>3, <1>4, <1>8, <1>9, <1>10 DEF Cuts

\* Where members follow one another, the days from an open row on are the
\* series' own, and no member begins before it ends.
LEMMA OwnDays ==
  ASSUME Inv, Inv2, NEW s \in Ids(series), ~Mixed(series),
         NEW r \in series[s].rows, ~Over(r), NEW t \in Ids(series), t # s
  PROVE  /\ series[t].from # series[s].from /\ r[1] < series[s].until
         /\ series[t].from < series[s].from => series[t].until <= series[s].from
         /\ series[t].from > series[s].from => series[s].until <= series[t].from
<1>1. series[t].from # series[s].from
      /\ (series[s].from < series[t].from => Follows(series[s], series[t]))
      /\ (series[t].from < series[s].from => Follows(series[t], series[s]))
  BY DEF Inv2, Sound, Lined
<1>2. r[1] < series[s].until
  BY Given
<1>3. series[s].from \in Int /\ series[t].from \in Int
  <2>1. series[s] \in SeriesRec /\ series[t] \in SeriesRec
    BY Given
  <2> QED
    BY <2>1 DEF SeriesRec
<1> QED
  BY <1>1, <1>2, <1>3 DEF Follows

\* Where members follow one another, the others leave a new one its days.
Roomy(srs, me) ==
  Mixed(srs) \/ \A t \in Ids(srs) : /\ srs[t].from # me.from
                                    /\ srs[t].from < me.from => srs[t].until <= me.from
                                    /\ me.from < srs[t].from => me.until <= srs[t].from

\* The member me joins as number n.
Joined(srs, srs2, n, me) ==
  /\ n \in Ids(srs2) /\ n \notin Ids(srs) /\ srs2[n] = me
  /\ \A t \in Ids(srs) : t \in Ids(srs2) /\ srs2[t] = srs[t]
  /\ \A t \in Ids(srs2) : t \in Ids(srs) \/ t = n

\* A new member joins with no rows, where the others leave it room.
LEMMA JoinSound ==
  ASSUME NEW srs, NEW cps, NEW me \in SeriesRec, NEW ast, Typed(srs, cps), Sound(srs, cps, ast, now),
         NEW srs2, NEW n, srs2 = Append(srs, me), n = Len(srs) + 1,
         me.rows = {}, me.skipped = {}, Roomy(srs, me)
  PROVE  Sound(srs2, cps, ast, now) /\ Typed(srs2, cps) /\ Joined(srs, srs2, n, me)
<1>1. srs \in Seq(SeriesRec) /\ Len(srs) \in Nat /\ Len(srs) >= 1
  BY LenProperties DEF Typed
<1>2. /\ srs2 \in Seq(SeriesRec) /\ Len(srs2) = n /\ srs2[n] = me
      /\ \A t \in 1 .. Len(srs) : srs2[t] = srs[t]
  BY <1>1, AppendProperties
<1>3. Ids(srs2) = Ids(srs) \cup {n} /\ n \notin Ids(srs)
  BY <1>1, <1>2 DEF Ids
<1>4. \A t \in Ids(srs) : t \in Ids(srs2) /\ srs2[t] = srs[t]
  BY <1>2, <1>3 DEF Ids
<1>5. Typed(srs2, cps)
  <2>1. Len(srs2) >= 1
    BY <1>1, <1>2
  <2> QED
    BY <1>2, <1>4, <2>1 DEF Typed
<1>6. Ruled(srs2, cps)
  <2>1. \A t \in Ids(srs2) : /\ \A r \in srs2[t].rows : r[1] % Week \in srs2[t].rule /\ r[1] >= srs2[t].from
                             /\ \A e \in srs2[t].skipped : e % Week \in srs2[t].rule
    BY <1>2, <1>3, <1>4 DEF Sound, Ruled
  <2>2. \A c \in cps : c.day % Week \in srs2[c.parent].rule
    BY <1>4 DEF Sound, Ruled, Typed
  <2> QED
    BY <2>1, <2>2 DEF Ruled
<1>7. Lined(srs2)
  <2>1. CASE Mixed(srs)
    BY <1>4, <2>1 DEF Mixed, Lined
  <2>2. CASE ~Mixed(srs)
    <3>1. ASSUME NEW u \in Ids(srs2), NEW t \in Ids(srs2), u # t
          PROVE  srs2[u].from # srs2[t].from /\ (srs2[u].from < srs2[t].from => Follows(srs2[u], srs2[t]))
      <4>1. CASE u \in Ids(srs) /\ t \in Ids(srs)
        BY <1>4, <2>2, <3>1, <4>1 DEF Sound, Lined
      <4>2. CASE u = n /\ t \in Ids(srs)
        BY <1>2, <1>4, <2>2, <4>2 DEF Follows, Roomy
      <4>3. CASE u \in Ids(srs) /\ t = n
        BY <1>2, <1>4, <2>2, <4>3 DEF Follows, Roomy
      <4> QED
        BY <1>3, <3>1, <4>1, <4>2, <4>3
    <3> QED
      BY <3>1 DEF Lined
  <2> QED
    BY <2>1, <2>2
<1>8. \A t \in Ids(srs2) : Fits(srs2[t], ast, now)
  BY <1>2, <1>3, <1>4 DEF Sound, Fits
<1> QED
  BY <1>2, <1>3, <1>4, <1>5, <1>6, <1>7, <1>8 DEF Sound, Joined

\* The day was held, or a member awaits it, before the cut: what becomes of it.
LEMMA HeldBeforeCut ==
  ASSUME NEW s \in Ids(series), NEW cut, NEW d, NEW x \in Days, Rewritten(series, cut, s),
         \A r \in series[s].rows : r[1] < d \/ Over(r) => r \in cut[s].rows,
         Held(series, copies, x)
  PROVE  \/ Held(cut, copies, x)
         \/ \E r \in series[s].rows : r[1] = x /\ ~Over(r) /\ ~(x < d)
<1>1. CASE Copied(copies, x)
  BY <1>1 DEF Held
<1>2. CASE Rowed(series, x)
  <2>1. PICK u \in Ids(series) : \E r \in series[u].rows : r[1] = x
    BY <1>2 DEF Rowed
  <2>2. PICK r \in series[u].rows : r[1] = x
    BY <2>1
  <2>3. u \in Ids(cut)
    BY DEF Rewritten, Ids
  <2>4. CASE u # s \/ r \in cut[s].rows
    BY <2>2, <2>3, <2>4 DEF Held, Rowed, Rewritten
  <2>5. CASE u = s /\ r \notin cut[s].rows
    BY <2>2, <2>5
  <2> QED
    BY <2>4, <2>5
<1> QED
  BY <1>1, <1>2 DEF Held

\* A row to come is a day the series names, but for the days lost count of.
LEMMA OpenDaysAreNamed ==
  ASSUME Inv, Inv2, NEW s \in Ids(series), NEW r \in series[s].rows, ~Over(r), r[1] \notin astray
  PROVE  /\ r[1] < series[s].until /\ r[1] % Week \in series[s].rule
         /\ r[1] < Today + Horizon /\ Names(series[s], r[1])
<1>1. /\ Fits(series[s], astray, now) /\ r \in Slots /\ now \in Nat
      /\ r[1] % Week \in series[s].rule
  BY Given DEF Sound
<1>2. ~Passed(r, now) /\ Today = now \div 2
  BY <1>1, DaysToCome
<1> QED
  BY <1>1, <1>2 DEF Fits, Names

\* The days from d on are the series' own: a tail on them has room.
LEMMA FreshRoom ==
  ASSUME Inv, Inv2, NEW s \in Ids(series), NEW d \in Days,
         NEW cut, Cuts(cut, s, d),
         NEW fresh \in SeriesRec, fresh.from = d,
         fresh.until = (IF series[s].until > d THEN series[s].until ELSE NoEnd),
         Tails(s, d) = {}, NEW o \in series[s].rows, o[1] = d, ~Over(o), \E r \in series[s].rows : r[1] < d
  PROVE  /\ Ids(cut) = Ids(series) /\ Len(cut) = Len(series) /\ \A t \in Ids(series) \ {s} : cut[t] = series[t]
         /\ \A t \in Ids(series) : cut[t].from = series[t].from
         /\ d \in Int /\ series[s].from < d /\ d < series[s].until /\ fresh.until = series[s].until
         /\ series[s].until \in Int /\ series[s].from \in Int /\ cut[s].until = d
         /\ \A t \in Ids(series) : series[t].from \in Int /\ series[t].until \in Int
         /\ Mixed(series) \/ \A t \in Ids(series) \ {s} :
              /\ series[t].from < series[s].from => series[t].until <= series[s].from
              /\ series[t].from > series[s].from => series[s].until <= series[t].from
              /\ series[t].from # series[s].from
         /\ Roomy(cut, fresh)
<1>1. /\ Typed(cut, copies) /\ Sound(cut, copies, astray, now) /\ Rewritten(series, cut, s)
      /\ Lesser(series[s], cut[s], {}) /\ cut[s].anchor = series[s].anchor
      /\ cut[s].until = (IF series[s].until > d THEN d ELSE series[s].until)
      /\ \A r \in series[s].rows : r[1] < d \/ Over(r) => r \in cut[s].rows
  BY DEF Cuts
<1>2. /\ Ids(cut) = Ids(series) /\ Len(cut) = Len(series) /\ \A t \in Ids(series) \ {s} : cut[t] = series[t]
      /\ \A t \in Ids(series) : cut[t].from = series[t].from
  BY <1>1 DEF Rewritten, Lesser, Ids
<1>4. /\ d \in Int /\ series[s].from < d /\ d < series[s].until /\ fresh.until = series[s].until
      /\ series[s].until \in Int /\ series[s].from \in Int /\ cut[s].until = d
      /\ \A t \in Ids(series) : series[t].from \in Int /\ series[t].until \in Int
  <2>0. \A t \in Ids(series) : series[t] \in SeriesRec
    BY Given
  <2>1. d \in Int /\ \A t \in Ids(series) : series[t].from \in Int /\ series[t].until \in Int
    BY <2>0 DEF Days, SeriesRec
  <2>2. \A r \in series[s].rows : r[1] >= series[s].from /\ r[1] \in Int
    <3>1. series[s].rows \subseteq Slots
      BY Given
    <3> QED
      BY <3>1, SlotParts, Given DEF Ruled, Days
  <2>3. d < series[s].until
    BY Given
  <2> QED
    BY <1>1, <2>1, <2>2, <2>3
<1>5. Mixed(cut) <=> Mixed(series)
  BY <1>2 DEF Mixed
<1>6. ~Mixed(series) => \A t \in Ids(series) \ {s} :
        /\ series[t].from < series[s].from => series[t].until <= series[s].from
        /\ series[t].from > series[s].from => series[s].until <= series[t].from
        /\ series[t].from # series[s].from
  BY OwnDays
<1>7. Roomy(cut, fresh)
  <2> SUFFICES ASSUME ~Mixed(series), NEW t \in Ids(series)
               PROVE  /\ cut[t].from # d
                      /\ cut[t].from < d => cut[t].until <= d
                      /\ d < cut[t].from => series[s].until <= cut[t].from
    BY <1>2, <1>4, <1>5 DEF Roomy
  <2>1. CASE t = s
    BY <1>2, <1>4, <2>1
  <2>2. CASE t # s
    <3>1. series[t].from # d
      BY <2>2 DEF Tails
    <3>2. cut[t] = series[t]
      BY <1>2, <2>2
    <3>3. /\ series[t].from < series[s].from => series[t].until <= series[s].from
          /\ series[t].from > series[s].from => series[s].until <= series[t].from
          /\ series[t].from # series[s].from
      BY <1>6, <2>2
    <3>4. series[t].from \in Int /\ series[t].until \in Int
      BY <1>4
    <3> QED
      BY <1>4, <3>1, <3>2, <3>3, <3>4
  <2> QED
    BY <2>1, <2>2
<1> QED
  BY <1>2, <1>4, <1>6, <1>7

\* The tail that starts on day d is new.
LEMMA SplitFresh ==
  ASSUME Inv, Inv2, Inv', NEW s \in Ids(series), NEW d \in Days,
         NEW cut, Cuts(cut, s, d),
         NEW fresh \in SeriesRec, fresh.from = d,
         fresh.until = (IF series[s].until > d THEN series[s].until ELSE NoEnd),
         Tails(s, d) = {}, NEW o \in series[s].rows, o[1] = d, ~Over(o), \E r \in series[s].rows : r[1] < d,
         fresh.rule = series[s].rule, fresh.rows = {}, fresh.skipped = {},
         NEW srs, NEW n, Sound(srs, copies, astray, now), Typed(srs, copies), Joined(cut, srs, n, fresh),
         NEW k \in Clocks, Seat(srs, copies, n, k, 1), UNCHANGED <<now, dismissed, ended, dropped>>
  PROVE  Inv2'
<1>1. /\ Typed(cut, copies) /\ Sound(cut, copies, astray, now) /\ Rewritten(series, cut, s)
      /\ Lesser(series[s], cut[s], {}) /\ cut[s].anchor = series[s].anchor
      /\ cut[s].until = (IF series[s].until > d THEN d ELSE series[s].until)
      /\ \A r \in series[s].rows : r[1] < d \/ Over(r) => r \in cut[s].rows
  BY DEF Cuts
<1>2. /\ Ids(cut) = Ids(series) /\ \A t \in Ids(series) \ {s} : cut[t] = series[t]
      /\ \A t \in Ids(series) : cut[t].from = series[t].from
  BY FreshRoom
<1>4. /\ d \in Int /\ series[s].from < d /\ d < series[s].until /\ fresh.until = series[s].until
      /\ series[s].until \in Int /\ series[s].from \in Int /\ cut[s].until = d
      /\ \A t \in Ids(series) : series[t].from \in Int /\ series[t].until \in Int
  BY FreshRoom
<1>6. ~Mixed(series) => \A t \in Ids(series) \ {s} :
        /\ series[t].from < series[s].from => series[t].until <= series[s].from
        /\ series[t].from > series[s].from => series[s].until <= series[t].from
        /\ series[t].from # series[s].from
  BY FreshRoom
<1>9. /\ n \in Ids(srs) /\ srs[n] = fresh /\ n \notin Ids(cut)
      /\ \A t \in Ids(cut) : t \in Ids(srs) /\ srs[t] = cut[t]
      /\ \A t \in Ids(srs) : t \in Ids(cut) \/ t = n
  BY DEF Joined
<1>11. astray \subseteq astray' /\ Gone \subseteq Gone'
  BY DEF Seat, Gone
<1>12. Mixed(series) => Mixed(srs)
  BY <1>9, <1>2 DEF Mixed
<1>13. now \in Nat /\ Typed(series', copies')
  <2>1. now \in Nat
    BY Given
  <2> QED
    BY <2>1 DEF Inv
<1>14. ASSUME NEW x \in Days \ Gone', x > Today, Held(series, copies, x)
       PROVE  Held(srs, copies, x) \/ (x \in DaysOf(fresh, k) /\ OpenRows(fresh.rows) = {})
  <2>1. CASE Held(cut, copies, x)
    <3>1. CASE Copied(copies, x)
      BY <3>1 DEF Held
    <3>2. CASE Rowed(cut, x)
      <4>1. Rowed(srs, x)
        BY <1>9, <3>2 DEF Rowed
      <4> QED
        BY <4>1 DEF Held
    <3> QED
      BY <2>1, <3>1, <3>2 DEF Held
  <2>2. CASE \E r \in series[s].rows : r[1] = x /\ ~Over(r) /\ ~(x < d)
    <3>1. PICK r \in series[s].rows : r[1] = x /\ ~Over(r) /\ ~(x < d)
      BY <2>2
    <3>2. x \notin astray
      BY <1>11, <1>14 DEF Gone
    <3>3. x < series[s].until /\ x % Week \in series[s].rule /\ x < Today + Horizon
      BY <3>1, <3>2, OpenDaysAreNamed
    <3>4. x \in Int /\ Today \in Int /\ Horizon \in Int /\ d # 0
      BY <1>13, DaysToCome, SeriesAssumption DEF Days
    <3>5. Names(fresh, x)
      BY <1>4, <3>1, <3>3, <3>4 DEF Names, StartDay
    <3>6. x \in DaysOf(fresh, k)
      BY <1>13, <1>14, <3>3, <3>4, <3>5, NamedDays
    <3> QED
      BY <3>6 DEF OpenRows
  <2> QED
    BY <1>1, <1>14, <2>1, <2>2, HeldBeforeCut
<1>15. ASSUME NEW x \in Days \ Gone', x > Today, ~Held(series, copies, x)
       PROVE  Kept(srs, copies, x)
  <2>1. PICK u \in Ids(series) : Leads(series, x) /\ Awaits(series, copies, u, x)
    BY <1>11, <1>15 DEF Inv2, Kept
  <2>2. x \in Int /\ d # 0
    BY DEF Days
  <2>3. x >= d => Leads(srs, x)
    <3>1. CASE Mixed(series)
      BY <1>12, <3>1 DEF Leads
    <3>2. CASE ~Mixed(series) /\ x >= d
      <4>1. \A t \in Ids(srs) : srs[t].from <= x
        BY <1>9, <1>2, <1>4, <2>1, <2>2, <3>2 DEF Leads
      <4> QED
        BY <4>1 DEF Leads
    <3> QED
      BY <3>1, <3>2
  <2>4. CASE u = s /\ x >= d
    <3>1. Names(fresh, x)
      BY <1>4, <2>1, <2>2, <2>4 DEF Awaits, Names, StartDay
    <3>2. Clean(srs, copies, n, x)
      <4>1. \A c \in copies : c.parent # n
        BY <1>9, <1>1 DEF Typed
      <4> QED
        BY <1>9, <4>1 DEF Clean
    <3>3. Awaits(srs, copies, n, x)
      BY <1>9, <3>1, <3>2 DEF Awaits
    <3> QED
      BY <1>9, <2>3, <2>4, <3>3 DEF Kept
  <2>5. CASE u = s /\ ~(x >= d)
    <3>1. ~Clean(series, copies, s, x)
      BY <1>4, <2>2, <2>5 DEF Clean
    <3>2. Mixed(series) /\ series[s].from # 0 /\ Names(series[s], x)
      BY <2>1, <2>5, <3>1 DEF Awaits
    <3>3. Names(cut[s], x)
      <4>1. cut[s].from = series[s].from /\ cut[s].rule = series[s].rule /\ cut[s].skipped = series[s].skipped
        BY <1>1 DEF Lesser
      <4>2. x < cut[s].until
        BY <1>4, <2>2, <2>5
      <4> QED
        BY <3>2, <4>1, <4>2 DEF Names, StartDay
    <3>4. Awaits(srs, copies, s, x) /\ Leads(srs, x) /\ s \in Ids(srs)
      BY <1>9, <1>2, <1>12, <3>2, <3>3 DEF Awaits, Leads
    <3> QED
      BY <3>4 DEF Kept
  <2>6. CASE u # s
    <3>1. srs[u] = series[u] /\ u \in Ids(srs)
      BY <1>9, <1>2, <2>6
    <3>2. Awaits(srs, copies, u, x)
      BY <1>12, <2>1, <3>1 DEF Awaits, Clean
    <3>3. CASE Mixed(series)
      BY <1>12, <3>1, <3>2, <3>3 DEF Leads, Kept
    <3>4. CASE x >= d
      BY <2>3, <3>1, <3>2, <3>4 DEF Kept
    <3>5. CASE ~Mixed(series) /\ ~(x >= d)
      <4>1. series[u].from <= x /\ series[s].from <= x /\ x < series[u].until
        BY <2>1, <3>5 DEF Leads, Awaits, Names
      <4>2. /\ series[u].from < series[s].from => series[u].until <= series[s].from
            /\ series[u].from > series[s].from => series[s].until <= series[u].from
            /\ series[u].from # series[s].from
        BY <1>6, <2>6, <3>5
      <4>3. series[u].from \in Int /\ series[u].until \in Int
        BY <1>4
      <4> QED
        BY <1>4, <2>2, <3>5, <4>1, <4>2, <4>3
    <3> QED
      BY <3>3, <3>4, <3>5
  <2> QED
    BY <2>4, <2>5, <2>6
<1>16. PICK X : X = {x \in Days \ Gone' : x > Today}
  OBVIOUS
<1>17. \A x \in X : /\ x \in Days /\ x > Today /\ x \notin astray
                    /\ \/ Kept(srs, copies, x)
                       \/ x \in DaysOf(srs[n], k) /\ OpenRows(srs[n].rows) = {}
  BY <1>9, <1>11, <1>14, <1>15, <1>16 DEF Gone, Kept
<1>18. Sound(series', copies', astray', now) /\ \A x \in X : Kept(series', copies', x)
  BY <1>9, <1>11, <1>13, <1>17, SeatingDays
<1> QED
  BY <1>16, <1>18, StaysSound

\* A tail of another member, or of an earlier attempt, starts on day d.
LEMMA SplitStale ==
  ASSUME Inv, Inv2, Inv', NEW s \in Ids(series), NEW d \in Days, NEW k \in Clocks,
         NEW cut, Cuts(cut, s, d),
         NEW t \in Tails(s, d), \E r \in series[s].rows : r[1] < d,
         NEW srs, NEW me \in SeriesRec, Rewritten(cut, srs, t), srs[t] = me, Seat(srs, copies, t, k, 1),
         me.rows = series[t].rows, me.skipped = series[t].skipped, me.rule = series[t].rule,
         me.from = d, me.until = series[t].until, me.anchor = d,
         dropped' = dropped \cup {x \in Days : x >= d /\ Names(series[s], x) /\ ~Names(series[t], x)},
         UNCHANGED <<now, dismissed, ended>>
  PROVE  Inv2'
<1>1. /\ Typed(cut, copies) /\ Sound(cut, copies, astray, now) /\ Rewritten(series, cut, s)
      /\ Lesser(series[s], cut[s], {}) /\ cut[s].anchor = series[s].anchor
      /\ cut[s].until = (IF series[s].until > d THEN d ELSE series[s].until)
      /\ \A r \in series[s].rows : r[1] < d \/ Over(r) => r \in cut[s].rows
  BY DEF Cuts
<1>2. /\ Ids(cut) = Ids(series) /\ \A u \in Ids(series) \ {s} : cut[u] = series[u]
      /\ \A u \in Ids(series) : cut[u].from = series[u].from
      /\ cut \in Seq(SeriesRec)
  BY <1>1 DEF Rewritten, Lesser, Ids
<1>3. t \in Ids(series) /\ t # s /\ series[t].from = d /\ cut[t] = series[t] /\ d # 0 /\ d \in Int
  BY <1>2 DEF Tails, Days
<1>4. \A u \in Ids(series) : series[u] \in SeriesRec /\ series[u].from \in Int /\ series[u].until \in Int
                             /\ series[u].rows \subseteq Slots
  <2>1. \A u \in Ids(series) : series[u] \in SeriesRec /\ series[u].rows \subseteq Slots
    BY Given
  <2> QED
    BY <2>1 DEF SeriesRec
<1>5. series[s].from < d
  <2>1. PICK r \in series[s].rows : r[1] < d
    OBVIOUS
  <2>2. r[1] >= series[s].from /\ r[1] \in Int
    BY <1>4, SlotParts, Given DEF Ruled, Days
  <2> QED
    BY <1>3, <1>4, <2>1, <2>2
<1>6. ~Mixed(series) => series[s].until <= d
  BY <1>3, <1>5 DEF Inv2, Sound, Lined, Follows
<1>12. /\ Ids(srs) = Ids(series) /\ \A u \in Ids(series) \ {s, t} : srs[u] = series[u]
       /\ srs[s] = cut[s] /\ \A u \in Ids(series) : srs[u].from = series[u].from
  BY <1>2, <1>3 DEF Rewritten, Ids
<1>13. now \in Nat /\ Typed(series', copies') /\ Ruled(series, copies)
       /\ \A c \in copies : c.parent \in Ids(series) /\ c.day % Week \in series[c.parent].rule
  BY Given DEF Inv
<1>14. Typed(srs, copies)
  BY <1>1 DEF Typed, Rewritten, Ids
<1>15. Sound(srs, copies, astray, now)
  <2>1. PICK K : K = {}
    OBVIOUS
  <2>2. \A r \in series[t].rows : d <= r[1]
    BY <1>3, <1>4, <1>13, SlotParts DEF Ruled, Days
  <2>3. Lesser(cut[t], srs[t], K)
    BY <1>3, <1>4, <2>1, <2>2 DEF Lesser
  <2>4. \A c \in copies : c.parent \in Ids(cut) /\ c.day % Week \in cut[c.parent].rule
    BY <1>1, <1>2, <1>13 DEF Lesser
  <2>5. t \in Ids(cut) /\ \A e \in K : e % Week \in cut[t].rule
    BY <1>2, <1>3, <2>1
  <2> QED
    BY <1>1, <1>13, <2>3, <2>4, <2>5, LessIsSound
<1>16. astray \subseteq astray' /\ Gone \subseteq Gone' /\ dropped' \subseteq Gone'
  BY DEF Seat, Gone
<1>17. Mixed(series) <=> Mixed(srs)
  BY <1>12 DEF Mixed
<1>18. ASSUME NEW x \in Days \ Gone', x > Today, x >= d, Mixed(series), Names(series[s], x)
       PROVE  Kept(srs, copies, x)
  <2>1. Names(series[t], x)
    BY <1>16, <1>18
  <2>2. Names(srs[t], x)
    BY <1>3, <2>1 DEF Names, StartDay
  <2>3. Awaits(srs, copies, t, x)
    BY <1>3, <1>12, <1>17, <1>18, <2>2 DEF Awaits
  <2> QED
    BY <1>3, <1>12, <1>17, <1>18, <2>3 DEF Kept, Leads
<1>19. ASSUME NEW x \in Days \ Gone', x > Today, Held(series, copies, x)
       PROVE  Kept(srs, copies, x)
  <2>1. CASE Held(cut, copies, x)
    <3>1. \A u \in Ids(series) : srs[u].rows = cut[u].rows
      BY <1>2, <1>3, <1>12
    <3> QED
      BY <1>2, <1>12, <2>1, <3>1 DEF Kept, Held, Rowed
  <2>2. CASE \E r \in series[s].rows : r[1] = x /\ ~Over(r) /\ ~(x < d)
    <3>1. PICK r \in series[s].rows : r[1] = x /\ ~Over(r) /\ ~(x < d)
      BY <2>2
    <3>2. x \notin astray
      BY <1>16, <1>19 DEF Gone
    <3>3. x < series[s].until /\ Names(series[s], x)
      BY <3>1, <3>2, OpenDaysAreNamed
    <3>4. x \in Int /\ x >= d
      BY <1>3, <3>1 DEF Days
    <3>5. Mixed(series)
      BY <1>3, <1>4, <1>6, <3>3, <3>4
    <3> QED
      BY <1>18, <1>19, <3>3, <3>4, <3>5
  <2> QED
    BY <1>1, <1>19, <2>1, <2>2, HeldBeforeCut
<1>20. ASSUME NEW x \in Days \ Gone', x > Today, ~Held(series, copies, x)
       PROVE  Kept(srs, copies, x)
  <2>1. PICK u \in Ids(series) : Leads(series, x) /\ Awaits(series, copies, u, x)
    BY <1>16, <1>20 DEF Inv2, Kept
  <2>2. Leads(srs, x)
    BY <1>12, <1>17, <2>1 DEF Leads
  <2>3. x \in Int
    BY DEF Days
  <2>4. CASE u = s /\ x >= d
    <3>1. Names(series[s], x) /\ x < series[s].until
      BY <2>1, <2>4 DEF Awaits, Names
    <3>2. Mixed(series)
      BY <1>3, <1>4, <1>6, <2>3, <2>4, <3>1
    <3> QED
      BY <1>18, <1>20, <2>4, <3>1, <3>2
  <2>5. CASE u = s /\ ~(x >= d)
    <3>0. /\ cut[s].from = series[s].from /\ cut[s].rule = series[s].rule
          /\ cut[s].skipped = series[s].skipped /\ cut[s].rows \subseteq series[s].rows
      BY <1>1 DEF Lesser
    <3>1. Names(srs[s], x)
      <4>1. x < cut[s].until /\ Names(series[s], x)
        BY <1>1, <1>3, <1>4, <2>1, <2>3, <2>5 DEF Awaits, Names
      <4> QED
        BY <1>1, <1>12, <3>0, <4>1 DEF Names, StartDay
    <3>2. Clean(series, copies, s, x) => Clean(srs, copies, s, x)
      BY <1>12, <3>0 DEF Clean
    <3>3. Awaits(srs, copies, s, x)
      BY <1>12, <1>17, <2>1, <2>5, <3>1, <3>2 DEF Awaits
    <3> QED
      BY <1>12, <2>2, <3>3 DEF Kept
  <2>6. CASE u = t
    <3>1. Names(srs[t], x)
      BY <1>3, <2>1, <2>6 DEF Awaits, Names, StartDay
    <3>2. Clean(series, copies, t, x) => Clean(srs, copies, t, x)
      BY DEF Clean
    <3>3. Awaits(srs, copies, t, x)
      BY <1>12, <1>17, <2>1, <2>6, <3>1, <3>2 DEF Awaits
    <3> QED
      BY <1>3, <1>12, <2>2, <3>3 DEF Kept
  <2>7. CASE u \notin {s, t}
    <3>1. srs[u] = series[u] /\ u \in Ids(srs)
      BY <1>12, <2>7
    <3>2. Awaits(srs, copies, u, x)
      BY <1>17, <2>1, <3>1 DEF Awaits, Clean
    <3> QED
      BY <2>2, <3>1, <3>2 DEF Kept
  <2> QED
    BY <2>4, <2>5, <2>6, <2>7
<1>21. PICK X : X = {x \in Days \ Gone' : x > Today}
  OBVIOUS
<1>22. \A x \in X : x \in Days /\ x > Today /\ x \notin astray /\ Kept(srs, copies, x)
  BY <1>16, <1>19, <1>20, <1>21 DEF Gone
<1>23. t \in Ids(srs)
  BY <1>3, <1>12
<1>24. Sound(series', copies', astray', now) /\ \A x \in X : Kept(series', copies', x)
  BY <1>13, <1>14, <1>15, <1>16, <1>22, <1>23, SeatingDays
<1> QED
  BY <1>21, <1>24, StaysSound

LEMMA SplitDays ==
  ASSUME Inv, Inv2, Inv', NEW s \in Ids(series), NEW d \in Days, NEW k \in Clocks, Split(s, d, k)
  PROVE  Inv2'
<1> DEFINE old   == EndedAt(series[s], d)
           v     == IF series[s].until > d THEN series[s].until ELSE NoEnd
           fresh == [old EXCEPT !.from = d, !.anchor = d, !.clock = k, !.rows = {}, !.until = v,
                                !.skipped = {}, !.parked = FALSE]
           cut   == [series EXCEPT ![s] = old]
<1>1. \/ /\ Tails(s, d) = {}
         /\ Seat(Append(cut, fresh), copies, Len(series) + 1, k, 1)
         /\ dropped' = dropped
      \/ \E t \in Tails(s, d) :
         /\ Seat([cut EXCEPT ![t].clock = k, ![t].anchor = d], copies, t, k, 1)
         /\ dropped' = dropped \cup {x \in Days : x >= d /\ Names(series[s], x) /\ ~Names(series[t], x)}
  BY DEF Split
<1>2. /\ RowsOn(OpenRows(series[s].rows), d) # {} \/ Tails(s, d) # {}
      /\ \E r \in series[s].rows : r[1] < d
      /\ UNCHANGED <<now, dismissed, ended>>
  BY DEF Split
<1>3. series[s] \in SeriesRec
  BY Given
<1>4. v \in 1 .. NoEnd /\ v = (IF series[s].until > d THEN series[s].until ELSE NoEnd)
  BY <1>3, SeriesAssumption DEF NoEnd, SeriesRec
<1>5. old \in SeriesRec /\ old.rule = series[s].rule
  BY <1>3, EndingAt, Frame
<1>6. PICK c : c = cut
  OBVIOUS
<1>7. c = [series EXCEPT ![s] = EndedAt(series[s], d)]
  BY <1>6
<1> HIDE DEF old, v
<1>8. /\ fresh \in SeriesRec /\ fresh.rows = {} /\ fresh.skipped = {} /\ fresh.from = d
      /\ fresh.rule = series[s].rule /\ fresh.until = v
  <2>1. d \in 0 .. LastDay
    BY DEF Days
  <2>2. fresh \in SeriesRec
    BY <1>4, <1>5, <2>1 DEF SeriesRec
  <2> QED
    BY <1>5, <2>2 DEF SeriesRec
<1>9. PICK g : g = fresh
  OBVIOUS
<1> HIDE DEF fresh, cut
<1>12. Cuts(c, s, d)
  BY <1>7, CutSound
<1>10. CASE /\ Tails(s, d) = {}
            /\ Seat(Append(c, g), copies, Len(series) + 1, k, 1)
            /\ dropped' = dropped
  <2>1. /\ g \in SeriesRec /\ g.rows = {} /\ g.skipped = {} /\ g.from = d /\ g.rule = series[s].rule
        /\ g.until = (IF series[s].until > d THEN series[s].until ELSE NoEnd)
    BY <1>4, <1>8, <1>9
  <2>2. PICK o \in series[s].rows : o[1] = d /\ ~Over(o)
    BY <1>2, <1>10 DEF RowsOn, OpenRows
  <2>3. PICK srs, n : srs = Append(c, g) /\ n = Len(c) + 1
    OBVIOUS
  <2>4. Len(c) = Len(series)
    BY <1>12 DEF Cuts, Rewritten
  <2>5. Seat(srs, copies, n, k, 1)
    BY <1>10, <2>3, <2>4
  <2>7. Roomy(c, g)
    BY <1>2, <1>10, <1>12, <2>1, <2>2, FreshRoom
  <2>8. Typed(c, copies) /\ Sound(c, copies, astray, now)
    BY <1>12 DEF Cuts
  <2>9. Sound(srs, copies, astray, now) /\ Typed(srs, copies) /\ Joined(c, srs, n, g)
    BY <2>1, <2>3, <2>7, <2>8, JoinSound
  <2>6. UNCHANGED <<now, dismissed, ended, dropped>> /\ Tails(s, d) = {} /\ \E r \in series[s].rows : r[1] < d
    BY <1>2, <1>10
  <2> QED
    BY <1>12, <2>1, <2>2, <2>5, <2>6, <2>9, SplitFresh
<1>11. CASE \E t \in Tails(s, d) :
         /\ Seat([c EXCEPT ![t].clock = k, ![t].anchor = d], copies, t, k, 1)
         /\ dropped' = dropped \cup {x \in Days : x >= d /\ Names(series[s], x) /\ ~Names(series[t], x)}
  <2>1. PICK t \in Tails(s, d) :
         /\ Seat([c EXCEPT ![t].clock = k, ![t].anchor = d], copies, t, k, 1)
         /\ dropped' = dropped \cup {x \in Days : x >= d /\ Names(series[s], x) /\ ~Names(series[t], x)}
    BY <1>11
  <2>2. t \in Ids(series) /\ t \in Ids(c) /\ c \in Seq(SeriesRec) /\ c[t] = series[t] /\ series[t].from = d
    BY <1>12 DEF Tails, Cuts, Rewritten, Ids
  <2>3. c[t] \in SeriesRec
    BY <2>2, Given
  <2>4. PICK me : me = [c[t] EXCEPT !.clock = k, !.anchor = d]
    OBVIOUS
  <2>5. me \in SeriesRec
    BY <2>3, <2>4 DEF SeriesRec
  <2>6. /\ me.rows = series[t].rows /\ me.skipped = series[t].skipped /\ me.rule = series[t].rule
        /\ me.from = d /\ me.until = series[t].until /\ me.anchor = d
    BY <2>2, <2>3, <2>4, <2>5 DEF SeriesRec
  <2>7. [c EXCEPT ![t].clock = k, ![t].anchor = d] = [c EXCEPT ![t] = me]
    BY <2>2, <2>4
  <2>8. PICK srs : srs = [c EXCEPT ![t] = me]
    OBVIOUS
  <2>9. Rewritten(c, srs, t) /\ srs[t] = me
    BY <2>2, <2>5, <2>8, Rewriting
  <2>10. Seat(srs, copies, t, k, 1)
    BY <2>1, <2>7, <2>8
  <2>11. UNCHANGED <<now, dismissed, ended>> /\ \E r \in series[s].rows : r[1] < d
    BY <1>2
  <2> QED
    BY <1>12, <2>1, <2>5, <2>6, <2>9, <2>10, <2>11, SplitStale
<1> QED
  BY <1>1, <1>6, <1>9, <1>10, <1>11

\* The new series names every day to come.
LEMMA InitDays == Init => Inv2
<1> SUFFICES ASSUME Init PROVE Inv2
  OBVIOUS
<1> DEFINE me == [rule |-> 0 .. Week - 1, from |-> 0, anchor |-> 1, clock |-> 0,
                  until |-> NoEnd, skipped |-> {}, rows |-> {}, parked |-> FALSE]
<1>1. /\ me.rule = 0 .. Week - 1 /\ me.from = 0 /\ me.anchor = 1 /\ me.until = NoEnd
      /\ me.rows = {} /\ me.skipped = {}
  OBVIOUS
<1>2. series = <<me>> /\ copies = {}
  BY DEF Init
<1> HIDE DEF me
<1>3. Ids(series) = {1} /\ series[1] = me
  BY <1>2 DEF Ids
<1>4. Sound(series, copies, astray, now)
  <2>1. Ruled(series, copies)
    BY <1>1, <1>2, <1>3 DEF Ruled
  <2>2. Lined(series)
    BY <1>3 DEF Lined
  <2>3. Fits(series[1], astray, now)
    BY <1>1, <1>3 DEF Fits
  <2> QED
    BY <1>3, <2>1, <2>2, <2>3 DEF Sound
<1>5. ASSUME NEW x \in Days
      PROVE  Kept(series, copies, x)
  <2>1. x \in Int /\ 1 <= x /\ x < NoEnd /\ x % Week \in 0 .. Week - 1
    BY SeriesAssumption DEF Days, NoEnd
  <2>2. Names(me, x)
    BY <1>1, <2>1 DEF Names, StartDay
  <2>3. Clean(series, copies, 1, x)
    BY <1>1, <1>2, <1>3 DEF Clean
  <2>4. Leads(series, x)
    BY <1>1, <1>3, <2>1 DEF Leads
  <2> QED
    BY <1>3, <2>2, <2>3, <2>4 DEF Kept, Awaits
<1> QED
  BY <1>4, <1>5 DEF Inv2

LEMMA NextDays == Inv /\ Inv2 /\ [Next]_vars => Inv2'
<1> SUFFICES ASSUME Inv, Inv2, [Next]_vars
             PROVE  Inv2'
  OBVIOUS
<1>1. Inv'
  BY NextInv
<1>2. ASSUME NEW s \in Ids(series), OfSeries(s)
      PROVE  Inv2'
  <2>1. CASE Place(s) \/ Extend(s)
    BY <1>1, <2>1, PlaceDays, ExtendDays
  <2>2. ASSUME NEW d \in Days, NEW k \in Clocks, SaveClock(s, d, k) \/ Split(s, d, k)
        PROVE  Inv2'
    BY <1>1, <2>2, SaveClockDays, SplitDays
  <2>3. ASSUME NEW d \in Days, EndFrom(s, d) \/ SkipDay(s, d)
        PROVE  Inv2'
    BY <2>3, EndFromDays, SkipDayDays
  <2>4. ASSUME NEW d \in Days, NEW slot \in Slots \cup {NoSlot},
               Displace(s, d, slot) \/ MoveDay(s, d, slot)
        PROVE  Inv2'
    BY <2>4, DisplaceDays, MoveDayDays
  <2>5. ASSUME NEW r \in Slots, HandOver(s, r)
        PROVE  Inv2'
    BY <2>5, HandOverDays
  <2> QED
    BY <1>2, <2>1, <2>2, <2>3, <2>4, <2>5 DEF OfSeries
<1>3. ASSUME NEW c \in copies, OfCopy(c)
      PROVE  Inv2'
  BY <1>3, PlaceCopyDays, SkipCopyDays, DeleteCopyDays DEF OfCopy
<1>4. CASE Purge \/ Tick
  BY <1>4, PurgeDays, TickDays
<1>5. CASE UNCHANGED vars
  <2>1. UNCHANGED <<series, copies, now, dismissed, ended, dropped, astray>>
    BY <1>5 DEF vars
  <2>2. Sound(series', copies', astray', now')
    BY <2>1 DEF Inv2
  <2>3. Gone' = Gone /\ Today' = Today
    BY <2>1 DEF Gone, Today
  <2>4. \A x \in Days \ Gone : x > Today => Kept(series', copies', x)
    BY <2>1 DEF Inv2
  <2> QED
    BY <2>2, <2>3, <2>4 DEF Inv2
<1> QED
  BY <1>2, <1>3, <1>4, <1>5 DEF Next

\* The seat a series continues from is the latest of its rows.
LEMMA LatestSeat ==
  ASSUME NEW me \in SeriesRec, me.rows # {}
  PROVE  /\ \E r \in me.rows : LastSeat(me) = 2 * r[1] + r[2]
         /\ \A r \in me.rows : 2 * r[1] + r[2] <= LastSeat(me)
<1> DEFINE seats == {2 * r[1] + r[2] : r \in me.rows}
           top   == 2 * LastDay + 1
<1>1. me.rows \subseteq Slots
  BY DEF SeriesRec
<1>2. \A y \in seats : y \in Nat /\ y <= top
  BY <1>1, SlotParts, SeriesAssumption DEF Days, Clocks
<1>3. top \in Nat /\ seats # {}
  BY SeriesAssumption
<1>4. LastSeat(me) = CHOOSE y \in seats : \A z \in seats : z <= y
  BY <1>3 DEF LastSeat
<1> HIDE DEF seats, top
<1>5. \E y \in seats : \A z \in seats : z <= y
  <2>1. PICK S : S = {top - y : y \in seats}
    OBVIOUS
  <2>2. S \in SUBSET Nat /\ S # {}
    BY <1>2, <1>3, <2>1
  <2>3. PICK n \in S : \A m \in S : n <= m
    BY <2>2, LeastNat
  <2>4. PICK y \in seats : n = top - y
    BY <2>1, <2>3
  <2>5. ASSUME NEW z \in seats
        PROVE  z <= y
    <3>1. n <= top - z
      BY <2>1, <2>3
    <3> QED
      BY <1>2, <1>3, <2>4, <3>1
  <2> QED
    BY <2>5
<1>6. LastSeat(me) \in seats /\ \A z \in seats : z <= LastSeat(me)
  BY <1>4, <1>5
<1> QED
  BY <1>6 DEF seats

\* In one line, the member that is to come to a day is the one continued.
LEMMA LeaderContinues ==
  ASSUME Inv, Inv2, NEW d \in Days, NEW s \in Ids(series), Plain,
         Leads(series, d), Awaits(series, copies, s, d)
  PROVE  Continues(s)
<1>1. ~Mixed(series)
  BY DEF Plain, Mixed
<1>2. \A t \in Ids(series) : /\ series[t] \in SeriesRec /\ series[t].rows # {} /\ ~series[t].parked
                             /\ series[t].rows \subseteq Slots
  BY Given DEF Plain
<1>3. \A t \in Ids(series) : LastSeat(series[t]) \in Int
  <2> SUFFICES ASSUME NEW t \in Ids(series) PROVE LastSeat(series[t]) \in Int
    OBVIOUS
  <2>1. PICK r \in series[t].rows : LastSeat(series[t]) = 2 * r[1] + r[2]
    BY <1>2, LatestSeat
  <2>2. r[1] \in Int /\ r[2] \in Int
    BY <1>2, SlotParts DEF Days, Clocks
  <2> QED
    BY <2>1, <2>2
<1>4. \A t \in Ids(series) \ {s} : LastSeat(series[t]) < LastSeat(series[s])
  <2> SUFFICES ASSUME NEW t \in Ids(series), t # s
               PROVE  LastSeat(series[t]) < LastSeat(series[s])
    OBVIOUS
  <2>1. /\ series[s].from # series[t].from
        /\ series[s].from < series[t].from => Follows(series[s], series[t])
        /\ series[t].from < series[s].from => Follows(series[t], series[s])
    BY <1>1 DEF Inv2, Sound, Lined
  <2>2. /\ series[s].from \in Int /\ series[t].from \in Int /\ series[s].until \in Int /\ d \in Int
    BY <1>2 DEF SeriesRec, Days, NoEnd
  <2>3. series[t].from <= d /\ d < series[s].until
    BY <1>1 DEF Leads, Awaits, Names
  <2>4. Follows(series[t], series[s])
    BY <2>1, <2>2, <2>3 DEF Follows
  <2>5. PICK q \in series[t].rows : LastSeat(series[t]) = 2 * q[1] + q[2]
    BY <1>2, LatestSeat
  <2>6. PICK r \in series[s].rows : LastSeat(series[s]) = 2 * r[1] + r[2]
    BY <1>2, LatestSeat
  <2> QED
    BY <2>4, <2>5, <2>6 DEF Follows
<1>5. 2 * series[s].anchor + series[s].clock \in Int
  BY <1>2 DEF SeriesRec, Days, Clocks, NoClock
<1> QED
  BY <1>2, <1>4, <1>5 DEF Continues

\* No day to come is lost: until the group repeats at two clocks at once, each
\* day has its occurrence, or the user took it off, or it is of the days the
\* code is known to drop, or the series that names it is the one that the
\* background pass extends next: the tables stay in the line that pass relies on
\* (splitSeries, moveSeriesTail, seatRecurringHorizonUnlocked).
THEOREM NoDayIsLost == Spec => []NoDayLost
<1>1. Spec => [](Inv /\ Inv2)
  <2>1. Init => Inv /\ Inv2
    BY InitInv, InitDays
  <2>2. (Inv /\ Inv2) /\ [Next]_vars => (Inv /\ Inv2)'
    BY NextInv, NextDays
  <2> QED
    BY <2>1, <2>2, PTL DEF Spec
<1>2. Inv /\ Inv2 => NoDayLost
  <2> SUFFICES ASSUME Inv, Inv2, NEW d \in Days, d > Today,
                      d \notin dismissed \cup ended \cup dropped \cup astray
               PROVE  \/ Holders(d) # {}
                      \/ \E s \in Ids(series) : Names(series[s], d) /\ (Plain => Continues(s))
    BY DEF NoDayLost
  <2>1. Kept(series, copies, d)
    BY DEF Inv2, Gone
  <2>2. CASE Copied(copies, d)
    BY <2>2 DEF Copied, Holders
  <2>3. CASE Rowed(series, d)
    BY <2>3 DEF Rowed, Holders, RowsOn
  <2>4. CASE ~Held(series, copies, d)
    <3>1. PICK s \in Ids(series) : Leads(series, d) /\ Awaits(series, copies, s, d)
      BY <2>1, <2>4 DEF Kept
    <3>2. Names(series[s], d)
      BY <3>1 DEF Awaits
    <3>3. Plain => Continues(s)
      BY <3>1, LeaderContinues
    <3> QED
      BY <3>2, <3>3
  <2> QED
    BY <2>2, <2>3, <2>4 DEF Held
<1> QED
  BY <1>1, <1>2, PTL

-----------------------------------------------------------------------------
(* A member's skip outlasts every step, while nobody holds the day.        *)

\* Nobody holds the day.
Bare(srs, cps, d) == ~Copied(cps, d) /\ ~Rowed(srs, d)

\* The member skips the day, and has no row or copy of it.
StillSkips(srs, cps, s, d) ==
  /\ d \in srs[s].skipped
  /\ \A r \in srs[s].rows : r[1] # d
  /\ \A c \in cps : ~(c.day = d /\ c.parent = s)

\* A bare day a member skips is not in what is planned for it.
LEMMA SeatKeepsSkips ==
  ASSUME NEW srs, NEW cps, NEW s \in Ids(srs), NEW wanted \in Clocks, NEW asked,
         Typed(srs, cps), Seat(srs, cps, s, wanted, asked),
         NEW t \in Ids(srs), NEW d \in srs[t].skipped, Bare(srs, cps, d)
  PROVE  t \in Ids(series') /\ StillSkips(series', copies', t, d)
<1> DEFINE P == DaysOf(srs[s], wanted)
<1>1. srs \in Seq(SeriesRec) /\ srs[s] \in SeriesRec /\ P \subseteq Days
  BY Parts, Planned DEF Typed
<1>2. PICK f \in Answers(P, wanted) :
        IF \E e \in P : f[e] # Nowhere THEN Reseat(srs, cps, s, P, f, wanted)
        ELSE IF OpenRows(srs[s].rows) # {} THEN KeepSeats(srs, cps)
        ELSE ParkDays(srs, cps, s, P)
  BY DEF Seat
<1>3. t = s => d \notin P
  BY Planned
<1>4. /\ \A r \in srs[t].rows : r[1] # d
      /\ \A c \in cps : c.day # d
  BY DEF Bare, Copied, Rowed
<1>5. CASE \E e \in P : f[e] # Nowhere
  <2>1. PICK e \in P : f[e] # Nowhere
    BY <1>5
  <2>2. PICK k, mine, others, failed : Reseated(srs, cps, series', copies', s, P, k, mine, others, failed)
    BY <1>2, <2>1, ReseatShape
  <2>3. /\ t \in Ids(series') /\ (t # s => series'[t] = srs[t])
        /\ series'[s].rows = (srs[s].rows \ OpenRows(srs[s].rows)) \cup (mine \X {k})
        /\ series'[s].skipped = srs[s].skipped \cup others \cup failed
        /\ P = mine \cup others \cup failed
    BY <2>2 DEF Reseated
  <2>4. copies' = cps \cup Parked(s, failed)
                  \cup CopiesAt(s, IF Cardinality(others) >= 2 THEN {} ELSE others, 1 - k)
    BY <2>2 DEF Reseated
  <2>5. \A c \in copies' : c \in cps \/ (c.parent = s /\ c.day \in P)
    BY <2>3, <2>4 DEF Parked, CopiesAt, CopyAt
  <2>6. \A r \in series'[t].rows : r[1] # d
    BY <1>3, <1>4, <2>3
  <2> QED
    BY <1>3, <1>4, <2>3, <2>5, <2>6 DEF StillSkips
<1>6. CASE ~(\E e \in P : f[e] # Nowhere) /\ OpenRows(srs[s].rows) # {}
  BY <1>2, <1>4, <1>6 DEF KeepSeats, StillSkips
<1>7. CASE ~(\E e \in P : f[e] # Nowhere) /\ OpenRows(srs[s].rows) = {}
  <2>1. ParkDays(srs, cps, s, P)
    BY <1>2, <1>7
  <2>2. Replans(srs, cps, series', copies', s, P) /\ series'[s].rows = srs[s].rows
    BY <1>1, <1>7, <2>1, ParkReplans
  <2>3. /\ t \in Ids(series') /\ (t # s => series'[t] = srs[t])
        /\ \A c \in copies' : c \in cps \/ (c.parent = s /\ c.day \in P)
    BY <2>2 DEF Replans
  <2>4. series'[s].skipped = srs[s].skipped \cup P
    <3> DEFINE K  == srs[s].skipped \cup P
               j  == IF P = {} THEN NoClock ELSE srs[s].clock
               b  == srs[s].parked \/ P = {}
               me == [srs[s] EXCEPT !.skipped = K, !.parked = b, !.clock = j]
    <3>1. series' = [srs EXCEPT ![s] = me]
      BY <1>1, <2>1 DEF ParkDays, Ids
    <3>2. K \in SUBSET Days /\ b \in BOOLEAN /\ j \in Clocks \cup {NoClock} /\ (b \/ j \in Clocks)
      BY <1>1 DEF SeriesRec
    <3> HIDE DEF K, j, b
    <3>3. me \in SeriesRec
      BY <1>1, <3>2 DEF SeriesRec
    <3>4. me.skipped = K
      BY <1>1, <3>3 DEF SeriesRec
    <3> HIDE DEF me
    <3>5. series'[s] = me
      BY <1>1, <3>1, <3>3, Rewriting
    <3> QED
      BY <3>4, <3>5 DEF K
  <2> QED
    BY <1>3, <1>4, <2>2, <2>3, <2>4 DEF StillSkips
<1> QED
  BY <1>5, <1>6, <1>7

\* A step that gives the day nothing leaves it skipped.
LEMMA ShrinkingKeepsSkips ==
  ASSUME NEW srs2, NEW cps2, NEW t \in Ids(series), NEW d \in series[t].skipped,
         Bare(series, copies, d), Shrinks(series, copies, srs2, cps2, d)
  PROVE  t \in Ids(srs2) /\ StillSkips(srs2, cps2, t, d)
BY DEF Bare, Copied, Rowed, Shrinks, StillSkips

\* One member changes: it loses rows and skips more, but on the day e.
LEMMA OneShrinks ==
  ASSUME NEW srs \in Seq(SeriesRec), NEW s \in Ids(srs), NEW me \in SeriesRec, NEW cps, NEW cps2, NEW e,
         \A r \in me.rows : r[1] = e \/ r \in srs[s].rows,
         srs[s].skipped \subseteq me.skipped \cup {e},
         \A c \in cps2 : c.day = e \/ c \in cps
  PROVE  \A d : d # e => Shrinks(srs, cps, [srs EXCEPT ![s] = me], cps2, d)
<1> DEFINE srs2 == [srs EXCEPT ![s] = me]
<1>1. Rewritten(srs, srs2, s) /\ srs2[s] = me
  BY Rewriting
<1> HIDE DEF srs2
<1>2. Ids(srs2) = Ids(srs) /\ \A t \in Ids(srs) \ {s} : srs2[t] = srs[t]
  BY <1>1 DEF Rewritten, Ids
<1>3. \A d : d # e => Shrinks(srs, cps, srs2, cps2, d)
  BY <1>1, <1>2 DEF Shrinks
<1> QED
  BY <1>3 DEF srs2

\* A split cuts the series, lets the tail join, and seats it.
LEMMA SplitSkips ==
  ASSUME Inv, NEW s \in Ids(series), NEW e \in Days, NEW k \in Clocks, Split(s, e, k),
         NEW t \in Ids(series), NEW d \in series[t].skipped, Bare(series, copies, d)
  PROVE  t \in Ids(series') /\ StillSkips(series', copies', t, d)
<1> DEFINE old   == EndedAt(series[s], e)
           v     == IF series[s].until > e THEN series[s].until ELSE NoEnd
           fresh == [old EXCEPT !.from = e, !.anchor = e, !.clock = k, !.rows = {}, !.until = v,
                                !.skipped = {}, !.parked = FALSE]
           cut   == [series EXCEPT ![s] = old]
<1>1. series \in Seq(SeriesRec) /\ series[s] \in SeriesRec /\ Len(series) \in Nat /\ Typed(series, copies)
  BY MembersAreSeries DEF Inv, Typed
<1>2. \/ Seat(Append(cut, fresh), copies, Len(series) + 1, k, 1)
      \/ \E u \in Tails(s, e) : Seat([cut EXCEPT ![u].clock = k, ![u].anchor = e], copies, u, k, 1)
  BY DEF Split
<1>3. old \in SeriesRec /\ old.skipped = series[s].skipped /\ old.rows \subseteq series[s].rows
  BY <1>1, EndingAt
<1>4. fresh \in SeriesRec /\ fresh.rows = {}
  <2>1. e \in 0 .. LastDay /\ v \in 1 .. NoEnd
    BY <1>1, Parts, SeriesAssumption DEF Days, NoEnd
  <2> HIDE DEF old, v
  <2>2. fresh \in SeriesRec
    BY <1>3, <2>1 DEF SeriesRec
  <2> QED
    BY <1>3, <2>2 DEF SeriesRec
<1> HIDE DEF old, fresh
<1>5. Rewritten(series, cut, s) /\ cut[s] = old
  BY <1>1, <1>3, Rewriting
<1> HIDE DEF cut
<1>6. /\ Typed(cut, copies) /\ Len(cut) = Len(series) /\ t \in Ids(cut)
      /\ cut[t].skipped = series[t].skipped /\ Bare(cut, copies, d)
  BY <1>1, <1>3, <1>5 DEF Rewritten, Typed, Ids, Bare, Rowed
<1>7. CASE Seat(Append(cut, fresh), copies, Len(series) + 1, k, 1)
  <2> DEFINE srs == Append(cut, fresh)
  <2>1. /\ Typed(srs, copies) /\ Len(srs) = Len(cut) + 1 /\ srs[Len(cut) + 1] = fresh
        /\ \A u \in Ids(cut) : srs[u] = cut[u]
    <3>1. cut \in Seq(SeriesRec)
      BY <1>6 DEF Typed
    <3> QED
      BY <1>4, <1>6, <3>1, AppendProperties, Joining DEF Ids
  <2> HIDE DEF srs
  <2>2. Ids(srs) = Ids(cut) \cup {Len(cut) + 1}
    BY <1>1, <1>6, <2>1 DEF Ids
  <2>3. Bare(srs, copies, d) /\ srs[t].skipped = series[t].skipped
    BY <1>4, <1>6, <2>1, <2>2 DEF Bare, Rowed
  <2>4. Seat(srs, copies, Len(series) + 1, k, 1)
    BY <1>7 DEF srs
  <2> QED
    BY <1>6, <2>1, <2>2, <2>3, <2>4, SeatKeepsSkips
<1>8. CASE \E u \in Tails(s, e) : Seat([cut EXCEPT ![u].clock = k, ![u].anchor = e], copies, u, k, 1)
  <2>1. PICK u \in Tails(s, e) : Seat([cut EXCEPT ![u].clock = k, ![u].anchor = e], copies, u, k, 1)
    BY <1>8
  <2>2. u \in Ids(cut) /\ cut \in Seq(SeriesRec)
    BY <1>6 DEF Tails, Ids, Typed
  <2> DEFINE me == [cut[u] EXCEPT !.clock = k, !.anchor = e]
  <2>3. me \in SeriesRec /\ me.rows = cut[u].rows /\ me.skipped = cut[u].skipped
    <3>1. cut[u] \in SeriesRec
      BY <2>2, Parts
    <3>2. me \in SeriesRec
      BY <3>1 DEF SeriesRec
    <3> QED
      BY <3>1, <3>2 DEF SeriesRec
  <2>4. [cut EXCEPT ![u].clock = k, ![u].anchor = e] = [cut EXCEPT ![u] = me]
    BY <2>2
  <2> HIDE DEF me
  <2>5. PICK srs : srs = [cut EXCEPT ![u] = me]
    OBVIOUS
  <2>6. Rewritten(cut, srs, u) /\ srs[u] = me
    BY <2>2, <2>3, <2>5, Rewriting
  <2>7. /\ Typed(srs, copies) /\ Ids(srs) = Ids(cut)
        /\ srs[t].skipped = series[t].skipped /\ Bare(srs, copies, d)
    BY <1>6, <2>2, <2>3, <2>6 DEF Rewritten, Typed, Ids, Bare, Rowed
  <2>8. Seat(srs, copies, u, k, 1)
    BY <2>1, <2>4, <2>5
  <2> QED
    BY <1>6, <2>2, <2>7, <2>8, SeatKeepsSkips
<1> QED
  BY <1>2, <1>7, <1>8

LEMMA ExtendSkips ==
  ASSUME Inv, NEW s \in Ids(series), Extend(s),
         NEW t \in Ids(series), NEW d \in series[t].skipped, Bare(series, copies, d)
  PROVE  t \in Ids(series') /\ StillSkips(series', copies', t, d)
<1>1. PICK P : P \subseteq Missing(s) /\ AppendDays(s, P)
  <2>1. PICK last \in Missing(s) \cup {LastDay} : AppendDays(s, {x \in Missing(s) : x <= last})
    BY DEF Extend
  <2> QED
    BY <2>1
<1>2. series \in Seq(SeriesRec) /\ series[s] \in SeriesRec /\ series[s].clock \in Clocks
  <2>1. ~series[s].parked
    BY DEF Extend, Continues
  <2> QED
    BY <2>1, Parts DEF Inv, Typed
<1>3. Replans(series, copies, series', copies', s, P)
  BY <1>1, <1>2, AppendShape
<1>4. t = s => d \notin P
  BY <1>1, Planned DEF Missing
<1>5. /\ t \in Ids(series') /\ (t # s => series'[t] = series[t])
      /\ \A r \in series'[s].rows : r \in series[s].rows \/ r[1] \in P
      /\ \A c \in copies' : c \in copies \/ (c.parent = s /\ c.day \in P)
  BY <1>3 DEF Replans
<1>6. series[s].skipped \subseteq series'[s].skipped
  BY <1>1, <1>2 DEF AppendDays, SeriesRec, Ids
<1> QED
  BY <1>4, <1>5, <1>6 DEF Bare, Copied, Rowed, StillSkips

\* A copy is put back or placed: only its own day changes.
LEMMA PuttingElsewhere ==
  ASSUME NEW srs, NEW c \in CopyShape, NEW slot \in Slots \cup {NoSlot},
         Typed(srs, copies), PutCopy(srs, c, slot)
  PROVE  \A d : d # c.day => Shrinks(srs, copies, series', copies', d)
<1>1. srs \in Seq(SeriesRec)
  BY DEF Typed
<1>2. CASE series' = srs /\ copies' = (copies \ {c}) \cup {[c EXCEPT !.slot = slot]}
  <2>1. [c EXCEPT !.slot = slot].day = c.day
    BY DEF CopyShape
  <2> QED
    BY <1>2, <2>1 DEF Shrinks
<1>3. ASSUME NEW t \in Ids(srs), slot[1] = c.day,
             series' = [srs EXCEPT ![t].skipped = @ \ {c.day},
                                   ![t].rows    = (@ \ RowsOn(OpenRows(@), c.day)) \cup {slot}],
             copies' = Absorbed(c)
      PROVE  \A d : d # c.day => Shrinks(srs, copies, series', copies', d)
  <2> DEFINE K  == srs[t].skipped \ {c.day}
             R  == (srs[t].rows \ RowsOn(OpenRows(srs[t].rows), c.day)) \cup {slot}
             me == [srs[t] EXCEPT !.skipped = K, !.rows = R]
  <2>1. srs[t] \in SeriesRec /\ slot \in Slots
    BY <1>1, <1>3, Parts, SlotParts DEF CopyShape, NoSlot, Days
  <2>2. K \in SUBSET Days /\ R \in SUBSET Slots
    BY <2>1 DEF SeriesRec
  <2>3. series' = [srs EXCEPT ![t] = me]
    BY <1>1, <1>3 DEF Ids
  <2>4. \A r \in R : r[1] = c.day \/ r \in srs[t].rows
    BY <1>3
  <2>5. srs[t].skipped \subseteq K \cup {c.day}
    OBVIOUS
  <2> HIDE DEF K, R
  <2>6. me \in SeriesRec /\ me.rows = R /\ me.skipped = K
    <3>1. me \in SeriesRec
      BY <2>1, <2>2 DEF SeriesRec
    <3> QED
      BY <2>1, <3>1 DEF SeriesRec
  <2> HIDE DEF me
  <2>7. \A b \in copies' : b.day = c.day \/ b \in copies
    BY <1>3 DEF Absorbed
  <2> QED
    BY <1>1, <2>3, <2>4, <2>5, <2>6, <2>7, OneShrinks
<1>4. \/ series' = srs /\ copies' = (copies \ {c}) \cup {[c EXCEPT !.slot = slot]}
      \/ \E t \in Ids(srs) :
           /\ slot[1] = c.day
           /\ series' = [srs EXCEPT ![t].skipped = @ \ {c.day},
                                    ![t].rows    = (@ \ RowsOn(OpenRows(@), c.day)) \cup {slot}]
           /\ copies' = Absorbed(c)
  BY DEF PutCopy, Owners
<1> QED
  BY <1>2, <1>3, <1>4

\* The actions of one member: the day they are about is held, the others gain
\* nothing.
LEMMA MemberSkips ==
  ASSUME Inv, NEW s \in Ids(series), OfSeries(s), ~Place(s), ~Extend(s),
         NEW d, Bare(series, copies, d), d \in Days,
         \A e \in Days, k \in Clocks : ~Split(s, e, k)
  PROVE  Shrinks(series, copies, series', copies', d)
<1>1. series \in Seq(SeriesRec) /\ series[s] \in SeriesRec /\ Typed(series, copies)
  BY MembersAreSeries DEF Inv, Typed
<1>2. ASSUME NEW e \in Days, NEW k \in Clocks, SaveClock(s, e, k)
      PROVE  Shrinks(series, copies, series', copies', d)
  <2> DEFINE open == OpenRows(series[s].rows)
             a    == IF open = {} THEN e ELSE First(open)[1]
             me   == [series[s] EXCEPT !.clock = k, !.anchor = a]
  <2>1. open \in SUBSET Slots
    BY <1>1 DEF SeriesRec, OpenRows
  <2>2. a \in Days
    BY <2>1, FirstRow, SlotParts
  <2>3. series' = [series EXCEPT ![s] = me] /\ copies' = copies
    BY <1>1, <1>2 DEF SaveClock, Ids
  <2> HIDE DEF a
  <2>4. me \in SeriesRec
    BY <1>1, <2>2 DEF SeriesRec
  <2>5. me.rows = series[s].rows /\ me.skipped = series[s].skipped
    BY <1>1, <2>4 DEF SeriesRec
  <2> HIDE DEF me
  <2>6. d # 0 /\ \A b \in copies' : b.day = 0 \/ b \in copies
    BY <2>3 DEF Days
  <2>7. /\ \A r \in me.rows : r[1] = 0 \/ r \in series[s].rows
        /\ series[s].skipped \subseteq me.skipped \cup {0}
    BY <2>3, <2>5
  <2>8. \A x : x # 0 => Shrinks(series, copies, [series EXCEPT ![s] = me], copies', x)
    BY <1>1, <2>4, <2>6, <2>7, OneShrinks
  <2> QED
    BY <2>3, <2>6, <2>8
<1>3. ASSUME NEW e \in Days, EndFrom(s, e)
      PROVE  Shrinks(series, copies, series', copies', d)
  <2> DEFINE old == EndedAt(series[s], e)
             me  == Refreshed(old)
  <2>1. old \in SeriesRec /\ old.skipped = series[s].skipped /\ old.rows \subseteq series[s].rows
    BY <1>1, EndingAt
  <2>2. me \in SeriesRec /\ me.rows = old.rows /\ me.skipped = old.skipped
    BY <2>1, Refreshing
  <2>3. series' = [series EXCEPT ![s] = me] /\ copies' = copies
    BY <1>3 DEF EndFrom
  <2> HIDE DEF old, me
  <2>6. d # 0 /\ \A b \in copies' : b.day = 0 \/ b \in copies
    BY <2>3 DEF Days
  <2>7. /\ \A r \in me.rows : r[1] = 0 \/ r \in series[s].rows
        /\ series[s].skipped \subseteq me.skipped \cup {0}
    BY <2>1, <2>2, <2>3
  <2>8. \A x : x # 0 => Shrinks(series, copies, [series EXCEPT ![s] = me], copies', x)
    BY <1>1, <2>2, <2>6, <2>7, OneShrinks
  <2> QED
    BY <2>3, <2>6, <2>8
<1>4. ASSUME NEW e \in Days, SkipDay(s, e)
      PROVE  Shrinks(series, copies, series', copies', d)
  <2> DEFINE old == Skipping(series[s], e)
             me  == Refreshed(old)
  <2>1. old \in SeriesRec /\ series[s].skipped \subseteq old.skipped /\ old.rows \subseteq series[s].rows
    BY <1>1, SkippingDay
  <2>2. me \in SeriesRec /\ me.rows = old.rows /\ me.skipped = old.skipped
    BY <2>1, Refreshing
  <2>3. series' = [series EXCEPT ![s] = me] /\ copies' = copies
    BY <1>4 DEF SkipDay
  <2> HIDE DEF old, me
  <2>6. d # 0 /\ \A b \in copies' : b.day = 0 \/ b \in copies
    BY <2>3 DEF Days
  <2>7. /\ \A r \in me.rows : r[1] = 0 \/ r \in series[s].rows
        /\ series[s].skipped \subseteq me.skipped \cup {0}
    BY <2>1, <2>2, <2>3
  <2>8. \A x : x # 0 => Shrinks(series, copies, [series EXCEPT ![s] = me], copies', x)
    BY <1>1, <2>2, <2>6, <2>7, OneShrinks
  <2> QED
    BY <2>3, <2>6, <2>8
<1>5. ASSUME NEW e \in Days, RowsOn(OpenRows(series[s].rows), e) # {}
      PROVE  d # e
  BY <1>5 DEF RowsOn, OpenRows, Bare, Rowed
<1>6. ASSUME NEW e \in Days, NEW slot \in Slots \cup {NoSlot}, Displace(s, e, slot)
      PROVE  Shrinks(series, copies, series', copies', d)
  <2> DEFINE me == Skipping(series[s], e)
  <2>1. me \in SeriesRec /\ series[s].skipped \subseteq me.skipped /\ me.rows \subseteq series[s].rows
    BY <1>1, SkippingDay
  <2>2. /\ series' = [series EXCEPT ![s] = me] /\ d # e
        /\ \A b \in copies' : b.day = e \/ b \in copies
    BY <1>5, <1>6 DEF Displace
  <2> HIDE DEF me
  <2> QED
    BY <1>1, <2>1, <2>2, OneShrinks
<1>7. ASSUME NEW e \in Days, NEW slot \in Slots \cup {NoSlot}, MoveDay(s, e, slot)
      PROVE  Shrinks(series, copies, series', copies', d)
  <2>1. PICK srs, me : me = Skipping(series[s], e) /\ srs = [series EXCEPT ![s] = me]
    OBVIOUS
  <2>2. me \in SeriesRec /\ series[s].skipped \subseteq me.skipped /\ me.rows \subseteq series[s].rows
    BY <1>1, <2>1, SkippingDay
  <2>3. PICK c \in DayCopies(s, e) : PutCopy(srs, c, slot)
    BY <1>7, <2>1 DEF MoveDay
  <2>4. c \in CopyShape /\ c.day = e /\ d # e
    BY <1>5, <1>7, DayCopyShape DEF MoveDay
  <2>5. Typed(srs, copies)
    BY <1>1, <2>1, <2>2, Rewriting DEF Typed, Rewritten, Ids
  <2>6. Shrinks(series, copies, srs, copies, d)
    BY <1>1, <2>1, <2>2, <2>4, OneShrinks
  <2>7. Shrinks(srs, copies, series', copies', d)
    BY <2>3, <2>4, <2>5, PuttingElsewhere
  <2> QED
    BY <2>6, <2>7 DEF Shrinks
<1>8. ASSUME NEW r \in Slots, HandOver(s, r)
      PROVE  Shrinks(series, copies, series', copies', d)
  <2> DEFINE K  == series[s].skipped \cup {r[1]}
             R  == series[s].rows \ RowsOn(series[s].rows, r[1])
             me == [series[s] EXCEPT !.skipped = K, !.rows = R]
  <2>1. r[1] \in Days /\ d # r[1]
    BY <1>8, SlotParts DEF HandOver, Bare, Rowed
  <2>2. series' = [series EXCEPT ![s] = me]
    BY <1>1, <1>8 DEF HandOver, Ids
  <2>3. PICK c \in DayCopies(s, r[1]) :
          copies' = (copies \ {c}) \cup {[c EXCEPT !.slot = r, !.own = TRUE]}
    BY <1>8 DEF HandOver
  <2>4. c \in CopyShape /\ c.day = r[1]
    BY <2>1, <2>3, DayCopyShape
  <2>5. [c EXCEPT !.slot = r, !.own = TRUE].day = r[1]
    BY <2>4 DEF CopyShape
  <2>6. \A b \in copies' : b.day = r[1] \/ b \in copies
    BY <2>3, <2>5
  <2>7. K \in SUBSET Days /\ R \in SUBSET Slots /\ R \subseteq series[s].rows /\ series[s].skipped \subseteq K
    BY <1>1, <2>1 DEF SeriesRec
  <2> HIDE DEF K, R
  <2>8. me \in SeriesRec /\ me.rows = R /\ me.skipped = K
    <3>1. me \in SeriesRec
      BY <1>1, <2>7 DEF SeriesRec
    <3> QED
      BY <1>1, <3>1 DEF SeriesRec
  <2> HIDE DEF me
  <2> QED
    BY <1>1, <2>1, <2>2, <2>6, <2>7, <2>8, OneShrinks
<1> QED
  BY <1>2, <1>3, <1>4, <1>6, <1>7, <1>8 DEF OfSeries

\* The actions of one copy: its own day is held, the others gain nothing.
LEMMA CopySkips ==
  ASSUME Inv, NEW c \in copies, OfCopy(c), NEW d \in Days, Bare(series, copies, d)
  PROVE  Shrinks(series, copies, series', copies', d)
<1>1. series \in Seq(SeriesRec) /\ Typed(series, copies) /\ c \in CopyShape /\ c.parent \in Ids(series)
  BY MembersAreSeries DEF Inv, Typed
<1>2. d # c.day
  BY DEF Bare, Copied
<1>3. ASSUME NEW slot \in Slots, PlaceCopy(c, slot) PROVE Shrinks(series, copies, series', copies', d)
  BY <1>1, <1>2, <1>3, PuttingElsewhere DEF PlaceCopy
<1>4. CASE SkipCopy(c)
  <2> DEFINE old == Skipping(series[c.parent], c.day)
             me  == Refreshed(old)
  <2>0. series[c.parent] \in SeriesRec /\ c.day \in Days
    BY <1>1, Parts DEF CopyShape
  <2>1. /\ old \in SeriesRec /\ series[c.parent].skipped \subseteq old.skipped
        /\ old.rows \subseteq series[c.parent].rows
    BY <2>0, SkippingDay
  <2>2. me \in SeriesRec /\ me.rows = old.rows /\ me.skipped = old.skipped
    BY <2>1, Refreshing
  <2>3. series' = [series EXCEPT ![c.parent] = me] /\ copies' \subseteq copies
    BY <1>4 DEF SkipCopy
  <2> HIDE DEF old, me
  <2> QED
    BY <1>1, <1>2, <2>1, <2>2, <2>3, OneShrinks
<1>5. CASE DeleteCopy(c)
  BY <1>5 DEF DeleteCopy, Shrinks
<1> QED
  BY <1>3, <1>4, <1>5 DEF OfCopy

LEMMA NextSkips ==
  ASSUME Inv, [Next]_vars, NEW t \in Ids(series), NEW d \in series[t].skipped, Bare(series, copies, d)
  PROVE  t \in Ids(series') /\ StillSkips(series', copies', t, d)
<1>1. d \in Days
  BY MembersAreSeries DEF SeriesRec
<1>2. ASSUME NEW s \in Ids(series), OfSeries(s)
      PROVE  t \in Ids(series') /\ StillSkips(series', copies', t, d)
  <2>1. CASE Place(s)
    <3>1. s \in 1 .. MaxSeries
      BY MembersAreSeries
    <3>2. due[s] \in Clocks /\ Seat(series, copies, s, due[s], 0) /\ Typed(series, copies)
      BY <2>1, <3>1 DEF Place, Inv
    <3> QED
      BY <3>2, SeatKeepsSkips
  <2>2. CASE Extend(s)
    BY <2>2, ExtendSkips
  <2>3. ASSUME NEW e \in Days, NEW k \in Clocks, Split(s, e, k)
        PROVE  t \in Ids(series') /\ StillSkips(series', copies', t, d)
    BY <2>3, SplitSkips
  <2>4. CASE ~Place(s) /\ ~Extend(s) /\ \A e \in Days, k \in Clocks : ~Split(s, e, k)
    BY <1>1, <1>2, <2>4, MemberSkips, ShrinkingKeepsSkips
  <2> QED
    BY <2>1, <2>2, <2>3, <2>4
<1>3. ASSUME NEW c \in copies, OfCopy(c)
      PROVE  t \in Ids(series') /\ StillSkips(series', copies', t, d)
  BY <1>1, <1>3, CopySkips, ShrinkingKeepsSkips
<1>4. CASE Purge \/ Tick \/ UNCHANGED vars
  <2>1. series' = series /\ copies' \subseteq copies
    BY <1>4 DEF Purge, Tick, vars
  <2>2. Shrinks(series, copies, series', copies', d)
    BY <2>1 DEF Shrinks
  <2> QED
    BY <2>2, ShrinkingKeepsSkips
<1> QED
  BY <1>2, <1>3, <1>4 DEF Next

\* What a step may not give a member.
SkipsHold ==
  \A s \in Ids(series) : \A d \in dismissed \cap series[s].skipped :
    Holders(d) = {} => d \in series'[s].skipped /\ ~StandsOn(s, d)'

\* A day the user skipped or deleted, that nobody holds, stays skipped by every
\* member that skips it, and no plan, split, append, move or rejoin gives it to
\* that member or to a copy of it: only a member that does not skip it itself can
\* bring it back (skipSeriesDay, seatRecurringHorizonUnlocked, expandSeriesDays,
\* tryReMergeSeriesMember).
THEOREM SkippedDaysStay == Spec => StaysSkipped
<1>1. Inv /\ [Next]_vars => [SkipsHold]_vars
  <2> SUFFICES ASSUME Inv, [Next]_vars, NEW s \in Ids(series), NEW d \in dismissed \cap series[s].skipped,
                      Holders(d) = {}
               PROVE  d \in series'[s].skipped /\ ~StandsOn(s, d)'
    BY DEF SkipsHold
  <2>1. Bare(series, copies, d)
    BY DEF Holders, Bare, Copied, Rowed, RowsOn
  <2>2. StillSkips(series', copies', s, d)
    BY <2>1, NextSkips
  <2> QED
    BY <2>2 DEF StillSkips, StandsOn, RowsOn
<1>2. Spec => [][SkipsHold]_vars
  BY <1>1, SpecInv, PTL DEF Spec
<1> QED
  BY <1>2 DEF StaysSkipped, SkipsHold

=============================================================================
