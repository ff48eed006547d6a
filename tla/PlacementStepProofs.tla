-------------------------- MODULE PlacementStepProofs --------------------------
(***************************************************************************)
(* Proofs about the calendar, for every grid, horizon, set of tasks and    *)
(* series, and inputs.  In this order: the search of PlacementPlan finds a *)
(* hole when there is one and nothing else; a plan with its chains and     *)
(* packs disturbs nobody it does not move; the rows a placement reads are  *)
(* the calendar; what it writes keeps the calendar apart; and so every     *)
(* step does: no day of a series has two holders, no two slots are booked  *)
(* on each other, and nobody is lost.                                      *)
(***************************************************************************)
EXTENDS PlacementStep, SequenceTheorems, FiniteSetTheorems, WellFoundedInduction, TLAPS

Interval == [start : Int, end : Int]

-----------------------------------------------------------------------------

\* A set of integers with a lower bound has a least element.
LEMMA LeastInt ==
  ASSUME NEW S \in SUBSET Int, S # {}, NEW low \in Int, \A s \in S : s >= low
  PROVE  \E s \in S : \A o \in S : s <= o
<1> DEFINE Above == { n \in Nat : low + n \in S }
<1>1. Above # {}
  <2>1. PICK s \in S : TRUE
    OBVIOUS
  <2>2. s - low \in Nat /\ low + (s - low) = s
    BY <2>1
  <2> QED
    BY <2>1, <2>2
<1>2. PICK n \in Above : \A k \in Above : <<k, n>> \notin OpToRel(<, Nat)
  <2>1. Above \subseteq Nat
    OBVIOUS
  <2> HIDE DEF Above
  <2> QED
    BY <1>1, <2>1, WFMin, NatLessThanWellFounded, Zenon
<1>3. \A k \in Above : ~(k < n)
  BY <1>2, Zenon DEF OpToRel
<1>4. low + n \in S
  BY <1>2
<1>5. ASSUME NEW o \in S PROVE low + n <= o
  BY <1>3
<1> QED
  BY <1>4, <1>5

\* BestStart names one of the starts it is given.
LEMMA BestStartIsAStart ==
  ASSUME NEW S \in SUBSET Int, S # {}, NEW low \in Int, \A s \in S : s >= low,
         NEW near \in Int \cup {None}
  PROVE  BestStart(S, near) \in S
<1> DEFINE Best(s) == \A o \in S : IF near = None THEN s <= o
                        ELSE \/ Distance(s, near) < Distance(o, near)
                             \/ Distance(s, near) = Distance(o, near) /\ s <= o
<1>1. \E s \in S : Best(s)
  <2>1. CASE near = None
    BY <2>1, LeastInt
  <2>2. CASE near # None
    <3>1. near \in Int
      BY <2>2
    <3> DEFINE D == { Distance(s, near) : s \in S }
    <3>2. D \in SUBSET Int /\ D # {} /\ \A d \in D : d >= 0
      <4>1. \A s \in S : Distance(s, near) \in Int /\ Distance(s, near) >= 0
        BY <3>1 DEF Distance
      <4> QED
        BY <4>1
    <3>3. PICK d \in D : \A e \in D : d <= e
      <4> HIDE DEF D
      <4> QED
        BY <3>2, LeastInt
    <3> DEFINE T == { s \in S : Distance(s, near) = d }
    <3>4. T \in SUBSET Int /\ T # {} /\ \A s \in T : s >= low
      BY <3>3
    <3>5. PICK s \in T : \A o \in T : s <= o
      <4> HIDE DEF T
      <4> QED
        BY <3>4, LeastInt
    <3>6. ASSUME NEW o \in S
          PROVE  \/ Distance(s, near) < Distance(o, near)
                 \/ Distance(s, near) = Distance(o, near) /\ s <= o
      BY <3>3, <3>5, <3>2
    <3> QED
      BY <2>2, <3>5, <3>6
  <2> QED
    BY <2>1, <2>2
<1> QED
  BY <1>1 DEF BestStart

-----------------------------------------------------------------------------

\* What a search is given: windows, starts and lengths in time units.
Searches(dur, notBefore, windows, near) ==
  /\ dur \in Nat \ {0} /\ notBefore \in Int
  /\ windows \subseteq Interval /\ near \in Int \cup {None}

\* A hole for `dur`: in a window, on the grid, not too early, free of `busy`.
IsHole(h, dur, notBefore, windows, busy) ==
  /\ h \in Interval /\ h.end = h.start + dur
  /\ h.start >= notBefore /\ h.start % Step = 0
  /\ FitsWindow(h, windows)
  /\ \A b \in busy : ~Overlaps(h, b)

LEMMA StartsAreHoles ==
  ASSUME NEW dur, NEW notBefore, NEW windows, NEW near, NEW busy,
         Searches(dur, notBefore, windows, near),
         NEW s \in FreeStarts(dur, notBefore, windows, busy)
  PROVE  IsHole([start |-> s, end |-> s + dur], dur, notBefore, windows, busy)
<1>1. PICK w \in windows : /\ s \in w.start .. (w.end - dur) /\ s % Step = 0 /\ s >= notBefore
                           /\ \A b \in busy : ~Overlaps([start |-> s, end |-> s + dur], b)
  BY DEF FreeStarts
<1>2. w.start \in Int /\ w.end \in Int /\ dur \in Int
  BY DEF Searches, Interval
<1>3. s \in Int /\ s + dur \in Int /\ s >= w.start /\ s + dur <= w.end
  BY <1>1, <1>2
<1> DEFINE h == [start |-> s, end |-> s + dur]
<1>4. h \in Interval /\ h.start = s /\ h.end = s + dur
  BY <1>3 DEF Interval
<1>5. FitsWindow(h, windows)
  BY <1>3, <1>4 DEF FitsWindow
<1> QED
  BY <1>1, <1>4, <1>5 DEF IsHole

LEMMA HolesAreStarts ==
  ASSUME NEW dur, NEW notBefore, NEW windows, NEW near, NEW busy,
         Searches(dur, notBefore, windows, near),
         NEW h, IsHole(h, dur, notBefore, windows, busy)
  PROVE  h.start \in FreeStarts(dur, notBefore, windows, busy)
<1>1. PICK w \in windows : h.start >= w.start /\ h.end <= w.end
  BY DEF IsHole, FitsWindow
<1>2. /\ w.start \in Int /\ w.end \in Int /\ dur \in Int
      /\ h.start \in Int /\ h.end \in Int /\ h.end = h.start + dur
  BY DEF Searches, Interval, IsHole
<1>3. h.start \in w.start .. (w.end - dur)
  BY <1>1, <1>2
<1>4. h = [start |-> h.start, end |-> h.start + dur]
  BY <1>2 DEF IsHole, Interval
<1>5. \A b \in busy : ~Overlaps([start |-> h.start, end |-> h.start + dur], b)
  BY <1>4 DEF IsHole
<1> QED
  BY <1>3, <1>5 DEF FreeStarts, IsHole

LEMMA StartsAreBounded ==
  ASSUME NEW dur, NEW notBefore, NEW windows, NEW near, NEW busy,
         Searches(dur, notBefore, windows, near)
  PROVE  /\ FreeStarts(dur, notBefore, windows, busy) \in SUBSET Int
         /\ \A s \in FreeStarts(dur, notBefore, windows, busy) : s >= notBefore
<1>1. ASSUME NEW s \in FreeStarts(dur, notBefore, windows, busy)
      PROVE  s \in Int /\ s >= notBefore
  BY StartsAreHoles DEF IsHole, Interval
<1> QED
  BY <1>1

\* The hole at the best of some free starts.
LEMMA BestHole ==
  ASSUME NEW dur, NEW notBefore, NEW windows, NEW near, NEW busy,
         Searches(dur, notBefore, windows, near),
         FreeStarts(dur, notBefore, windows, busy) # {}
  PROVE  LET s == BestStart(FreeStarts(dur, notBefore, windows, busy), near)
         IN IsHole([start |-> s, end |-> s + dur], dur, notBefore, windows, busy)
<1> DEFINE S == FreeStarts(dur, notBefore, windows, busy)
<1>1. S \in SUBSET Int /\ \A s \in S : s >= notBefore
  BY StartsAreBounded
<1>2. notBefore \in Int /\ near \in Int \cup {None}
  BY DEF Searches
<1>3. BestStart(S, near) \in S
  <2> HIDE DEF S
  <2>1. S # {}
    BY DEF S
  <2> QED
    BY <1>1, <1>2, <2>1, BestStartIsAStart
<1> QED
  BY <1>3, StartsAreHoles

\* One search, hard and soft time alike: a hole, or there is no start.
LEMMA HoleAtIsFree ==
  ASSUME NEW dur, NEW notBefore, NEW windows, NEW near, NEW busy,
         Searches(dur, notBefore, windows, near)
  PROVE  LET h == HoleAt(FreeStarts(dur, notBefore, windows, busy), dur, near)
         IN IF FreeStarts(dur, notBefore, windows, busy) = {} THEN h = None
            ELSE h # None /\ IsHole(h, dur, notBefore, windows, busy)
<1> DEFINE S == FreeStarts(dur, notBefore, windows, busy)
           h == SpanFrom(BestStart(S, near), dur)
<1>1. CASE S = {}
  BY <1>1 DEF HoleAt
<1>2. CASE S # {}
  <2>1. IsHole(h, dur, notBefore, windows, busy)
    BY <1>2, BestHole DEF SpanFrom
  <2>2. h # None
    BY <2>1, NoneAssumption DEF IsHole, Interval
  <2>3. HoleAt(S, dur, near) = h
    BY <1>2 DEF HoleAt
  <2> QED
    BY <1>2, <2>1, <2>2, <2>3
<1> QED
  BY <1>1, <1>2

\* FindHole never gives out time that is taken: whatever it answers is on the
\* grid, inside one of the windows, not before the search began and free of
\* everything that is hard busy, also when the soft time had to be given up.
THEOREM HoleIsFree ==
  ASSUME NEW dur, NEW notBefore, NEW windows, NEW near, NEW hard, NEW soft,
         Searches(dur, notBefore, windows, near),
         FindHole(dur, notBefore, windows, hard, soft, near) # None
  PROVE  IsHole(FindHole(dur, notBefore, windows, hard, soft, near),
                dur, notBefore, windows, hard)
<1> DEFINE polite == HoleAt(FreeStarts(dur, notBefore, windows, hard \cup soft), dur, near)
           any == HoleAt(FreeStarts(dur, notBefore, windows, hard), dur, near)
<1>1. polite # None => IsHole(polite, dur, notBefore, windows, hard \cup soft)
  BY HoleAtIsFree
<1>2. polite # None => IsHole(polite, dur, notBefore, windows, hard)
  BY <1>1 DEF IsHole
<1>3. any # None => IsHole(any, dur, notBefore, windows, hard)
  BY HoleAtIsFree
<1>4. FindHole(dur, notBefore, windows, hard, soft, near)
        = IF polite # None THEN polite ELSE any
  BY DEF FindHole, Preferring
<1> HIDE DEF polite, any
<1> QED
  BY <1>2, <1>3, <1>4

\* FindHole overlooks nothing: it answers None only if no hole exists at all.
THEOREM NoHoleNoRoom ==
  ASSUME NEW dur, NEW notBefore, NEW windows, NEW near, NEW hard, NEW soft,
         Searches(dur, notBefore, windows, near),
         FindHole(dur, notBefore, windows, hard, soft, near) = None
  PROVE  ~\E h : IsHole(h, dur, notBefore, windows, hard)
<1> SUFFICES ASSUME NEW h, IsHole(h, dur, notBefore, windows, hard) PROVE FALSE
  OBVIOUS
<1> DEFINE polite == HoleAt(FreeStarts(dur, notBefore, windows, hard \cup soft), dur, near)
           any == HoleAt(FreeStarts(dur, notBefore, windows, hard), dur, near)
<1>1. FreeStarts(dur, notBefore, windows, hard) # {}
  BY HolesAreStarts
<1>2. any # None
  BY <1>1, HoleAtIsFree
<1>3. FindHole(dur, notBefore, windows, hard, soft, near)
        = IF polite # None THEN polite ELSE any
  BY DEF FindHole, Preferring
<1> HIDE DEF polite, any
<1> QED
  BY <1>2, <1>3

-----------------------------------------------------------------------------

\* The earliest of some windows is one of them.
LEMMA EarliestIsAWindow ==
  ASSUME NEW W \in SUBSET Interval, W # {}, NEW low \in Int, \A w \in W : w.start >= low
  PROVE  Earliest(W) \in W
<1> DEFINE S == { w.start : w \in W }
<1>1. S \in SUBSET Int /\ S # {} /\ \A s \in S : s >= low
  BY DEF Interval
<1>2. PICK s \in S : \A o \in S : s <= o
  <2> HIDE DEF S
  <2> QED
    BY <1>1, LeastInt
<1>3. \E w \in W : \A v \in W : w.start <= v.start
  BY <1>2
<1> QED
  BY <1>3 DEF Earliest

\* The time PlanHole may not give out: the seats, and the homes they still own.
Taken(rows) ==
  UNION { IF s.home = None THEN {Span(s)} ELSE {Span(s), s.home} : s \in ToSet(rows) }

HoleIn(claim, rows, soft, w) ==
  FindHole(claim.dur, claim.notBefore, {w}, Taken(rows), soft, claim.near)

\* A claim that may not pack, on windows of a horizon that begins at `low`.
RawClaim(claim, low) ==
  /\ Searches(claim.dur, claim.notBefore, claim.windows, claim.near)
  /\ low \in Int /\ \A w \in claim.windows : w.start >= low
  /\ ~claim.pack

\* Such a claim gets the hole of one of its windows, or no window has one that
\* the claim accepts.
LEMMA RawPlans ==
  ASSUME NEW claim, NEW rows, NEW soft, NEW low, RawClaim(claim, low)
  PROVE  \/ \E w \in claim.windows : /\ HoleIn(claim, rows, soft, w) # None
                                     /\ PlanHole(claim, rows, soft)
                                          = Seated(HoleIn(claim, rows, soft, w), {})
         \/ /\ PlanHole(claim, rows, soft) = Unseated("problematic")
            /\ ~claim.recurring =>
                 \A w \in claim.windows : HoleIn(claim, rows, soft, w) = None
<1> DEFINE used == { w \in claim.windows :
                       \E s \in ToSet(rows) : Movable(s, FALSE) /\ Overlaps(s, w) }
           hole == [w \in claim.windows |->
                      FindHole(claim.dur, claim.notBefore, {w}, Taken(rows), soft, claim.near)]
           pack == [w \in used |-> PackMovablesForHole(claim, rows, soft, w)]
           holed == { w \in used : /\ hole[w] # None
                        /\ ~(claim.recurring /\ IsInteriorClusterHole(hole[w], rows, w)) }
           packable == { w \in used : claim.pack /\ pack[w] # None }
           empty == { w \in claim.windows \ used : hole[w] # None }
<1>1. PlanHole(claim, rows, soft) = BestDay(claim, rows, used, hole, pack)
  BY DEF PlanHole, Taken
<1>2. \A w \in claim.windows : hole[w] = HoleIn(claim, rows, soft, w)
  BY DEF HoleIn
<1>3. claim.windows \subseteq Interval /\ low \in Int /\ \A w \in claim.windows : w.start >= low
  BY DEF RawClaim, Searches
<1>4. packable = {} /\ used \subseteq claim.windows
  BY DEF RawClaim
<1> HIDE DEF hole, pack, used
<1>5. CASE holed # {}
  <2>1. BestDay(claim, rows, used, hole, pack) = Seated(hole[Earliest(holed)], {})
    BY <1>5 DEF BestDay
  <2>2. Earliest(holed) \in holed
    <3>1. holed \in SUBSET Interval /\ \A w \in holed : w.start >= low
      BY <1>3, <1>4
    <3> HIDE DEF holed
    <3> QED
      BY <1>3, <1>5, <3>1, EarliestIsAWindow
  <2> QED
    BY <1>1, <1>2, <1>4, <2>1, <2>2
<1>6. CASE holed = {} /\ empty # {}
  <2>1. BestDay(claim, rows, used, hole, pack) = Seated(hole[Earliest(empty)], {})
    BY <1>4, <1>6 DEF BestDay
  <2>2. Earliest(empty) \in empty
    <3>1. empty \in SUBSET Interval /\ \A w \in empty : w.start >= low
      BY <1>3
    <3> HIDE DEF empty
    <3> QED
      BY <1>3, <1>6, <3>1, EarliestIsAWindow
  <2> QED
    BY <1>1, <1>2, <2>1, <2>2
<1>7. CASE holed = {} /\ empty = {}
  <2>1. BestDay(claim, rows, used, hole, pack) = Unseated("problematic")
    BY <1>4, <1>7 DEF BestDay
  <2>2. ASSUME ~claim.recurring, NEW w \in claim.windows PROVE hole[w] = None
    BY <1>7, <2>2
  <2> QED
    BY <1>1, <1>2, <2>1, <2>2
<1> QED
  BY <1>5, <1>6, <1>7

\* A pass over the inbox does not pack (allowPack is false): what it seats moves
\* nobody and lies on nobody's seat, nor on the series clock a moved day still owns.
THEOREM RawPlacementDisturbsNobody ==
  ASSUME NEW claim, NEW rows, NEW soft, NEW low, RawClaim(claim, low),
         PlanHole(claim, rows, soft).outcome = "seated"
  PROVE  LET p == PlanHole(claim, rows, soft)
         IN /\ p.moves = {}
            /\ \A b \in Taken(rows) : ~Overlaps(p.at, b)
            /\ \A s \in ToSet(rows) : ~Overlaps(p.at, s)
<1> DEFINE p == PlanHole(claim, rows, soft)
<1>1. PICK w \in claim.windows : /\ HoleIn(claim, rows, soft, w) # None
                                 /\ p = Seated(HoleIn(claim, rows, soft, w), {})
  <2>1. p # Unseated("problematic")
    BY DEF Unseated
  <2> QED
    BY <2>1, RawPlans
<1>2. p.moves = {} /\ p.at = HoleIn(claim, rows, soft, w)
  BY <1>1 DEF Seated
<1>3. Searches(claim.dur, claim.notBefore, {w}, claim.near)
  BY DEF RawClaim, Searches
<1>4. IsHole(p.at, claim.dur, claim.notBefore, {w}, Taken(rows))
  BY <1>1, <1>2, <1>3, HoleIsFree DEF HoleIn
<1>5. \A b \in Taken(rows) : ~Overlaps(p.at, b)
  BY <1>4 DEF IsHole
<1>6. ASSUME NEW s \in ToSet(rows) PROVE ~Overlaps(p.at, s)
  <2>1. Span(s) \in Taken(rows)
    BY DEF Taken
  <2>2. Span(s).start = s.start /\ Span(s).end = s.end
    BY DEF Span
  <2> QED
    BY <1>5, <2>1, <2>2 DEF Overlaps
<1> QED
  BY <1>2, <1>5, <1>6

\* And it leaves a one-off parked only if no window of it has any room at all.
THEOREM RawPlacementUsesTheRoom ==
  ASSUME NEW claim, NEW rows, NEW soft, NEW low, RawClaim(claim, low), ~claim.recurring,
         PlanHole(claim, rows, soft).outcome # "seated"
  PROVE  ~\E h : IsHole(h, claim.dur, claim.notBefore, claim.windows, Taken(rows))
<1> SUFFICES ASSUME NEW h, IsHole(h, claim.dur, claim.notBefore, claim.windows, Taken(rows))
             PROVE  FALSE
  OBVIOUS
<1>1. \A w \in claim.windows : HoleIn(claim, rows, soft, w) = None
  BY RawPlans DEF Seated
<1>2. PICK w \in claim.windows : h.start >= w.start /\ h.end <= w.end
  BY DEF IsHole, FitsWindow
<1>3. IsHole(h, claim.dur, claim.notBefore, {w}, Taken(rows))
  BY <1>2 DEF IsHole, FitsWindow
<1>4. Searches(claim.dur, claim.notBefore, {w}, claim.near)
  BY DEF RawClaim, Searches
<1> QED
  BY <1>1, <1>3, <1>4, NoHoleNoRoom DEF HoleIn

\* Induction, for a set of numbers.
LEMMA AllNumbers ==
  ASSUME NEW G \in SUBSET Nat, 0 \in G, \A n \in G : n + 1 \in G
  PROVE  G = Nat
<1> SUFFICES ASSUME Nat \ G # {} PROVE FALSE
  OBVIOUS
<1>1. PICK n \in Nat \ G : \A m \in Nat \ G : <<m, n>> \notin OpToRel(<, Nat)
  BY WFMin, NatLessThanWellFounded, Zenon
<1>2. n # 0 /\ n \in Nat
  BY <1>1
<1>3. n - 1 \in Nat /\ n - 1 < n /\ (n - 1) + 1 = n
  BY <1>2
<1>4. n - 1 \notin G
  BY <1>1, <1>3
<1> QED
  BY <1>1, <1>3, <1>4 DEF OpToRel

\* The same up to a bound.
LEMMA UpTo ==
  ASSUME NEW N \in Nat, NEW G, 0 \in G, \A n \in 0 .. (N - 1) : n \in G => n + 1 \in G
  PROVE  \A n \in 0 .. N : n \in G
<1> DEFINE H == { n \in Nat : n <= N => n \in G }
<1>1. 0 \in H
  OBVIOUS
<1>2. ASSUME NEW n \in H PROVE n + 1 \in H
  OBVIOUS
<1>3. H = Nat
  <2>1. H \in SUBSET Nat
    OBVIOUS
  <2> HIDE DEF H
  <2> QED
    BY <1>1, <1>2, <2>1, AllNumbers
<1> QED
  BY <1>3

\* What a step of a recursion over 1 .. N leads to, when each step stays in D.
Iterated(f, base, F, N) ==
  f = [n \in 0 .. N |-> IF n = 0 THEN base ELSE F[<<f[n - 1], n>>]]

LEMMA Iterates ==
  ASSUME NEW D, NEW base \in D, NEW N \in Nat, NEW F \in [D \X (1 .. N) -> D]
  PROVE  \E f \in [0 .. N -> D] : Iterated(f, base, F, N)
<1> DEFINE G == { m \in Nat : \E f \in [0 .. m -> D] : Iterated(f, base, F, m) }
<1>1. 0 \in G
  <2>1. Iterated([n \in 0 .. 0 |-> base], base, F, 0)
    BY DEF Iterated
  <2> QED
    BY <2>1
<1>2. ASSUME NEW m \in 0 .. (N - 1), m \in G PROVE m + 1 \in G
  <2>1. PICK f \in [0 .. m -> D] : Iterated(f, base, F, m)
    BY <1>2
  <2> DEFINE g == [n \in 0 .. (m + 1) |-> IF n = m + 1 THEN F[<<f[m], m + 1>>] ELSE f[n]]
  <2>2. F[<<f[m], m + 1>>] \in D /\ m + 1 \in Nat
    OBVIOUS
  <2>3. g \in [0 .. (m + 1) -> D]
    BY <2>2
  <2>4. \A n \in 0 .. m : g[n] = f[n]
    OBVIOUS
  <2>5. \A n \in 0 .. m : f[n] = IF n = 0 THEN base ELSE F[<<f[n - 1], n>>]
    BY <2>1 DEF Iterated
  <2>6. ASSUME NEW n \in 0 .. (m + 1)
        PROVE  g[n] = IF n = 0 THEN base ELSE F[<<g[n - 1], n>>]
    <3>1. CASE n = m + 1
      <4>1. n # 0 /\ n - 1 = m /\ m \in 0 .. m /\ g[n] = F[<<f[m], n>>]
        BY <3>1
      <4> HIDE DEF g
      <4> QED
        BY <2>4, <4>1
    <3>2. CASE n \in 1 .. m
      BY <3>2, <2>4, <2>5
    <3>3. CASE n = 0
      <4>1. 0 \in 0 .. m /\ 0 # m + 1
        OBVIOUS
      <4> QED
        BY <3>3, <2>4, <2>5, <4>1
    <3> QED
      BY <3>1, <3>2, <3>3
  <2> HIDE DEF g
  <2>7. g = [n \in 0 .. (m + 1) |-> IF n = 0 THEN base ELSE F[<<g[n - 1], n>>]]
    BY <2>3, <2>6
  <2> QED
    BY <2>2, <2>3, <2>7 DEF Iterated
<1>3. N \in G
  <2> HIDE DEF G
  <2> QED
    BY <1>1, <1>2, UpTo
<1> QED
  BY <1>3

\* A recursion that is given by an operator takes the same steps.
LEMMA Follows ==
  ASSUME NEW D, NEW base \in D, NEW N \in Nat, NEW g, g[0] = base,
         \A n \in 1 .. N : g[n - 1] \in D => g[n] \in D
  PROVE  \A n \in 0 .. N : g[n] \in D
<1> DEFINE G == { n \in Nat : g[n] \in D }
<1>1. 0 \in G
  OBVIOUS
<1>2. ASSUME NEW n \in 0 .. (N - 1), n \in G PROVE n + 1 \in G
  BY <1>2
<1>3. \A n \in 0 .. N : n \in G
  <2> HIDE DEF G
  <2> QED
    BY <1>1, <1>2, UpTo
<1> QED
  BY <1>3

-----------------------------------------------------------------------------
(* Those. *)

LEMMA Picking ==
  ASSUME NEW A, NEW seq \in Seq(A), NEW S
  PROVE  \E picked : /\ Those(seq, S) = picked[Len(seq)]
                     /\ picked[0] = <<>>
                     /\ \A n \in 1 .. Len(seq) :
                          picked[n] = IF seq[n] \in S THEN Append(picked[n - 1], seq[n])
                                      ELSE picked[n - 1]
<1> DEFINE N == Len(seq)
           D == Seq(A)
           Op(old, n) == IF seq[n] \in S THEN Append(old, seq[n]) ELSE old
           F == [p \in D \X (1 .. N) |-> Op(p[1], p[2])]
           Is(f) == f = [n \in 0 .. N |-> IF n = 0 THEN <<>> ELSE Op(f[n - 1], n)]
           picked == CHOOSE f : Is(f)
<1>1. N \in Nat /\ <<>> \in D /\ \A n \in 1 .. N : seq[n] \in A
  BY LenProperties, ElementOfSeq, EmptySeq
<1>2. \A old \in D, n \in 1 .. N : Op(old, n) \in D
  BY <1>1, AppendProperties
<1>3. \E f : Is(f)
  <2>1. F \in [D \X (1 .. N) -> D]
    BY <1>2
  <2>2. \A old \in D, n \in 1 .. N : F[<<old, n>>] = Op(old, n)
    OBVIOUS
  <2> HIDE DEF Op, F, D, N
  <2>3. PICK f \in [0 .. N -> D] : Iterated(f, <<>>, F, N)
    BY <1>1, <2>1, Iterates
  <2>4. \A n \in 0 .. N : f[n] = IF n = 0 THEN <<>> ELSE Op(f[n - 1], n)
    BY <1>1, <2>2, <2>3 DEF Iterated
  <2>5. f = [n \in 0 .. N |-> f[n]]
    OBVIOUS
  <2> QED
    BY <2>4, <2>5
<1>4. Is(picked)
  <2> HIDE DEF Is
  <2> QED
    BY <1>3
<1>5. Those(seq, S) = picked[N]
  BY DEF Those
<1> HIDE DEF picked, N
<1>6. picked[0] = <<>> /\ \A n \in 1 .. N : picked[n] = Op(picked[n - 1], n)
  <2> HIDE DEF Op
  <2>1. \A n \in 0 .. N : picked[n] = IF n = 0 THEN <<>> ELSE Op(picked[n - 1], n)
    BY <1>4
  <2> QED
    BY <1>1, <2>1
<1> QED
  BY <1>5, <1>6 DEF N
LEMMA AppendedSet ==
  ASSUME NEW A, NEW s \in Seq(A), NEW e \in A
  PROVE  /\ Append(s, e) \in Seq(A)
         /\ ToSet(Append(s, e)) = ToSet(s) \cup {e}
         /\ IsInjective(s) /\ e \notin ToSet(s) => IsInjective(Append(s, e))
<1>1. /\ Append(s, e) \in Seq(A) /\ Len(Append(s, e)) = Len(s) + 1 /\ Len(s) \in Nat
      /\ \A i \in 1 .. Len(s) : Append(s, e)[i] = s[i]
      /\ Append(s, e)[Len(s) + 1] = e
      /\ DOMAIN s = 1 .. Len(s) /\ DOMAIN Append(s, e) = 1 .. (Len(s) + 1)
  BY AppendProperties, LenProperties
<1> DEFINE t == Append(s, e)
<1> HIDE DEF t
<1>2. ToSet(t) = ToSet(s) \cup {e}
  BY <1>1 DEF ToSet, t
<1>3. ASSUME IsInjective(s), e \notin ToSet(s) PROVE IsInjective(t)
  <2>1. \A i \in 1 .. Len(s) : s[i] # e
    BY <1>1, <1>3 DEF ToSet
  <2>2. \A i, j \in 1 .. Len(s) : s[i] = s[j] => i = j
    BY <1>1, <1>3 DEF IsInjective
  <2>3. ASSUME NEW i \in 1 .. (Len(s) + 1), NEW j \in 1 .. (Len(s) + 1), t[i] = t[j] PROVE i = j
    BY <1>1, <2>1, <2>2, <2>3 DEF t
  <2> QED
    BY <1>1, <2>3 DEF IsInjective, t
<1> QED
  BY <1>1, <1>2, <1>3 DEF t

\* Those picks the elements of S, each as often as it is there.
LEMMA Picks ==
  ASSUME NEW A, NEW seq \in Seq(A), NEW S
  PROVE  /\ Those(seq, S) \in Seq(A)
         /\ ToSet(Those(seq, S)) = ToSet(seq) \cap S
         /\ IsInjective(seq) => IsInjective(Those(seq, S))
<1>1. PICK picked : /\ Those(seq, S) = picked[Len(seq)]
                    /\ picked[0] = <<>>
                    /\ \A n \in 1 .. Len(seq) :
                         picked[n] = IF seq[n] \in S THEN Append(picked[n - 1], seq[n])
                                     ELSE picked[n - 1]
  BY Picking
<1> DEFINE Good(n) == /\ picked[n] \in Seq(A)
                      /\ ToSet(picked[n]) = { seq[k] : k \in 1 .. n } \cap S
                      /\ IsInjective(seq) => IsInjective(picked[n])
           G == { n \in Nat : Good(n) }
<1>2. Len(seq) \in Nat /\ DOMAIN seq = 1 .. Len(seq) /\ \A k \in 1 .. Len(seq) : seq[k] \in A
  BY LenProperties, ElementOfSeq
<1>3. 0 \in G
  <2>1. picked[0] \in Seq(A) /\ DOMAIN picked[0] = {}
    BY <1>1, EmptySeq
  <2>2. ToSet(picked[0]) = {} /\ IsInjective(picked[0])
    BY <2>1 DEF ToSet, IsInjective
  <2>3. { seq[k] : k \in 1 .. 0 } = {}
    OBVIOUS
  <2> QED
    BY <2>1, <2>2, <2>3
<1>4. ASSUME NEW m \in 0 .. (Len(seq) - 1), m \in G PROVE m + 1 \in G
  <2>1. Good(m) /\ m + 1 \in 1 .. Len(seq) /\ (m + 1) - 1 = m /\ m + 1 \in Nat
    BY <1>2, <1>4
  <2>2. { seq[k] : k \in 1 .. (m + 1) } = { seq[k] : k \in 1 .. m } \cup {seq[m + 1]}
    BY <2>1
  <2>3. CASE seq[m + 1] \in S
    <3>1. picked[m + 1] = Append(picked[m], seq[m + 1])
      BY <1>1, <2>1, <2>3
    <3>2. seq[m + 1] \in A /\ picked[m] \in Seq(A)
      BY <1>2, <2>1
    <3>3. ASSUME IsInjective(seq) PROVE seq[m + 1] \notin ToSet(picked[m])
      <4>1. \A k \in 1 .. m : seq[k] # seq[m + 1]
        <5> TAKE k \in 1 .. m
        <5>1. k \in DOMAIN seq /\ m + 1 \in DOMAIN seq /\ k # m + 1
          BY <1>2, <2>1
        <5> QED
          BY <3>3, <5>1 DEF IsInjective
      <4> QED
        BY <2>1, <4>1
    <3> HIDE DEF Good
    <3>4. /\ Append(picked[m], seq[m + 1]) \in Seq(A)
          /\ ToSet(Append(picked[m], seq[m + 1])) = ToSet(picked[m]) \cup {seq[m + 1]}
          /\ IsInjective(picked[m]) /\ seq[m + 1] \notin ToSet(picked[m])
               => IsInjective(Append(picked[m], seq[m + 1]))
      BY <3>2, AppendedSet
    <3>5. Good(m + 1)
      BY <2>1, <2>2, <2>3, <3>1, <3>3, <3>4 DEF Good
    <3> QED
      BY <2>1, <3>5
  <2>4. CASE seq[m + 1] \notin S
    BY <1>1, <2>1, <2>4, <2>2
  <2> QED
    BY <2>3, <2>4
<1>5. Good(Len(seq))
  <2>1. Len(seq) \in G
    <3> DEFINE N == Len(seq)
    <3>1. N \in Nat /\ \A n \in 0 .. (N - 1) : n \in G => n + 1 \in G
      BY <1>2, <1>4
    <3> HIDE DEF G, N
    <3>2. \A n \in 0 .. N : n \in G
      BY <1>3, <3>1, UpTo
    <3> QED
      BY <3>1, <3>2 DEF N
  <2> QED
    BY <2>1
<1>6. { seq[k] : k \in 1 .. Len(seq) } = ToSet(seq)
  BY <1>2 DEF ToSet
<1> QED
  BY <1>1, <1>5, <1>6

-----------------------------------------------------------------------------
(* Lists. *)

LEMMA Joined ==
  ASSUME NEW A, NEW s \in Seq(A), NEW t \in Seq(A)
  PROVE  s \o t \in Seq(A) /\ ToSet(s \o t) = ToSet(s) \cup ToSet(t)
<1>1. /\ s \o t \in Seq(A) /\ Len(s \o t) = Len(s) + Len(t) /\ Len(s) \in Nat /\ Len(t) \in Nat
      /\ DOMAIN s = 1 .. Len(s) /\ DOMAIN t = 1 .. Len(t) /\ DOMAIN (s \o t) = 1 .. Len(s \o t)
      /\ \A i \in 1 .. (Len(s) + Len(t)) :
           (s \o t)[i] = IF i <= Len(s) THEN s[i] ELSE t[i - Len(s)]
  BY ConcatProperties, LenProperties
<1> DEFINE u == s \o t
<1> HIDE DEF u
<1>2. ASSUME NEW x \in ToSet(u) PROVE x \in ToSet(s) \cup ToSet(t)
  <2>1. PICK i \in DOMAIN u : x = u[i]
    BY DEF ToSet
  <2>2. CASE i <= Len(s)
    BY <1>1, <2>1, <2>2 DEF ToSet, u
  <2>3. CASE ~(i <= Len(s))
    BY <1>1, <2>1, <2>3 DEF u, ToSet
  <2> QED
    BY <2>2, <2>3
<1>3. ASSUME NEW x \in ToSet(s) PROVE x \in ToSet(u)
  <2>1. PICK i \in DOMAIN s : x = s[i]
    BY DEF ToSet
  <2>2. i \in DOMAIN u /\ u[i] = s[i]
    BY <1>1, <2>1 DEF u
  <2> QED
    BY <2>1, <2>2 DEF ToSet
<1>4. ASSUME NEW x \in ToSet(t) PROVE x \in ToSet(u)
  <2>1. PICK i \in DOMAIN t : x = t[i]
    BY DEF ToSet
  <2>2. i + Len(s) \in DOMAIN u /\ u[i + Len(s)] = t[i]
    BY <1>1, <2>1 DEF u
  <2> QED
    BY <2>1, <2>2 DEF ToSet
<1>5. ToSet(u) = ToSet(s) \cup ToSet(t)
  BY <1>2, <1>3, <1>4
<1> QED
  BY <1>1, <1>5 DEF u

LEMMA Reversed ==
  ASSUME NEW A, NEW s \in Seq(A)
  PROVE  Reverse(s) \in Seq(A) /\ ToSet(Reverse(s)) = ToSet(s)
<1> DEFINE N == Len(s)
           u == [i \in 1 .. N |-> s[(N - i) + 1]]
<1>1. Reverse(s) = u /\ N \in Nat /\ DOMAIN s = 1 .. N /\ \A i \in 1 .. N : s[i] \in A
  BY LenProperties, ElementOfSeq DEF Reverse
<1>2. \A i \in 1 .. N : (N - i) + 1 \in 1 .. N /\ (N - ((N - i) + 1)) + 1 = i
  BY <1>1
<1>3. u \in Seq(A)
  BY <1>1, <1>2, IsASeq
<1>4. ToSet(u) = ToSet(s)
  <2>1. \A i \in 1 .. N : u[(N - i) + 1] = s[i] /\ u[i] = s[(N - i) + 1]
    BY <1>1, <1>2
  <2>2. DOMAIN u = 1 .. N
    OBVIOUS
  <2> HIDE DEF u, N
  <2> QED
    BY <1>1, <1>2, <2>1, <2>2 DEF ToSet
<1> QED
  BY <1>1, <1>3, <1>4

LEMMA Listed ==
  ASSUME NEW S, IsFiniteSet(S)
  PROVE  SetToSeq(S) \in Seq(S) /\ ToSet(SetToSeq(S)) = S /\ IsInjective(SetToSeq(S))
<1> DEFINE n == Cardinality(S)
           f == SetToSeq(S)
<1>1. n \in Nat /\ \E g \in [1 .. n -> S] : IsInjective(g)
  BY FS_CardinalityType DEF ExistsBijection, Bijection, Injection, IsInjective
<1>2. f \in [1 .. n -> S] /\ IsInjective(f)
  <2>1. f = CHOOSE g \in [1 .. n -> S] : IsInjective(g)
    BY DEF SetToSeq
  <2> HIDE DEF f
  <2> QED
    BY <1>1, <2>1
<1>3. f \in Seq(S)
  BY <1>1, <1>2, IsASeq
<1>4. ToSet(f) = S
  <2>1. IsFiniteSet(1 .. n) /\ Cardinality(1 .. n) = n
    BY <1>1, FS_Interval
  <2>2. f \in Injection(1 .. n, S)
    BY <1>2 DEF Injection
  <2>3. f \in Surjection(1 .. n, S)
    BY <2>1, <2>2, FS_Injection
  <2> HIDE DEF f
  <2>4. \A x \in S : \E i \in 1 .. n : f[i] = x
    BY <2>3 DEF Surjection
  <2> QED
    BY <1>2, <2>4 DEF ToSet
<1> QED
  BY <1>2, <1>3, <1>4

\* Sorting keeps the seats.
LEMMA Sorted ==
  ASSUME NEW A, NEW s \in Seq(A), \A x \in ToSet(s) : x.start \in Int /\ x.end \in Int
  PROVE  ByStart(s) \in Seq(A) /\ ToSet(ByStart(s)) = ToSet(s)
<1> DEFINE N == Len(s)
           D == 1 .. N
           Lower(i) == { j \in D : Before(s, j, i) }
           f == [i \in D |-> Rank(s, i)]
           at(k) == CHOOSE i \in D : Rank(s, i) = k
<1>1. N \in Nat /\ DOMAIN s = D /\ \A i \in D : s[i] \in A
  BY LenProperties, ElementOfSeq
<1>2. \A i \in D : s[i].start \in Int /\ s[i].end \in Int
  BY <1>1 DEF ToSet
<1>3. IsFiniteSet(D) /\ Cardinality(D) = N
  <2> HIDE DEF N
  <2>1. N \in Int /\ 1 \in Int
    BY <1>1
  <2> QED
    BY <1>1, <2>1, FS_Interval
<1>4. \A i \in D : Rank(s, i) = Cardinality(Lower(i)) + 1
  BY <1>1 DEF Rank
<1>5. /\ \A i \in D : ~Before(s, i, i)
      /\ \A i, j \in D : i # j => Before(s, i, j) \/ Before(s, j, i)
      /\ \A i, j, k \in D : Before(s, i, j) /\ Before(s, j, k) => Before(s, i, k)
  <2> HIDE DEF N
  <2>1. \A i \in D : i \in Int
    BY <1>1
  <2> HIDE DEF D
  <2>2. \A i \in D : ~Before(s, i, i)
    BY <1>2, <2>1 DEF Before
  <2>3. \A i, j \in D : i # j => Before(s, i, j) \/ Before(s, j, i)
    BY <1>2, <2>1 DEF Before
  <2>4. \A i, j, k \in D : Before(s, i, j) /\ Before(s, j, k) => Before(s, i, k)
    BY <1>2, <2>1 DEF Before
  <2> QED
    BY <2>2, <2>3, <2>4
<1>6. ASSUME NEW i \in D PROVE IsFiniteSet(Lower(i)) /\ Rank(s, i) \in D
  <2>1. Lower(i) \in SUBSET (D \ {i})
    BY <1>5
  <2>0. IsFiniteSet(D \ {i}) /\ Cardinality(D \ {i}) = N - 1
    <3> HIDE DEF D, N
    <3> QED BY <1>3, FS_RemoveElement
  <2>2. IsFiniteSet(Lower(i)) /\ Cardinality(Lower(i)) <= N - 1
    <3> HIDE DEF Lower, D, N
    <3> QED
      BY <2>0, <2>1, FS_Subset
  <2>3. Cardinality(Lower(i)) \in Nat
    BY <2>2, FS_CardinalityType
  <2> QED
    BY <1>1, <1>4, <2>2, <2>3
<1>7. ASSUME NEW i \in D, NEW j \in D, Before(s, i, j) PROVE Rank(s, i) < Rank(s, j)
  <2>1. Lower(i) \in SUBSET Lower(j) /\ i \in Lower(j) /\ i \notin Lower(i)
    BY <1>5, <1>7
  <2>2. IsFiniteSet(Lower(j)) /\ IsFiniteSet(Lower(i))
    BY <1>6
  <2> HIDE DEF Lower
  <2>3. Cardinality(Lower(i)) <= Cardinality(Lower(j)) /\ Cardinality(Lower(i)) # Cardinality(Lower(j))
    BY <2>1, <2>2, FS_Subset
  <2>4. Cardinality(Lower(i)) \in Nat /\ Cardinality(Lower(j)) \in Nat
    BY <2>2, FS_CardinalityType
  <2> QED
    BY <1>4, <2>3, <2>4
<1>8. \A i, j \in D : Rank(s, i) = Rank(s, j) => i = j
  <2>1. \A i \in D : Rank(s, i) \in Int
    <3> HIDE DEF N, Lower
    <3>1. \A i \in D : Rank(s, i) \in D
      BY <1>6
    <3> QED
      BY <3>1
  <2> SUFFICES ASSUME NEW i \in D, NEW j \in D, Rank(s, i) = Rank(s, j), i # j PROVE FALSE
    OBVIOUS
  <2>2. Before(s, i, j) \/ Before(s, j, i)
    BY <1>5
  <2>3. Rank(s, i) < Rank(s, j) \/ Rank(s, j) < Rank(s, i)
    BY <1>7, <2>2
  <2> QED
    BY <2>1, <2>3
<1>9. \A k \in D : \E i \in D : Rank(s, i) = k
  <2>1. f \in Injection(D, D)
    BY <1>6, <1>8 DEF Injection, IsInjective
  <2>2. f \in Surjection(D, D)
    BY <1>3, <2>1, FS_Injection
  <2> QED
    BY <2>2 DEF Surjection
<1>10. \A k \in D : at(k) \in D /\ Rank(s, at(k)) = k
  BY <1>9
<1>11. \A i \in D : at(Rank(s, i)) = i
  BY <1>6, <1>8, <1>10
<1>12. ByStart(s) = [k \in D |-> s[at(k)]]
  BY <1>1 DEF ByStart
<1> HIDE DEF at
<1>13. ByStart(s) \in Seq(A)
  BY <1>1, <1>10, <1>12, IsASeq
<1>14. ToSet(ByStart(s)) = ToSet(s)
  <2>1. DOMAIN ByStart(s) = D /\ \A k \in D : ByStart(s)[k] = s[at(k)]
    BY <1>12
  <2>2. \A i \in D : Rank(s, i) \in D
    BY <1>6
  <2> HIDE DEF D
  <2> QED
    BY <1>1, <1>10, <1>11, <2>1, <2>2 DEF ToSet
<1> QED
  BY <1>13, <1>14

-----------------------------------------------------------------------------
(* The seats a plan reads, and what it may do with them. *)

\* Windows of the time a plan may use.
WindowsIn(windows, reach) ==
  /\ windows \subseteq Interval
  /\ \A w \in windows : w.start >= reach.start /\ w.end <= reach.end

\* A seat takes some time, and is searched a new place in `reach` only.
Roles == {"flexible", "series", "anchor", "elapsed", "resolved"}

SeatOK(x, reach) ==
  /\ x.role \in Roles
  /\ x.start \in Int /\ x.end \in Int /\ x.start < x.end /\ x.notBefore \in Int
  /\ WindowsIn(x.windows, reach)
  /\ x.home = None \/ x.home \in Interval

SeatsOK(rows, reach) ==
  /\ rows \in Seq(ToSet(rows)) /\ reach \in Interval
  /\ \A x \in ToSet(rows) : SeatOK(x, reach)
  /\ \A x, y \in ToSet(rows) : x.id = y.id => x = y

\* An interval for a seat: as long as it, not too early, and where it may be.
SeatedAt(x, h, reach) ==
  /\ h \in Interval /\ h.end - h.start = x.end - x.start
  /\ h.start >= x.notBefore /\ h.start >= reach.start /\ h.end <= reach.end
  /\ x.windows # {} => FitsWindow(h, x.windows)

\* What fits in `room` fits in `windows`, if there are any.
RoomIn(room, windows) ==
  windows # {} => \A i \in Interval : FitsWindow(i, room) => FitsWindow(i, windows)

\* Some seats have new intervals; everyone else but the vacated stays.
Sound(at, vacated, rows, reach) ==
  /\ DOMAIN at \subseteq vacated
  /\ \A x \in ToSet(rows) : x.id \in DOMAIN at =>
       /\ SeatedAt(x, at[x.id], reach)
       /\ \A y \in ToSet(rows) : y.id \notin vacated => ~Overlaps(at[x.id], y)
  /\ \A i, j \in DOMAIN at : i # j => ~Overlaps(at[i], at[j])

\* None of the new intervals is in the way of `i`.
Clear(at, i) == \A k \in DOMAIN at : ~Overlaps(at[k], i)

LEMMA OverlapsBoth == \A a, b : Overlaps(a, b) <=> Overlaps(b, a)
BY DEF Overlaps

LEMMA SpanOverlaps == \A a, b : (Overlaps(a, Span(b)) <=> Overlaps(a, b))
BY DEF Overlaps, Span

SeatAnywhere(x) == x.start \in Int /\ x.end \in Int /\ x.start < x.end /\ x.notBefore \in Int

LEMMA HoleForSeat ==
  ASSUME NEW x, NEW reach \in Interval, SeatAnywhere(x), NEW hard, NEW soft, NEW windows, NEW near,
         NEW notBefore \in Int, notBefore >= x.notBefore, near \in Int \cup {None},
         WindowsIn(windows, reach), RoomIn(windows, x.windows),
         NEW h, h = FindHole(x.end - x.start, notBefore, windows, hard, soft, near), h # None
  PROVE  SeatedAt(x, h, reach) /\ \A b \in hard : ~Overlaps(h, b)
<1>1. x.end - x.start \in Nat \ {0}
  BY DEF SeatAnywhere
<1> DEFINE d == x.end - x.start
<1>2. Searches(d, notBefore, windows, near)
  BY <1>1 DEF Searches, WindowsIn
<1>3. IsHole(h, d, notBefore, windows, hard)
  <2> HIDE DEF d
  <2>1. FindHole(d, notBefore, windows, hard, soft, near) # None
    BY DEF d
  <2> QED
    BY <1>2, <2>1, HoleIsFree DEF d
<1>4. h.start >= reach.start /\ h.end <= reach.end
  BY <1>3 DEF IsHole, FitsWindow, Interval, WindowsIn
<1>5. x.windows # {} => FitsWindow(h, x.windows)
  BY <1>3 DEF IsHole, RoomIn
<1> QED
  BY <1>1, <1>3, <1>4, <1>5 DEF IsHole, SeatedAt, SeatAnywhere, Interval

LEMMA PullIsATime ==
  ASSUME NEW x, NEW reach, SeatOK(x, reach)
  PROVE  PullToward(x) \in Int
BY DEF SeatOK, PullToward, Interval

\* One more seat is given an interval nobody is in the way of.
LEMMA SeatTaken ==
  ASSUME NEW rows, NEW reach, SeatsOK(rows, reach), NEW area, NEW vacated,
         NEW at, Sound(at, vacated, rows, area),
         NEW p \in ToSet(rows), p.id \in vacated, NEW h, SeatedAt(p, h, area),
         \A y \in ToSet(rows) : y.id \notin vacated => ~Overlaps(h, y),
         \A i \in DOMAIN at \ {p.id} : ~Overlaps(h, at[i])
  PROVE  Sound(With(at, p.id, h), vacated, rows, area)
<1> DEFINE new == With(at, p.id, h)
<1>1. DOMAIN new = DOMAIN at \cup {p.id} /\ new[p.id] = h /\ \A i \in DOMAIN at \ {p.id} : new[i] = at[i]
  BY DEF With
<1> HIDE DEF new
<1>2. DOMAIN new \subseteq vacated
  BY <1>1 DEF Sound
<1>3. ASSUME NEW x \in ToSet(rows), x.id \in DOMAIN new
      PROVE  /\ SeatedAt(x, new[x.id], area)
             /\ \A y \in ToSet(rows) : y.id \notin vacated => ~Overlaps(new[x.id], y)
  BY <1>1, <1>3 DEF SeatsOK, Sound
<1>4. ASSUME NEW i \in DOMAIN new, NEW j \in DOMAIN new, i # j PROVE ~Overlaps(new[i], new[j])
  BY <1>1, <1>4, OverlapsBoth DEF Sound
<1> QED
  BY <1>1, <1>2, <1>3, <1>4 DEF Sound, new

-----------------------------------------------------------------------------
(* Chains. *)

Ats(rows) == UNION { [X -> Interval] : X \in SUBSET Ids(rows) }

\* Who a chain may move: someone in the way of the claim, or of a hole in reach.
Pushable(x, claimant, recurring, reach) ==
  Movable(x, recurring) /\ (Overlaps(x, claimant) \/ Overlaps(x, reach))

ChainOK(c, claimant, rows, recurring, reach) ==
  /\ c.todo \in Seq(ToSet(rows)) /\ c.at \in Ats(rows) /\ c.vacated \subseteq Ids(rows)
  /\ c.pulls \in Nat /\ c.failed \in BOOLEAN
  /\ Sound(c.at, c.vacated, rows, reach) /\ Clear(c.at, claimant)
  /\ \A x \in ToSet(rows) : x.id \in c.vacated => Pushable(x, claimant, recurring, reach)
  /\ c.failed \/ Ids(c.todo) \cup DOMAIN c.at = c.vacated
  /\ Ids(c.todo) \subseteq c.vacated

ChainRec(rows) ==
  [todo : Seq(ToSet(rows)), at : Ats(rows), vacated : SUBSET Ids(rows), pulls : Nat,
   failed : BOOLEAN]

LEMMA SpinKeeps ==
  ASSUME NEW rows, NEW reach, SeatsOK(rows, reach), NEW claimant, NEW soft, NEW recurring,
         NEW c \in ChainRec(rows), ChainOK(c, claimant, rows, recurring, reach)
  PROVE  LET next == Spin(c, claimant, rows, soft, recurring)
         IN /\ next \in ChainRec(rows) /\ ChainOK(next, claimant, rows, recurring, reach)
            /\ c.vacated \subseteq next.vacated
<1> DEFINE next == Spin(c, claimant, rows, soft, recurring)
           p == Head(c.todo)
           walls == { s \in ToSet(rows) : ~Movable(s, recurring) }
           hole == SeatFor(p, Blocked(claimant, ToSet(rows), c.vacated, c.at), soft)
           relaxed == SeatFor(p, Blocked(claimant, walls, c.vacated, c.at), soft)
           inTheWay == { s \in ToSet(rows) : /\ Movable(s, recurring) /\ s.id \notin c.vacated
                                             /\ Overlaps(s, relaxed) }
           blockers == IF relaxed = None THEN <<>> ELSE Those(rows, inTheWay)
<1> HIDE DEF hole, relaxed
<1> SUFFICES /\ next \in ChainRec(rows) /\ ChainOK(next, claimant, rows, recurring, reach)
             /\ c.vacated \subseteq next.vacated
  OBVIOUS
<1>0. c.todo \in Seq(ToSet(rows)) /\ c.at \in Ats(rows) /\ c.vacated \in SUBSET Ids(rows)
      /\ c.pulls \in Nat /\ c.failed \in BOOLEAN
  BY DEF ChainRec
<1>1. CASE c.todo = <<>>
  BY <1>1 DEF Spin
<1>2. CASE c.todo # <<>>
  <2>0. next = Turn(c, p, hole, relaxed, rows, recurring)
    BY <1>2 DEF Spin, hole, relaxed
  <2>1. /\ p \in ToSet(rows) /\ Tail(c.todo) \in Seq(ToSet(rows))
        /\ ToSet(c.todo) = ToSet(Tail(c.todo)) \cup {p}
    <3>1. /\ Len(c.todo) \in Nat \ {0} /\ DOMAIN c.todo = 1 .. Len(c.todo)
          /\ Head(c.todo) = c.todo[1] /\ Tail(c.todo) \in Seq(ToSet(rows))
          /\ Len(Tail(c.todo)) = Len(c.todo) - 1 /\ DOMAIN Tail(c.todo) = 1 .. (Len(c.todo) - 1)
          /\ \A i \in 1 .. (Len(c.todo) - 1) : Tail(c.todo)[i] = c.todo[i + 1]
          /\ \A i \in 1 .. Len(c.todo) : c.todo[i] \in ToSet(rows)
      BY <1>0, <1>2, HeadTailProperties, LenProperties, ElementOfSeq, EmptySeq
    <3>2. \A i \in 2 .. Len(c.todo) : i - 1 \in 1 .. (Len(c.todo) - 1) /\ (i - 1) + 1 = i
      BY <3>1
    <3>4. ASSUME NEW x \in ToSet(c.todo) PROVE x \in ToSet(Tail(c.todo)) \cup {p}
      <4>1. PICK i \in 1 .. Len(c.todo) : x = c.todo[i]
        BY <3>1 DEF ToSet
      <4>2. CASE i = 1
        BY <3>1, <4>1, <4>2
      <4>3. CASE i # 1
        <5>1. i - 1 \in DOMAIN Tail(c.todo) /\ Tail(c.todo)[i - 1] = x
          BY <3>1, <3>2, <4>1, <4>3
        <5> QED
          BY <5>1 DEF ToSet
      <4> QED
        BY <4>2, <4>3
    <3>5. ASSUME NEW x \in ToSet(Tail(c.todo)) PROVE x \in ToSet(c.todo)
      <4>1. PICK i \in 1 .. (Len(c.todo) - 1) : x = Tail(c.todo)[i]
        BY <3>1 DEF ToSet
      <4>2. i + 1 \in DOMAIN c.todo /\ c.todo[i + 1] = x
        BY <3>1, <4>1
      <4> QED
        BY <4>2 DEF ToSet
    <3>6. p \in ToSet(c.todo)
      BY <3>1 DEF ToSet
    <3> QED
      BY <3>1, <3>4, <3>5, <3>6
  <2>2. p.id \in c.vacated /\ Ids(c.todo) = Ids(Tail(c.todo)) \cup {p.id}
    <3>1. Ids(c.todo) = Ids(Tail(c.todo)) \cup {p.id}
      <4> HIDE DEF p
      <4> QED
        BY <2>1 DEF Ids
    <3> QED
      BY <3>1 DEF ChainOK
  <2>3. CASE hole # None
    <3>1. next = [c EXCEPT !.todo = Tail(c.todo), !.at = With(c.at, p.id, hole)]
      BY <2>0, <2>3 DEF Turn
    <3>2. /\ SeatedAt(p, hole, reach)
          /\ \A b \in Blocked(claimant, ToSet(rows), c.vacated, c.at) : ~Overlaps(hole, b)
      <4>1. SeatOK(p, reach) /\ reach \in Interval /\ PullToward(p) \in Int
        BY <2>1, PullIsATime DEF SeatsOK
      <4>2. p.notBefore \in Int /\ WindowsIn(p.windows, reach)
        BY <4>1 DEF SeatOK
      <4> HIDE DEF p
      <4>3. hole = FindHole(p.end - p.start, p.notBefore, p.windows,
                            Blocked(claimant, ToSet(rows), c.vacated, c.at), soft, PullToward(p))
        BY DEF hole, SeatFor, p
      <4>4. p.notBefore >= p.notBefore /\ RoomIn(p.windows, p.windows) /\ SeatAnywhere(p)
        BY <4>1, <4>2 DEF RoomIn, SeatOK, SeatAnywhere
      <4> QED
        BY <2>3, <4>1, <4>2, <4>3, <4>4, HoleForSeat
    <3>3. /\ ~Overlaps(hole, claimant)
          /\ \A y \in ToSet(rows) : y.id \notin c.vacated => ~Overlaps(hole, y)
          /\ \A i \in DOMAIN c.at : ~Overlaps(hole, c.at[i])
      BY <3>2, SpanOverlaps DEF Blocked, Values
    <3>4. /\ Sound(With(c.at, p.id, hole), c.vacated, rows, reach)
          /\ DOMAIN With(c.at, p.id, hole) = DOMAIN c.at \cup {p.id}
      <4>1. Sound(c.at, c.vacated, rows, reach)
        BY DEF ChainOK
      <4>2. SeatedAt(p, hole, reach) /\ \A i \in DOMAIN c.at \ {p.id} : ~Overlaps(hole, c.at[i])
        BY <3>2, <3>3
      <4>3. p \in ToSet(rows) /\ p.id \in c.vacated
        BY <2>1, <2>2
      <4>4. DOMAIN With(c.at, p.id, hole) = DOMAIN c.at \cup {p.id}
        BY DEF With
      <4> HIDE DEF p
      <4> QED
        BY <3>3, <4>1, <4>2, <4>3, <4>4, SeatTaken
    <3>9. Clear(With(c.at, p.id, hole), claimant)
      BY <3>3 DEF ChainOK, Clear, With
    <3>5. With(c.at, p.id, hole) \in Ats(rows)
      <4>1. PICK X \in SUBSET Ids(rows) : c.at \in [X -> Interval]
        BY <1>0 DEF Ats
      <4>2. p.id \in Ids(rows) /\ hole \in Interval
        BY <2>1, <3>2 DEF Ids, SeatedAt
      <4>3. With(c.at, p.id, hole) \in [X \cup {p.id} -> Interval]
        BY <4>1, <4>2 DEF With
      <4> QED
        BY <4>2, <4>3 DEF Ats
    <3>6. /\ next.todo = Tail(c.todo) /\ next.at = With(c.at, p.id, hole)
          /\ next.vacated = c.vacated /\ next.pulls = c.pulls /\ next.failed = c.failed
          /\ next \in ChainRec(rows)
      <4> HIDE DEF next, p
      <4> QED
        BY <1>0, <2>1, <3>1, <3>5 DEF ChainRec
    <3> HIDE DEF next, p
    <3> QED
      BY <1>0, <2>1, <2>2, <3>4, <3>5, <3>6, <3>9 DEF ChainOK
  <2>4. CASE hole = None /\ c.pulls < MaxPulls /\ blockers # <<>>
    <3>1. next = [c EXCEPT !.todo = c.todo \o blockers, !.pulls = c.pulls + 1,
                           !.vacated = c.vacated \cup Ids(blockers)]
      <4> HIDE DEF p, relaxed, hole
      <4> QED
        BY <2>0, <2>4 DEF Turn
    <3>2. blockers \in Seq(ToSet(rows)) /\ ToSet(blockers) = ToSet(rows) \cap inTheWay
      <4>1. relaxed # None
        BY <2>4
      <4>2. blockers = Those(rows, inTheWay) /\ rows \in Seq(ToSet(rows))
        BY <4>1 DEF SeatsOK
      <4> HIDE DEF inTheWay
      <4> QED
        BY <4>2, Picks
    <3>9. ASSUME relaxed # None, NEW x \in ToSet(rows), Overlaps(x, relaxed)
          PROVE  Overlaps(x, reach)
      <4>1. SeatOK(p, reach) /\ reach \in Interval /\ PullToward(p) \in Int
        BY <2>1, PullIsATime DEF SeatsOK
      <4>2. p.notBefore \in Int /\ WindowsIn(p.windows, reach)
        BY <4>1 DEF SeatOK
      <4> HIDE DEF p
      <4>3. relaxed = FindHole(p.end - p.start, p.notBefore, p.windows,
                               Blocked(claimant, walls, c.vacated, c.at), soft, PullToward(p))
        BY DEF relaxed, SeatFor, p
      <4>4. p.notBefore >= p.notBefore /\ RoomIn(p.windows, p.windows) /\ SeatAnywhere(p)
        BY <4>1, <4>2 DEF RoomIn, SeatOK, SeatAnywhere
      <4>5. SeatedAt(p, relaxed, reach)
        BY <3>9, <4>1, <4>2, <4>3, <4>4, HoleForSeat
      <4>6. x.start \in Int /\ x.end \in Int
        BY DEF SeatsOK, SeatOK
      <4>7. /\ relaxed.start \in Int /\ relaxed.end \in Int /\ reach.start \in Int /\ reach.end \in Int
            /\ relaxed.start >= reach.start /\ relaxed.end <= reach.end
        BY <4>1, <4>5 DEF SeatedAt, Interval
      <4> QED
        BY <3>9, <4>6, <4>7 DEF Overlaps
    <3>3. /\ ToSet(blockers) \subseteq ToSet(rows)
          /\ \A x \in ToSet(blockers) : Pushable(x, claimant, recurring, reach)
      <4>1. relaxed # None
        BY <2>4
      <4> HIDE DEF p
      <4> QED
        BY <3>2, <3>9, <4>1 DEF Pushable
    <3> HIDE DEF blockers, inTheWay
    <3>4. c.todo \o blockers \in Seq(ToSet(rows)) /\ ToSet(c.todo \o blockers) = ToSet(c.todo) \cup ToSet(blockers)
      BY <1>0, <3>2, Joined
    <3>5. Ids(c.todo \o blockers) = Ids(c.todo) \cup Ids(blockers) /\ Ids(blockers) \subseteq Ids(rows)
      BY <3>3, <3>4 DEF Ids
    <3>6. /\ next.todo = c.todo \o blockers /\ next.at = c.at
          /\ next.vacated = c.vacated \cup Ids(blockers) /\ next.pulls = c.pulls + 1
          /\ next.failed = c.failed /\ next \in ChainRec(rows)
      <4>1. c.pulls + 1 \in Nat /\ c.vacated \cup Ids(blockers) \in SUBSET Ids(rows)
        BY <1>0, <3>5
      <4> HIDE DEF next
      <4> QED
        BY <1>0, <3>1, <3>4, <4>1 DEF ChainRec
    <3>7. Sound(c.at, c.vacated \cup Ids(blockers), rows, reach)
      BY DEF ChainOK, Sound
    <3>8. ASSUME NEW x \in ToSet(rows), x.id \in c.vacated \cup Ids(blockers) 
          PROVE Pushable(x, claimant, recurring, reach)
      <4>1. CASE x.id \in c.vacated
        BY <4>1 DEF ChainOK
      <4>2. CASE x.id \in Ids(blockers)
        <5>1. PICK y \in ToSet(blockers) : y.id = x.id
          BY <4>2 DEF Ids
        <5>2. x = y
          BY <3>3, <5>1 DEF SeatsOK
        <5> QED
          BY <3>3, <5>2
      <4> QED
        BY <3>8, <4>1, <4>2
    <3> HIDE DEF next
    <3> QED
      BY <1>0, <3>4, <3>5, <3>6, <3>7, <3>8 DEF ChainOK
  <2>5. CASE ~(hole # None) /\ ~(hole = None /\ c.pulls < MaxPulls /\ blockers # <<>>)
    <3>1. next = [c EXCEPT !.todo = <<>>, !.failed = TRUE]
      <4> HIDE DEF p, relaxed, hole
      <4> QED
        BY <2>0, <2>5 DEF Turn
    <3>2. /\ next.todo = <<>> /\ next.at = c.at /\ next.vacated = c.vacated
          /\ next.pulls = c.pulls /\ next.failed = TRUE /\ next \in ChainRec(rows)
      <4>1. <<>> \in Seq(ToSet(rows))
        BY EmptySeq
      <4> HIDE DEF next
      <4> QED
        BY <1>0, <3>1, <4>1 DEF ChainRec
    <3>3. Ids(<<>>) = {}
      BY EmptySeq DEF ToSet, Ids
    <3> HIDE DEF next
    <3> QED
      BY <1>0, <3>2, <3>3, EmptySeq DEF ChainOK
  <2> QED
    BY <2>3, <2>4, <2>5
<1> QED
  BY <1>1, <1>2

LEMMA NobodyMoved ==
  ASSUME NEW rows, NEW reach, NEW vacated
  PROVE  /\ NoOne \in Ats(rows) /\ DOMAIN NoOne = {}
         /\ Sound(NoOne, vacated, rows, reach) /\ \A i : Clear(NoOne, i)
<1>1. DOMAIN NoOne = {} /\ NoOne \in [{} -> Interval]
  BY DEF NoOne
<1>2. {} \in SUBSET Ids(rows)
  OBVIOUS
<1> QED
  BY <1>1, <1>2 DEF Sound, Clear, Ats

LEMMA WithTyped ==
  ASSUME NEW rows, NEW at \in Ats(rows), NEW p \in ToSet(rows), NEW h \in Interval
  PROVE  With(at, p.id, h) \in Ats(rows)
<1>1. PICK X \in SUBSET Ids(rows) : at \in [X -> Interval]
  BY DEF Ats
<1>2. p.id \in Ids(rows)
  BY DEF Ids
<1>3. With(at, p.id, h) \in [X \cup {p.id} -> Interval]
  BY <1>1 DEF With
<1>4. X \cup {p.id} \in SUBSET Ids(rows)
  BY <1>2
<1> QED
  BY <1>3, <1>4 DEF Ats

\* Everyone a finished chain moved, and those it was asked about are among them.
Resettled(at, people, claimant, rows, recurring, reach) ==
  /\ at \in Ats(rows) /\ Ids(people) \subseteq DOMAIN at
  /\ Sound(at, DOMAIN at, rows, reach) /\ Clear(at, claimant)
  /\ \A x \in ToSet(rows) : x.id \in DOMAIN at => Pushable(x, claimant, recurring, reach)

LEMMA ReseatSound ==
  ASSUME NEW rows, NEW reach, SeatsOK(rows, reach), NEW claimant, NEW soft, NEW recurring,
         NEW people \in Seq(ToSet(rows)),
         \A x \in ToSet(people) : Pushable(x, claimant, recurring, reach),
         MaxSpins \in Nat,
         Reseat(people, claimant, rows, soft, recurring) # None
  PROVE  Resettled(Reseat(people, claimant, rows, soft, recurring),
                   people, claimant, rows, recurring, reach)
<1> DEFINE N == MaxSpins
           D == { k \in ChainRec(rows) : /\ ChainOK(k, claimant, rows, recurring, reach)
                                         /\ Ids(people) \subseteq k.vacated }
           base == [todo |-> people, at |-> NoOne, vacated |-> Ids(people),
                    pulls |-> 0, failed |-> FALSE]
           Op(old) == Spin(old, claimant, rows, soft, recurring)
           F == [p \in D \X (1 .. N) |-> Op(p[1])]
           Is(f) == f = [n \in 0 .. N |-> IF n = 0 THEN base ELSE Op(f[n - 1])]
           chain == CHOOSE f : Is(f)
<1>1. ToSet(people) \subseteq ToSet(rows)
  BY ElementOfSeq, LenProperties DEF ToSet
<1>2. base \in D
  <2>1. Ids(people) \subseteq Ids(rows)
    BY <1>1 DEF Ids
  <2>2. base \in ChainRec(rows)
    BY <2>1, NobodyMoved DEF ChainRec
  <2>3. /\ base.todo = people /\ base.at = NoOne /\ base.vacated = Ids(people)
        /\ base.pulls = 0 /\ base.failed = FALSE
    OBVIOUS
  <2>4. ASSUME NEW x \in ToSet(rows), x.id \in Ids(people)
      PROVE  Pushable(x, claimant, recurring, reach)
    <3>1. PICK y \in ToSet(people) : y.id = x.id
      BY <2>4 DEF Ids
    <3>2. x = y
      BY <1>1, <3>1 DEF SeatsOK
    <3> QED
      BY <3>1, <3>2
  <2>6. base.failed \in BOOLEAN
    BY <2>2 DEF ChainRec
  <2>7. Ids(base.todo) \cup DOMAIN base.at = base.vacated /\ Ids(base.todo) \subseteq base.vacated
    BY <2>3, NobodyMoved
  <2>8. Sound(base.at, base.vacated, rows, reach) /\ Clear(base.at, claimant) /\ base.at \in Ats(rows)
    BY <2>3, NobodyMoved
  <2>9. base.todo \in Seq(ToSet(rows)) /\ base.vacated \subseteq Ids(rows) /\ base.pulls \in Nat
    BY <2>1, <2>3
  <2>10. \A x \in ToSet(rows) : x.id \in base.vacated => Pushable(x, claimant, recurring, reach)
    BY <2>3, <2>4
  <2> HIDE DEF base
  <2>5. ChainOK(base, claimant, rows, recurring, reach)
    BY <2>6, <2>7, <2>8, <2>9, <2>10 DEF ChainOK
  <2> QED
    BY <2>2, <2>3, <2>5
<1>3. \A old \in D : Op(old) \in D
  <2> SUFFICES ASSUME NEW old \in D PROVE Op(old) \in D
    OBVIOUS
  <2>1. old \in ChainRec(rows) /\ ChainOK(old, claimant, rows, recurring, reach)
    OBVIOUS
  <2>2. /\ Op(old) \in ChainRec(rows) /\ ChainOK(Op(old), claimant, rows, recurring, reach)
        /\ old.vacated \subseteq Op(old).vacated
    BY <2>1, SpinKeeps
  <2> QED
    BY <2>2
<1> HIDE DEF D, Op, base
<1>4. \E f : Is(f)
  <2>1. F \in [D \X (1 .. N) -> D]
    BY <1>3
  <2>2. \A old \in D, n \in 1 .. N : F[<<old, n>>] = Op(old)
    OBVIOUS
  <2> HIDE DEF F, N
  <2>3. PICK f \in [0 .. N -> D] : Iterated(f, base, F, N)
    BY <1>2, <2>1, Iterates DEF N
  <2>4. \A n \in 0 .. N : f[n] = IF n = 0 THEN base ELSE Op(f[n - 1])
    BY <2>2, <2>3 DEF Iterated, N
  <2>5. f = [n \in 0 .. N |-> f[n]]
    OBVIOUS
  <2> QED
    BY <2>4, <2>5
<1>5. Is(chain)
  <2> HIDE DEF Is
  <2> QED
    BY <1>4
<1>6. Reseat(people, claimant, rows, soft, recurring) = ChainEnd(chain[N])
  BY DEF Reseat, Op, base
<1> HIDE DEF chain
<1>7. chain[N] \in D
  <2>1. chain[0] = base /\ \A n \in 1 .. N : chain[n] = Op(chain[n - 1])
    BY <1>5
  <2>2. \A n \in 1 .. N : chain[n - 1] \in D => chain[n] \in D
    BY <1>3, <2>1
  <2>3. N \in Nat /\ N \in 0 .. N
    OBVIOUS
  <2> HIDE DEF N, Is, F
  <2>4. \A n \in 0 .. N : chain[n] \in D
    BY <1>2, <2>1, <2>2, <2>3, Follows
  <2> QED
    BY <2>3, <2>4
<1> DEFINE c == chain[N]
<1> HIDE DEF c
<1>8. ~c.failed /\ c.todo = <<>> /\ Reseat(people, claimant, rows, soft, recurring) = c.at
  BY <1>6 DEF ChainEnd, c
<1>9. /\ ChainOK(c, claimant, rows, recurring, reach) /\ Ids(people) \subseteq c.vacated
  BY <1>7 DEF c, D
<1>10. Ids(c.todo) = {}
  BY EmptySeq, <1>8 DEF ToSet, Ids
<1>11. DOMAIN c.at = c.vacated
  BY <1>8, <1>9, <1>10 DEF ChainOK
<1> QED
  BY <1>8, <1>9, <1>11 DEF ChainOK, Resettled

\* One more seat takes the place found for it beside those that have one already.
LEMMA OneMore ==
  ASSUME NEW rows, NEW reach, SeatsOK(rows, reach), NEW claimant, NEW soft, NEW vacated,
         NEW at \in Ats(rows), Sound(at, vacated, rows, reach), Clear(at, claimant),
         NEW p \in ToSet(rows), p.id \in vacated,
         NEW h, h = SeatFor(p, Blocked(claimant, ToSet(rows), vacated, at), soft), h # None
  PROVE  /\ SeatedAt(p, h, reach)
         /\ With(at, p.id, h) \in Ats(rows)
         /\ Sound(With(at, p.id, h), vacated, rows, reach)
         /\ Clear(With(at, p.id, h), claimant)
<1> DEFINE hard == Blocked(claimant, ToSet(rows), vacated, at)
<1>1. SeatedAt(p, h, reach) /\ \A b \in hard : ~Overlaps(h, b)
  <2>1. SeatOK(p, reach) /\ reach \in Interval /\ PullToward(p) \in Int
    BY PullIsATime DEF SeatsOK
  <2>2. p.notBefore \in Int /\ WindowsIn(p.windows, reach) /\ p.notBefore >= p.notBefore
        /\ RoomIn(p.windows, p.windows) /\ SeatAnywhere(p)
    BY <2>1 DEF SeatOK, RoomIn, SeatAnywhere
  <2>3. h = FindHole(p.end - p.start, p.notBefore, p.windows, hard, soft, PullToward(p))
    BY DEF SeatFor
  <2> HIDE DEF hard
  <2> QED
    BY <2>1, <2>2, <2>3, HoleForSeat
<1>2. /\ ~Overlaps(h, claimant)
      /\ \A y \in ToSet(rows) : y.id \notin vacated => ~Overlaps(h, y)
      /\ \A i \in DOMAIN at : ~Overlaps(h, at[i])
  BY <1>1, SpanOverlaps DEF Blocked, Values
<1>3. Sound(With(at, p.id, h), vacated, rows, reach)
  BY <1>2, <1>1, SeatTaken
<1>4. Clear(With(at, p.id, h), claimant)
  BY <1>2 DEF Clear, With
<1>5. With(at, p.id, h) \in Ats(rows)
  BY <1>1, WithTyped DEF SeatedAt
<1> QED
  BY <1>1, <1>3, <1>4, <1>5

LEMMA DirectSound ==
  ASSUME NEW rows, NEW reach, SeatsOK(rows, reach), NEW claimant, NEW soft,
         NEW people \in Seq(ToSet(rows))
  PROVE  LET at == ReseatDirectOnly(people, claimant, rows, soft)
         IN at \in Ats(rows) /\ Sound(at, Ids(people), rows, reach) /\ Clear(at, claimant)
<1> DEFINE N == Len(people)
           D == { at \in Ats(rows) : Sound(at, Ids(people), rows, reach) /\ Clear(at, claimant) }
           Hole(p, at) == SeatFor(p, Blocked(claimant, ToSet(rows), Ids(people), at), soft)
           Op(old, n) == TakeIfAny(old, people[n], Hole(people[n], old))
           F == [p \in D \X (1 .. N) |-> Op(p[1], p[2])]
           Is(f) == f = [n \in 0 .. N |-> IF n = 0 THEN NoOne ELSE Op(f[n - 1], n)]
           at == CHOOSE f : Is(f)
<1>1. /\ N \in Nat /\ N \in 0 .. N
      /\ \A n \in 1 .. N : people[n] \in ToSet(rows) /\ people[n].id \in Ids(people)
  BY LenProperties, ElementOfSeq DEF Ids, ToSet
<1>2. NoOne \in D
  BY NobodyMoved
<1>3. \A old \in D, n \in 1 .. N : Op(old, n) \in D
  <2> SUFFICES ASSUME NEW old \in D, NEW n \in 1 .. N PROVE Op(old, n) \in D
    OBVIOUS
  <2>1. old \in Ats(rows) /\ Sound(old, Ids(people), rows, reach) /\ Clear(old, claimant)
    OBVIOUS
  <2>2. people[n] \in ToSet(rows) /\ people[n].id \in Ids(people)
    BY <1>1
  <2>3. CASE Hole(people[n], old) = None
    BY <2>1, <2>3 DEF TakeIfAny
  <2>4. CASE Hole(people[n], old) # None
    <3> DEFINE h == Hole(people[n], old)
               new == With(old, people[n].id, h)
    <3>1. h = SeatFor(people[n], Blocked(claimant, ToSet(rows), Ids(people), old), soft) /\ h # None
      BY <2>4
    <3>2. Op(old, n) = new
      BY <2>4 DEF TakeIfAny
    <3> HIDE DEF h
    <3>3. new \in Ats(rows) /\ Sound(new, Ids(people), rows, reach) /\ Clear(new, claimant)
      BY <2>1, <2>2, <3>1, OneMore
    <3> QED
      BY <3>2, <3>3
  <2> QED
    BY <2>3, <2>4
<1> HIDE DEF D, Op
<1>4. \E f : Is(f)
  <2>1. F \in [D \X (1 .. N) -> D]
    BY <1>3
  <2>2. \A old \in D, n \in 1 .. N : F[<<old, n>>] = Op(old, n)
    OBVIOUS
  <2> HIDE DEF F, N
  <2>3. PICK f \in [0 .. N -> D] : Iterated(f, NoOne, F, N)
    BY <1>1, <1>2, <2>1, Iterates
  <2>4. \A n \in 0 .. N : f[n] = IF n = 0 THEN NoOne ELSE Op(f[n - 1], n)
    BY <1>1, <2>2, <2>3 DEF Iterated
  <2>5. f = [n \in 0 .. N |-> f[n]]
    OBVIOUS
  <2> QED
    BY <2>4, <2>5
<1>5. Is(at)
  <2> HIDE DEF Is
  <2> QED
    BY <1>4
<1>6. ReseatDirectOnly(people, claimant, rows, soft) = at[N]
  BY DEF ReseatDirectOnly, Op
<1> HIDE DEF at, N
<1>7. at[N] \in D
  <2>1. at[0] = NoOne /\ \A n \in 1 .. N : at[n] = Op(at[n - 1], n)
    BY <1>1, <1>5
  <2>2. \A n \in 1 .. N : at[n - 1] \in D => at[n] \in D
    BY <1>3, <2>1
  <2> HIDE DEF Is, F
  <2>3. \A n \in 0 .. N : at[n] \in D
    BY <1>1, <1>2, <2>1, <2>2, Follows
  <2> QED
    BY <1>1, <2>3
<1> QED
  BY <1>6, <1>7 DEF D

LEMMA MaxTwo ==
  ASSUME NEW a \in Int, NEW b \in Int
  PROVE  /\ Max({a, b}) \in Int /\ Max({a, b}) >= a /\ Max({a, b}) >= b
         /\ Min({a, b}) \in Int /\ Min({a, b}) <= a /\ Min({a, b}) <= b
<1>1. \E x \in {a, b} : \A y \in {a, b} : x >= y
  BY DEF Max
<1>2. \E x \in {a, b} : \A y \in {a, b} : x <= y
  OBVIOUS
<1>3. Max({a, b}) \in {a, b} /\ \A y \in {a, b} : Max({a, b}) >= y
  BY <1>1 DEF Max
<1>4. Min({a, b}) \in {a, b} /\ \A y \in {a, b} : Min({a, b}) <= y
  BY <1>2 DEF Min
<1> QED
  BY <1>3, <1>4

LEMMA MaxThree ==
  ASSUME NEW a \in Int, NEW b \in Int, NEW c \in Int
  PROVE  Max({a, b, c}) \in Int /\ Max({a, b, c}) >= a /\ Max({a, b, c}) >= b /\ Max({a, b, c}) >= c
<1>1. \E x \in {a, b, c} : \A y \in {a, b, c} : x >= y
  OBVIOUS
<1>2. Max({a, b, c}) \in {a, b, c} /\ \A y \in {a, b, c} : Max({a, b, c}) >= y
  BY <1>1 DEF Max
<1> QED
  BY <1>2

\* A cut window is in the window it was cut from.
LEMMA CutIsInside ==
  ASSUME NEW windows \in SUBSET Interval, NEW window \in Interval, NEW i \in Interval,
         FitsWindow(i, Within(windows, window))
  PROVE  FitsWindow(i, windows) /\ i.start >= window.start /\ i.end <= window.end
<1> DEFINE cut(v) == [start |-> Max({v.start, window.start}), end |-> Min({v.end, window.end})]
<1>1. PICK v \in windows : i.start >= cut(v).start /\ i.end <= cut(v).end
  BY DEF FitsWindow, Within
<1>2. /\ v.start \in Int /\ v.end \in Int /\ window.start \in Int /\ window.end \in Int
      /\ i.start \in Int /\ i.end \in Int
  BY DEF Interval
<1>3. /\ cut(v).start \in Int /\ cut(v).start >= v.start /\ cut(v).start >= window.start
      /\ cut(v).end \in Int /\ cut(v).end <= v.end /\ cut(v).end <= window.end
  BY <1>2, MaxTwo
<1> HIDE DEF cut
<1>4. i.start >= v.start /\ i.end <= v.end /\ i.start >= window.start /\ i.end <= window.end
  BY <1>1, <1>2, <1>3
<1> QED
  BY <1>4 DEF FitsWindow

LEMMA WithinReach ==
  ASSUME NEW windows \in SUBSET Interval, NEW window \in Interval
  PROVE  /\ WindowsIn(Within(windows, window), window)
         /\ \A low \in Int : (\A w \in windows : w.start >= low)
                               => \A w \in Within(windows, window) : w.start >= low
<1> DEFINE cut(v) == [start |-> Max({v.start, window.start}), end |-> Min({v.end, window.end})]
<1>1. ASSUME NEW v \in windows
      PROVE  /\ cut(v) \in Interval /\ cut(v).start >= window.start /\ cut(v).end <= window.end
             /\ cut(v).start >= v.start
  BY MaxTwo DEF Interval
<1>2. Within(windows, window) = { w \in { cut(v) : v \in windows } : w.end > w.start }
  BY DEF Within
<1> HIDE DEF cut
<1>3. \A w \in Within(windows, window) : \E v \in windows : w = cut(v)
  BY <1>2
<1>4. \A w \in Within(windows, window) :
        w \in Interval /\ w.start >= window.start /\ w.end <= window.end
  BY <1>1, <1>3
<1>5. ASSUME NEW low \in Int, \A v \in windows : v.start >= low, NEW w \in Within(windows, window)
      PROVE  w.start >= low
  <2>1. PICK v \in windows : w = cut(v)
    BY <1>3
  <2>2. v.start \in Int /\ w.start \in Int /\ w.start >= v.start /\ v.start >= low
    BY <1>1, <1>5, <2>1 DEF Interval
  <2> QED
    BY <2>2
<1> QED
  BY <1>4, <1>5 DEF WindowsIn

-----------------------------------------------------------------------------
(* Packing a day. *)

\* A claim a plan can be made for.
ClaimFields == {"dur", "notBefore", "windows", "interval", "near", "recurring"}

ClaimOK(claim, reach) ==
  /\ ClaimFields \subseteq DOMAIN claim
  /\ claim.dur \in Nat \ {0} /\ claim.notBefore \in Int /\ WindowsIn(claim.windows, reach)
  /\ claim.interval # None => claim.interval \in Interval /\ claim.interval.start < claim.interval.end
  /\ claim.near \in Int \cup {None}

\* A day to pack: everyone movable of the window, and walls for everyone else.
DayOK(day, rows, reach) ==
  /\ ClaimOK(day.claim, reach)
  /\ day.window \in Interval /\ day.window.start >= reach.start /\ day.window.end <= reach.end
  /\ day.movers \in SUBSET ToSet(rows)
  /\ day.people \in Seq(ToSet(rows)) /\ ToSet(day.people) = day.movers
  /\ day.walls = { Span(r) : r \in ToSet(rows) \ day.movers }

PeopleIds(day) == { x.id : x \in day.movers }

LEMMA HoleOnDayFits ==
  ASSUME NEW rows, NEW reach, SeatsOK(rows, reach), NEW day, DayOK(day, rows, reach),
         NEW p \in day.movers, NEW notBefore \in Int, NEW busy, NEW near \in Int \cup {None},
         NEW h, h = HoleOnDay(day, p, notBefore, busy, near), h # None
  PROVE  /\ SeatedAt(p, h, day.window)
         /\ \A y \in ToSet(rows) : y.id \notin PeopleIds(day) => ~Overlaps(h, y)
         /\ \A b \in busy : ~Overlaps(h, b)
<1> DEFINE late == Max({notBefore, p.notBefore, day.claim.notBefore})
           room == RoomOf(day, p)
           hard == day.walls \cup busy
<1>0. SeatOK(p, reach) /\ reach \in Interval /\ p \in ToSet(rows)
  BY DEF SeatsOK, DayOK
<1>1. late \in Int /\ late >= p.notBefore
  BY <1>0, MaxThree DEF SeatOK, DayOK, ClaimOK
<1>2. WindowsIn(room, day.window) /\ RoomIn(room, p.windows) /\ day.window \in Interval
  <2> DEFINE theirs == IF p.windows = {} THEN {day.window} ELSE p.windows
  <2>1. theirs \in SUBSET Interval /\ day.window \in Interval
    BY <1>0 DEF DayOK, SeatOK, WindowsIn
  <2>2. room = Within(theirs, day.window) /\ (p.windows # {} => theirs = p.windows)
    BY DEF RoomOf
  <2> HIDE DEF theirs, room
  <2>3. WindowsIn(room, day.window)
    BY <2>1, <2>2, WithinReach
  <2>4. RoomIn(room, p.windows)
    BY <2>1, <2>2, CutIsInside DEF RoomIn
  <2> QED
    BY <2>1, <2>3, <2>4
<1>3. h = FindHole(p.end - p.start, late, room, hard, day.soft, near)
  BY DEF HoleOnDay
<1> HIDE DEF late, room, hard
<1>4. SeatedAt(p, h, day.window) /\ \A b \in hard : ~Overlaps(h, b)
  BY <1>0, <1>1, <1>2, <1>3, HoleForSeat DEF SeatOK, SeatAnywhere
<1>5. ASSUME NEW y \in ToSet(rows), y.id \notin PeopleIds(day) PROVE ~Overlaps(h, y)
  BY <1>5, <1>4, SpanOverlaps DEF PeopleIds, DayOK, hard
<1> QED
  BY <1>4, <1>5 DEF hard

LEMMA OneMoreOfDay ==
  ASSUME NEW rows, NEW reach, SeatsOK(rows, reach), NEW day, DayOK(day, rows, reach),
         NEW at \in Ats(rows), Sound(at, PeopleIds(day), rows, day.window),
         NEW p \in day.movers, NEW h, SeatedAt(p, h, day.window),
         \A y \in ToSet(rows) : y.id \notin PeopleIds(day) => ~Overlaps(h, y),
         \A i \in DOMAIN at \ {p.id} : ~Overlaps(h, at[i])
  PROVE  /\ With(at, p.id, h) \in Ats(rows)
         /\ Sound(With(at, p.id, h), PeopleIds(day), rows, day.window)
         /\ p.id \in DOMAIN With(at, p.id, h)
         /\ DOMAIN at \subseteq DOMAIN With(at, p.id, h)
<1>1. p \in ToSet(rows) /\ p.id \in PeopleIds(day) /\ h \in Interval
  BY DEF DayOK, PeopleIds, SeatedAt
<1>2. With(at, p.id, h) \in Ats(rows)
  BY <1>1, WithTyped
<1>3. Sound(With(at, p.id, h), PeopleIds(day), rows, day.window)
  BY <1>1, SeatTaken
<1> QED
  BY <1>2, <1>3 DEF With

LEMMA CompactedSound ==
  ASSUME NEW rows, NEW reach, SeatsOK(rows, reach), NEW day, DayOK(day, rows, reach),
         None \notin Interval
  PROVE  LET acc == Compacted(day)
         IN /\ acc.at \in Ats(rows) /\ Sound(acc.at, PeopleIds(day), rows, day.window)
            /\ ~acc.failed => PeopleIds(day) \subseteq DOMAIN acc.at
<1> DEFINE N == Len(day.people)
           Acc == [failed : BOOLEAN, at : Ats(rows), cursor : Int]
           D == { a \in Acc : Sound(a.at, PeopleIds(day), rows, day.window) }
           base == [failed |-> FALSE, at |-> NoOne,
                    cursor |-> Max({day.window.start, day.claim.notBefore})]
           Hole(p, a) == HoleOnDay(day, p, a.cursor, Values(a.at), None)
           Op(old, n) == Take(old, day.people[n], Hole(day.people[n], old))
           F == [p \in D \X (1 .. N) |-> Op(p[1], p[2])]
           Is(f) == f = [n \in 0 .. N |-> IF n = 0 THEN base ELSE Op(f[n - 1], n)]
           acc == CHOOSE f : Is(f)
           Served(old, new, p) == /\ DOMAIN old.at \subseteq DOMAIN new.at
                                  /\ ~new.failed => ~old.failed /\ p.id \in DOMAIN new.at
<1>1. /\ N \in Nat /\ N \in 0 .. N /\ \A n \in 1 .. N : day.people[n] \in day.movers
      /\ \A x \in day.movers : \E n \in 1 .. N : day.people[n] = x
  BY LenProperties DEF DayOK, ToSet
<1>2. base \in D
  BY MaxTwo, NobodyMoved DEF DayOK, ClaimOK, Interval
<1>3. ASSUME NEW old \in D, NEW n \in 1 .. N
      PROVE  Op(old, n) \in D /\ Served(old, Op(old, n), day.people[n])
  <2> DEFINE p == day.people[n]
             h == Hole(p, old)
             new == With(old.at, p.id, h)
  <2>1. /\ old \in Acc /\ old.at \in Ats(rows) /\ old.cursor \in Int /\ old.failed \in BOOLEAN
        /\ Sound(old.at, PeopleIds(day), rows, day.window) /\ p \in day.movers
    BY <1>1
  <2>2. CASE old.failed \/ h = None
    <3>1. Op(old, n) = [old EXCEPT !.failed = TRUE]
      BY <2>2 DEF Take
    <3> HIDE DEF Op, p
    <3>2. /\ Op(old, n) \in Acc /\ Op(old, n).at = old.at /\ Op(old, n).failed
      BY <2>1, <3>1
    <3> QED
      BY <2>1, <3>2
  <2>3. CASE ~(old.failed \/ h = None)
    <3>1. Op(old, n) = [old EXCEPT !.cursor = h.end, !.at = new]
      <4> HIDE DEF h, p
      <4> QED
        BY <2>3 DEF Take, h, p
    <3>2. h = HoleOnDay(day, p, old.cursor, Values(old.at), None) /\ h # None /\ ~old.failed
      BY <2>3
    <3> HIDE DEF h, p
    <3>3. /\ SeatedAt(p, h, day.window)
          /\ \A y \in ToSet(rows) : y.id \notin PeopleIds(day) => ~Overlaps(h, y)
          /\ \A b \in Values(old.at) : ~Overlaps(h, b)
      BY <2>1, <3>2, HoleOnDayFits
    <3>4. \A i \in DOMAIN old.at \ {p.id} : ~Overlaps(h, old.at[i])
      BY <3>3 DEF Values
    <3>5. /\ new \in Ats(rows) /\ Sound(new, PeopleIds(day), rows, day.window)
          /\ p.id \in DOMAIN new /\ DOMAIN old.at \subseteq DOMAIN new
      BY <2>1, <3>3, <3>4, OneMoreOfDay
    <3>6. h.end \in Int
      BY <3>3 DEF SeatedAt, Interval
    <3> HIDE DEF Op, new
    <3>7. /\ Op(old, n) \in Acc /\ Op(old, n).at = new /\ Op(old, n).failed = old.failed
      BY <2>1, <3>1, <3>5, <3>6
    <3> QED
      BY <3>2, <3>5, <3>7 DEF p
  <2> QED
    BY <2>2, <2>3
<1> HIDE DEF D, Op, base, Served
<1>4. \E f : Is(f)
  <2>1. F \in [D \X (1 .. N) -> D]
    BY <1>3
  <2>2. \A old \in D, n \in 1 .. N : F[<<old, n>>] = Op(old, n)
    OBVIOUS
  <2> HIDE DEF F, N
  <2>3. PICK f \in [0 .. N -> D] : Iterated(f, base, F, N)
    BY <1>1, <1>2, <2>1, Iterates
  <2>4. \A n \in 0 .. N : f[n] = IF n = 0 THEN base ELSE Op(f[n - 1], n)
    BY <1>1, <2>2, <2>3 DEF Iterated
  <2>5. f = [n \in 0 .. N |-> f[n]]
    OBVIOUS
  <2> QED
    BY <2>4, <2>5
<1>5. Is(acc)
  <2> HIDE DEF Is
  <2> QED
    BY <1>4
<1>6. Compacted(day) = acc[N]
  BY DEF Compacted, Op, base
<1> HIDE DEF acc, N
<1>7. acc[0] = base /\ \A n \in 1 .. N : acc[n] = Op(acc[n - 1], n)
  BY <1>1, <1>5
<1> HIDE DEF Is, F
<1>8. \A n \in 0 .. N : acc[n] \in D
  <2>1. \A n \in 1 .. N : acc[n - 1] \in D => acc[n] \in D
    BY <1>3, <1>7
  <2> QED
    BY <1>1, <1>2, <1>7, <2>1, Follows
<1> DEFINE Full(n) == ~acc[n].failed => \A k \in 1 .. n : day.people[k].id \in DOMAIN acc[n].at
           G == { n \in Nat : Full(n) }
<1>9. \A n \in 0 .. N : n \in G
  <2>1. 0 \in G
    OBVIOUS
  <2>2. ASSUME NEW n \in 0 .. (N - 1), n \in G PROVE n + 1 \in G
    <3>1. n + 1 \in 1 .. N /\ (n + 1) - 1 = n /\ n \in 0 .. N
      BY <1>1
    <3>2. Served(acc[n], acc[n + 1], day.people[n + 1])
      BY <1>3, <1>7, <1>8, <3>1
    <3>3. Full(n + 1)
      <4> SUFFICES ASSUME ~acc[n + 1].failed, NEW k \in 1 .. (n + 1)
                   PROVE  day.people[k].id \in DOMAIN acc[n + 1].at
        OBVIOUS
      <4>1. k = n + 1 \/ k \in 1 .. n
        BY <3>1
      <4> QED
        BY <2>2, <3>2, <4>1 DEF Served
    <3> QED
      BY <3>1, <3>3
  <2> HIDE DEF G
  <2> QED
    BY <1>1, <2>1, <2>2, UpTo
<1>10. acc[N] \in D /\ (~acc[N].failed => PeopleIds(day) \subseteq DOMAIN acc[N].at)
  <2>1. acc[N] \in D /\ N \in G
    BY <1>1, <1>8, <1>9
  <2>2. ASSUME ~acc[N].failed, NEW i \in PeopleIds(day) PROVE i \in DOMAIN acc[N].at
    <3>1. PICK x \in day.movers : i = x.id
      BY <2>2 DEF PeopleIds
    <3>2. PICK k \in 1 .. N : day.people[k] = x
      BY <1>1
    <3> QED
      BY <2>1, <2>2, <3>1, <3>2
  <2> QED
    BY <2>1, <2>2
<1> QED
  BY <1>6, <1>10 DEF D

\* Everyone of the day has a place.
AllPlaced(at, day, rows) ==
  at \in Ats(rows) /\ Sound(at, PeopleIds(day), rows, day.window) /\ DOMAIN at = PeopleIds(day)

LEMMA SlidSound ==
  ASSUME NEW rows, NEW reach, SeatsOK(rows, reach), NEW day, DayOK(day, rows, reach),
         NEW packed, AllPlaced(packed, day, rows), NEW first
  PROVE  AllPlaced(SlidBack(day, packed, first), day, rows)
<1> DEFINE N == Len(day.people)
           D == { a \in Ats(rows) : AllPlaced(a, day, rows) }
           Hole(p, at) == HoleOnDay(day, p, day.window.start,
                               { at[x] : x \in DOMAIN at \ {p.id} } \cup {first},
                               PullToward(p))
           Op(old, n) == TakeIfAny(old, day.people[n], Hole(day.people[n], old))
           F == [p \in D \X (1 .. N) |-> Op(p[1], p[2])]
           Is(f) == f = [n \in 0 .. N |-> IF n = 0 THEN packed ELSE Op(f[n - 1], n)]
           at == CHOOSE f : Is(f)
<1>1. N \in Nat /\ N \in 0 .. N /\ \A n \in 1 .. N : day.people[n] \in day.movers
  BY LenProperties DEF DayOK, ToSet
<1>2. packed \in D
  BY DEF AllPlaced
<1>3. \A old \in D, n \in 1 .. N : Op(old, n) \in D
  <2> SUFFICES ASSUME NEW old \in D, NEW n \in 1 .. N PROVE Op(old, n) \in D
    OBVIOUS
  <2> DEFINE p == day.people[n]
             h == Hole(p, old)
             new == With(old, p.id, h)
  <2>1. /\ old \in Ats(rows) /\ Sound(old, PeopleIds(day), rows, day.window) /\ DOMAIN old = PeopleIds(day)
        /\ p \in day.movers
    BY <1>1 DEF AllPlaced
  <2>2. CASE h = None
    BY <2>2 DEF TakeIfAny
  <2>3. CASE h # None
    <3>1. Op(old, n) = new
      BY <2>3 DEF TakeIfAny
    <3> DEFINE busy == { old[x] : x \in DOMAIN old \ {p.id} } \cup {first}
    <3>2. h = HoleOnDay(day, p, day.window.start, busy, PullToward(p)) /\ h # None
      BY <2>3
    <3>3. day.window.start \in Int
      BY DEF DayOK, Interval
    <3>4. SeatOK(p, reach)
      BY <2>1 DEF DayOK, SeatsOK
    <3> HIDE DEF h, p
    <3>5. PullToward(p) \in Int \cup {None}
      BY <3>4, PullIsATime
    <3>6. \A i \in DOMAIN old \ {p.id} : old[i] \in busy
      OBVIOUS
    <3> HIDE DEF busy
    <3>7. /\ SeatedAt(p, h, day.window)
          /\ \A y \in ToSet(rows) : y.id \notin PeopleIds(day) => ~Overlaps(h, y)
          /\ \A b \in busy : ~Overlaps(h, b)
      BY <2>1, <3>2, <3>3, <3>5, HoleOnDayFits
    <3>8. \A i \in DOMAIN old \ {p.id} : ~Overlaps(h, old[i])
      BY <3>6, <3>7
    <3>9. new \in Ats(rows) /\ Sound(new, PeopleIds(day), rows, day.window)
      BY <2>1, <3>7, <3>8, OneMoreOfDay
    <3>10. DOMAIN new = PeopleIds(day)
      BY <2>1 DEF With, PeopleIds
    <3> QED
      BY <3>1, <3>9, <3>10 DEF AllPlaced, p
  <2> QED
    BY <2>2, <2>3
<1> HIDE DEF D, Op
<1>4. \E f : Is(f)
  <2>1. F \in [D \X (1 .. N) -> D]
    BY <1>3
  <2>2. \A old \in D, n \in 1 .. N : F[<<old, n>>] = Op(old, n)
    OBVIOUS
  <2> HIDE DEF F, N
  <2>3. PICK f \in [0 .. N -> D] : Iterated(f, packed, F, N)
    BY <1>1, <1>2, <2>1, Iterates
  <2>4. \A n \in 0 .. N : f[n] = IF n = 0 THEN packed ELSE Op(f[n - 1], n)
    BY <1>1, <2>2, <2>3 DEF Iterated
  <2>5. f = [n \in 0 .. N |-> f[n]]
    OBVIOUS
  <2> QED
    BY <2>4, <2>5
<1>5. Is(at)
  <2> HIDE DEF Is
  <2> QED
    BY <1>4
<1>6. SlidBack(day, packed, first) = at[N]
  BY DEF SlidBack, Op
<1> HIDE DEF at, N
<1>7. at[N] \in D
  <2>1. at[0] = packed /\ \A n \in 1 .. N : at[n] = Op(at[n - 1], n)
    BY <1>1, <1>5
  <2>2. \A n \in 1 .. N : at[n - 1] \in D => at[n] \in D
    BY <1>3, <2>1
  <2> HIDE DEF Is, F
  <2>3. \A n \in 0 .. N : at[n] \in D
    BY <1>1, <1>2, <2>1, <2>2, Follows
  <2> QED
    BY <1>1, <2>3
<1> QED
  BY <1>6, <1>7 DEF D

\* The new interval of a seat that has to go, None for none.
NewPlace(x, at) == IF x.id \in DOMAIN at THEN at[x.id] ELSE None

\* With `i` taken, those of `X` move to the places of `at`, or lose theirs;
\* nobody who stays is in anyone's way, but for tasks put on top.
Rearranged(i, moves, X, at, rows, reach) ==
  /\ X \in SUBSET Ids(rows) /\ at \in Ats(rows)
  /\ Sound(at, X, rows, reach) /\ Clear(at, i)
  /\ \A x \in ToSet(rows) : x.id \in X => x.role \in {"flexible", "series"}
  /\ \A x \in ToSet(rows) : x.id \notin X /\ x.role # "resolved" => ~Overlaps(i, x)
  /\ \A m \in moves : \E x \in ToSet(rows) : x.id \in X /\ m = MoveFor(x, NewPlace(x, at))
  /\ \A x \in ToSet(rows) : x.id \in X /\ NewPlace(x, at) # Span(x)
                              => MoveFor(x, NewPlace(x, at)) \in moves

\* A place for the claim: the interval asked, or one that fits.
PlaceFor(i, claim, reach) ==
  /\ i \in Interval /\ i.start < i.end
  /\ \/ i = claim.interval
     \/ /\ i.end = i.start + claim.dur /\ i.start >= claim.notBefore
        /\ i.start >= reach.start /\ i.end <= reach.end

LEMMA ClaimsHole ==
  ASSUME NEW reach \in Interval, NEW claim, ClaimOK(claim, reach),
         NEW windows, WindowsIn(windows, reach),
         NEW hard, NEW soft, NEW near \in Int \cup {None},
         NEW h, h = FindHole(claim.dur, claim.notBefore, windows, hard, soft, near), h # None
  PROVE  PlaceFor(h, claim, reach) /\ \A b \in hard : ~Overlaps(h, b)
<1>1. Searches(claim.dur, claim.notBefore, windows, near) /\ claim.dur \in Nat \ {0}
  BY DEF ClaimOK, WindowsIn, Searches
<1> DEFINE dur == claim.dur
           late == claim.notBefore
<1> HIDE DEF dur, late
<1>2. IsHole(h, dur, late, windows, hard)
  BY <1>1, HoleIsFree DEF dur, late
<1> QED
  BY <1>1, <1>2 DEF IsHole, PlaceFor, Interval, FitsWindow, WindowsIn, dur, late

LEMMA ClaimHoleFits ==
  ASSUME NEW rows, NEW reach \in Interval, NEW day, DayOK(day, rows, reach), NEW at,
         NEW h, h = ClaimHole(day, at), h # None
  PROVE  /\ PlaceFor(h, day.claim, reach)
         /\ \A y \in ToSet(rows) : y \notin day.movers => ~Overlaps(h, y)
         /\ \A i \in DOMAIN at : ~Overlaps(h, at[i])
<1> DEFINE claim == day.claim
           near == CASE claim.near # None -> claim.near
                     [] claim.near = None /\ claim.interval # None -> claim.interval.start
                     [] OTHER -> IF claim.recurring THEN day.window.end ELSE None
           hard == day.walls \cup Values(at)
<1>1. near \in Int \cup {None}
  <2>1. /\ claim.near \in Int \cup {None} /\ day.window.end \in Int
        /\ claim.interval # None => claim.interval.start \in Int
    BY DEF DayOK, ClaimOK, Interval
  <2> HIDE DEF claim
  <2> QED
    BY <2>1
<1>2. h = FindHole(claim.dur, claim.notBefore, {day.window}, hard, day.soft, near)
  BY DEF ClaimHole
<1>3. WindowsIn({day.window}, reach) /\ ClaimOK(claim, reach)
  BY DEF DayOK, WindowsIn
<1> HIDE DEF near, hard, claim
<1>4. PlaceFor(h, claim, reach) /\ \A b \in hard : ~Overlaps(h, b)
  BY <1>1, <1>2, <1>3, ClaimsHole
<1>5. \A y \in ToSet(rows) : y \notin day.movers => Span(y) \in hard
  BY DEF DayOK, hard
<1>6. \A i \in DOMAIN at : at[i] \in hard
  BY DEF hard, Values
<1> QED
  BY <1>4, <1>5, <1>6, SpanOverlaps DEF claim

\* Whoever moves sits in the window it moves in, or in the way of what was asked.
Around(i, x, h, claim, reach) ==
  \/ \E w \in claim.windows : Overlaps(x, w) /\ h.start >= w.start /\ h.end <= w.end
  \/ i = claim.interval /\ i # None /\ (Overlaps(x, i) \/ Overlaps(x, reach))

AllAround(i, at, claim, rows, reach) ==
  \A x \in ToSet(rows) : x.id \in DOMAIN at => Around(i, x, at[x.id], claim, reach)

\* A place and moves that disturb nobody else.
Arranged(i, moves, claim, rows, reach) ==
  /\ PlaceFor(i, claim, reach)
  /\ \E X \in SUBSET Ids(rows), at \in Ats(rows) :
       Rearranged(i, moves, X, at, rows, reach) /\ AllAround(i, at, claim, rows, reach)

LEMMA SoundWider ==
  ASSUME NEW rows, NEW area \in Interval, NEW reach \in Interval, NEW at, NEW vacated,
         Sound(at, vacated, rows, area), area.start >= reach.start, area.end <= reach.end
  PROVE  Sound(at, vacated, rows, reach)
<1>1. /\ area.start \in Int /\ area.end \in Int /\ reach.start \in Int /\ reach.end \in Int
      /\ \A h \in Interval : h.start \in Int /\ h.end \in Int
  BY DEF Interval
<1>2. \A x, h : SeatedAt(x, h, area) => SeatedAt(x, h, reach)
  BY <1>1 DEF SeatedAt
<1> QED
  BY <1>2 DEF Sound

LEMMA PackArranged ==
  ASSUME NEW rows, NEW reach, SeatsOK(rows, reach), NEW claim, ClaimOK(claim, reach),
         NEW soft, NEW window \in claim.windows, window \in Interval, window.start >= reach.start, window.end <= reach.end,
         None \notin Interval,
         NEW layout, layout = PackMovablesForHole(claim, rows, soft, window), layout # None
  PROVE  Arranged(layout.at, layout.moves, claim, rows, reach)
<1> DEFINE movers == { r \in ToSet(rows) : Movable(r, claim.recurring) /\ Overlaps(r, window) }
           day == [claim |-> claim, people |-> ByStart(Those(rows, movers)), movers |-> movers,
                   window |-> window, soft |-> soft,
                   walls |-> { Span(r) : r \in ToSet(rows) \ movers }]
           packed == Compacted(day)
           at == SlidBack(day, packed.at, ClaimHole(day, packed.at))
           claimed == ClaimHole(day, at)
<1>0. rows \in Seq(ToSet(rows)) /\ reach \in Interval /\ \A x \in ToSet(rows) : SeatOK(x, reach)
  BY DEF SeatsOK
<1>1. ToSet(Those(rows, movers)) = movers /\ Those(rows, movers) \in Seq(ToSet(rows))
  <2>1. ToSet(rows) \cap movers = movers
    OBVIOUS
  <2> HIDE DEF movers
  <2> QED
    BY <1>0, <2>1, Picks
<1>2. ByStart(Those(rows, movers)) \in Seq(ToSet(rows)) /\ ToSet(ByStart(Those(rows, movers))) = movers
  <2>1. \A x \in movers : x.start \in Int /\ x.end \in Int
    BY <1>0 DEF SeatOK
  <2> HIDE DEF movers
  <2> QED
    BY <1>1, <2>1, Sorted
<1>3. /\ day.claim = claim /\ day.people = ByStart(Those(rows, movers)) /\ day.movers = movers
      /\ day.window = window /\ day.walls = { Span(r) : r \in ToSet(rows) \ movers }
      /\ day.movers \subseteq ToSet(rows)
      /\ \A x \in day.movers : x.role \in {"flexible", "series"} /\ Overlaps(x, window)
  BY DEF Movable
<1>4. PackMovablesForHole(claim, rows, soft, window)
        = IF FreeUnits(window, rows) < claim.dur \/ movers = {} THEN None
          ELSE LayoutPacked(day, Compacted(day))
  BY DEF PackMovablesForHole
<1> HIDE DEF day, movers
<1>5. DayOK(day, rows, reach)
  BY <1>2, <1>3 DEF DayOK
<1>6. layout = LayoutPacked(day, packed)
  BY <1>4
<1>7. ~packed.failed /\ layout = LayoutSlid(day, at)
  <2> HIDE DEF packed
  <2> QED
    BY <1>6 DEF LayoutPacked, LayoutAround
<1>8. AllPlaced(packed.at, day, rows)
  <2>1. /\ packed.at \in Ats(rows) /\ Sound(packed.at, PeopleIds(day), rows, day.window)
        /\ PeopleIds(day) \subseteq DOMAIN packed.at
    BY <1>5, <1>7, CompactedSound
  <2> HIDE DEF packed
  <2> QED
    BY <2>1 DEF AllPlaced, Sound
<1>9. AllPlaced(at, day, rows)
  <2> HIDE DEF packed
  <2> QED
    BY <1>5, <1>8, SlidSound
<1> HIDE DEF at
<1>10. /\ claimed # None
       /\ layout = [at |-> claimed,
                    moves |-> { MoveFor(p, at[p.id]) : p \in { x \in day.movers : at[x.id] # Span(x) } }]
  <2> HIDE DEF claimed
  <2>1. layout = Layout(day, at, claimed)
    BY <1>7 DEF LayoutSlid, claimed
  <2> QED
    BY <2>1 DEF Layout
<1>11. /\ PlaceFor(claimed, claim, reach)
       /\ \A y \in ToSet(rows) : y \notin day.movers => ~Overlaps(claimed, y)
       /\ \A i \in DOMAIN at : ~Overlaps(claimed, at[i])
  <2> DEFINE h == claimed
  <2>1. h = ClaimHole(day, at) /\ h # None
    BY <1>10
  <2> HIDE DEF h
  <2> QED
    BY <1>0, <1>3, <1>5, <2>1, ClaimHoleFits DEF h
<1> HIDE DEF claimed
<1>12. layout.at = claimed
       /\ layout.moves = { MoveFor(p, at[p.id]) : p \in { x \in day.movers : at[x.id] # Span(x) } }
  BY <1>10
<1> DEFINE X == PeopleIds(day)
<1>13. X \in SUBSET Ids(rows) /\ at \in Ats(rows) /\ Sound(at, X, rows, window) /\ DOMAIN at = X
  BY <1>3, <1>9 DEF AllPlaced, PeopleIds, Ids
<1>14. \A x \in ToSet(rows) : x.id \in X <=> x \in day.movers
  <2> SUFFICES ASSUME NEW x \in ToSet(rows), x.id \in X PROVE x \in day.movers
    BY DEF PeopleIds
  <2>1. PICK y \in day.movers : y.id = x.id
    BY DEF PeopleIds
  <2> QED
    BY <1>3, <2>1 DEF SeatsOK
<1> HIDE DEF X
<1>15. Clear(at, claimed)
  BY <1>11, OverlapsBoth DEF Clear
<1>16. \A x \in day.movers : NewPlace(x, at) = at[x.id]
  BY <1>3, <1>13, <1>14 DEF NewPlace
<1>17. \A m \in layout.moves : \E x \in ToSet(rows) : x.id \in X /\ m = MoveFor(x, NewPlace(x, at))
  BY <1>3, <1>12, <1>14, <1>16
<1>18. \A x \in ToSet(rows) : x.id \in X /\ NewPlace(x, at) # Span(x)
                                => MoveFor(x, NewPlace(x, at)) \in layout.moves
  BY <1>12, <1>14, <1>16
<1>20. Sound(at, X, rows, reach)
  BY <1>0, <1>13, SoundWider
<1>21. AllAround(layout.at, at, claim, rows, reach)
  <2>1. ASSUME NEW x \in ToSet(rows), x.id \in DOMAIN at
        PROVE  Overlaps(x, window) /\ at[x.id].start >= window.start /\ at[x.id].end <= window.end
    BY <1>13, <1>14, <2>1, <1>3 DEF Sound, SeatedAt
  <2> QED
    BY <2>1 DEF AllAround, Around
<1>19. Rearranged(layout.at, layout.moves, X, at, rows, reach)
  BY <1>20, <1>3, <1>11, <1>12, <1>13, <1>14, <1>15, <1>17, <1>18 DEF Rearranged
<1> QED
  BY <1>11, <1>12, <1>13, <1>19, <1>21 DEF Arranged

\* Free of every seat, nobody moves.
LEMMA AlmostAlone ==
  ASSUME NEW rows, NEW reach, NEW claim, NEW i, PlaceFor(i, claim, reach),
         \A x \in ToSet(rows) : x.role # "resolved" => ~Overlaps(i, x)
  PROVE  Arranged(i, {}, claim, rows, reach)
<1>1. Rearranged(i, {}, {}, NoOne, rows, reach)
  BY NobodyMoved DEF Rearranged
<1>2. AllAround(i, NoOne, claim, rows, reach)
  BY NobodyMoved DEF AllAround
<1> QED
  BY <1>1, <1>2, NobodyMoved DEF Arranged

SeatedWell(plan, claim, rows, reach) ==
  plan.outcome = "seated" => Arranged(plan.at, plan.moves, claim, rows, reach)

LEMMA PlainPlans ==
  ASSUME NEW i, NEW moves, NEW why
  PROVE  /\ Seated(i, moves).outcome = "seated" /\ Seated(i, moves).at = i
         /\ Seated(i, moves).moves = moves
         /\ Unseated(why).outcome = why
BY DEF Seated, Unseated

LEMMA WindowInReach ==
  ASSUME NEW reach \in Interval, NEW W, WindowsIn(W, reach), NEW V \in SUBSET W, V # {}
  PROVE  Earliest(V) \in V /\ Earliest(V) \in Interval
         /\ Earliest(V).start >= reach.start /\ Earliest(V).end <= reach.end
<1>1. V \in SUBSET Interval /\ reach.start \in Int /\ \A w \in V : w.start >= reach.start
  BY DEF WindowsIn, Interval
<1>2. Earliest(V) \in V
  BY <1>1, EarliestIsAWindow
<1> QED
  BY <1>2 DEF WindowsIn

LEMMA PlanHoleArranged ==
  ASSUME NEW rows, NEW reach, SeatsOK(rows, reach), NEW claim, ClaimOK(claim, reach), NEW soft,
         None \notin Interval
  PROVE  SeatedWell(PlanHole(claim, rows, soft), claim, rows, reach)
<1> DEFINE seats == ToSet(rows)
           busy == UNION { IF s.home = None THEN {Span(s)} ELSE {Span(s), s.home} : s \in seats }
           used == { w \in claim.windows : \E s \in seats : Movable(s, FALSE) /\ Overlaps(s, w) }
           hole == [w \in claim.windows |->
                      FindHole(claim.dur, claim.notBefore, {w}, busy, soft, claim.near)]
           pack == [w \in used |-> PackMovablesForHole(claim, rows, soft, w)]
           holed == { w \in used : /\ hole[w] # None
                                   /\ ~(claim.recurring /\ IsInteriorClusterHole(hole[w], rows, w)) }
           packable == { w \in used : claim.pack /\ pack[w] # None }
           empty == { w \in claim.windows \ used : hole[w] # None }
           plan == PlanHole(claim, rows, soft)
<1>0. reach \in Interval /\ WindowsIn(claim.windows, reach) /\ claim.near \in Int \cup {None}
  BY DEF SeatsOK, ClaimOK
<1>1. plan = BestDay(claim, rows, used, hole, pack)
  BY DEF PlanHole
<1>2. used \in SUBSET claim.windows
  OBVIOUS
<1>3. \A s \in seats : Span(s) \in busy
  OBVIOUS
<1>4. ASSUME NEW w \in claim.windows, hole[w] # None
      PROVE  Arranged(hole[w], {}, claim, rows, reach)
  <2>1. hole[w] = FindHole(claim.dur, claim.notBefore, {w}, busy, soft, claim.near)
    OBVIOUS
  <2>2. WindowsIn({w}, reach)
    BY <1>0 DEF WindowsIn
  <2> DEFINE h == hole[w]
  <2>3. h = FindHole(claim.dur, claim.notBefore, {w}, busy, soft, claim.near) /\ h # None
    BY <1>4, <2>1
  <2> HIDE DEF h, busy, hole
  <2>4. PlaceFor(h, claim, reach) /\ \A b \in busy : ~Overlaps(h, b)
    BY <1>0, <2>2, <2>3, ClaimsHole
  <2>5. \A x \in ToSet(rows) : ~Overlaps(h, x)
    BY <1>3, <2>4, SpanOverlaps
  <2> QED
    BY <2>4, <2>5, AlmostAlone DEF h
<1>5. ASSUME NEW w \in used, pack[w] # None
      PROVE  Arranged(pack[w].at, pack[w].moves, claim, rows, reach)
  <2> DEFINE layout == pack[w]
  <2>1. layout = PackMovablesForHole(claim, rows, soft, w) /\ layout # None
    BY <1>5
  <2>2. w \in claim.windows /\ w \in Interval /\ w.start >= reach.start /\ w.end <= reach.end
    BY <1>0, <1>2 DEF WindowsIn
  <2> HIDE DEF layout, used, pack
  <2>3. Arranged(layout.at, layout.moves, claim, rows, reach)
    BY <2>1, <2>2, PackArranged
  <2> QED
    BY <2>3 DEF layout
<1>6. /\ plan = CASE holed # {} -> Seated(hole[Earliest(holed)], {})
                  [] holed = {} /\ packable # {} -> SeatedBy(pack[Earliest(packable)])
                  [] holed = {} /\ packable = {} /\ empty # {} -> Seated(hole[Earliest(empty)], {})
                  [] OTHER -> Unseated("problematic")
  BY <1>1 DEF BestDay
<1>7. /\ holed \in SUBSET claim.windows /\ packable \in SUBSET used /\ packable \in SUBSET claim.windows
      /\ empty \in SUBSET claim.windows
      /\ \A w \in holed : hole[w] # None
      /\ \A w \in packable : pack[w] # None
      /\ \A w \in empty : hole[w] # None
  OBVIOUS
<1> HIDE DEF holed, packable, empty, hole, pack, used, plan, seats, busy
<1>8. CASE holed # {}
  BY <1>6, <1>8, <1>0, <1>7, WindowInReach, <1>4, PlainPlans DEF SeatedWell, plan
<1>9. CASE holed = {} /\ packable # {}
  <2>1. plan = SeatedBy(pack[Earliest(packable)])
    BY <1>6, <1>9
  <2>2. Earliest(packable) \in packable
    BY <1>0, <1>7, <1>9, WindowInReach
  <2> DEFINE l == pack[Earliest(packable)]
  <2>3. Arranged(l.at, l.moves, claim, rows, reach)
    BY <1>5, <1>7, <2>2
  <2>4. plan = Seated(l.at, l.moves)
    BY <2>1 DEF SeatedBy
  <2> HIDE DEF l
  <2> QED
    BY <2>3, <2>4, PlainPlans DEF SeatedWell, plan
<1>10. CASE holed = {} /\ packable = {} /\ empty # {}
  BY <1>6, <1>10, <1>0, <1>7, WindowInReach, <1>4, PlainPlans DEF SeatedWell, plan
<1>11. CASE holed = {} /\ packable = {} /\ empty = {}
  BY <1>6, <1>11, PlainPlans DEF SeatedWell, plan
<1> QED
  BY <1>8, <1>9, <1>10, <1>11

\* Whoever is in the way of `i` and has to give way is among `people`.
GivesWay(people, i, rows) ==
  /\ people \in Seq(ToSet(rows))
  /\ \A x \in ToSet(people) : x.role \in {"flexible", "series"} /\ Overlaps(x, i)
  /\ \A x \in ToSet(rows) : x.role # "resolved" /\ Overlaps(i, x) => x.id \in Ids(people)

\* The moves of those in `X`.
MovesOf(rows, X, at) ==
  { MoveFor(s, NewPlace(s, at)) : s \in { x \in ToSet(rows) : x.id \in X } }

LEMMA ChainArranged ==
  ASSUME NEW rows, NEW reach, SeatsOK(rows, reach), NEW claim, NEW i, PlaceFor(i, claim, reach),
         i = claim.interval, i # None,
         NEW soft, NEW recurring, NEW people, GivesWay(people, i, rows),
         \A x \in ToSet(people) : Movable(x, recurring),
         NEW at, at = Reseat(people, i, rows, soft, recurring), at # None
  PROVE  Arranged(i, MovesOf(rows, DOMAIN at, at), claim, rows, reach)
<1> DEFINE X == DOMAIN at
           moves == MovesOf(rows, X, at)
<1>1. Resettled(at, people, i, rows, recurring, reach)
  BY PlacementAssumption, ReseatSound DEF GivesWay, Pushable
<1>2. /\ at \in Ats(rows) /\ Ids(people) \subseteq X /\ Sound(at, X, rows, reach) /\ Clear(at, i)
      /\ \A x \in ToSet(rows) : x.id \in X => x.role \in {"flexible", "series"}
  BY <1>1 DEF Resettled, Pushable, Movable
<1>3. X \in SUBSET Ids(rows)
  BY <1>2 DEF Ats
<1>6. /\ \A m \in moves : \E x \in ToSet(rows) : x.id \in X /\ m = MoveFor(x, NewPlace(x, at))
      /\ \A x \in ToSet(rows) : x.id \in X => MoveFor(x, NewPlace(x, at)) \in moves
  BY DEF MovesOf
<1>7. \A x \in ToSet(rows) : x.id \notin X /\ x.role # "resolved" => ~Overlaps(i, x)
  BY <1>2 DEF GivesWay
<1>8. Rearranged(i, moves, X, at, rows, reach)
  <2> HIDE DEF moves, X
  <2> QED
    BY <1>2, <1>3, <1>6, <1>7 DEF Rearranged
<1>4. AllAround(i, at, claim, rows, reach)
  BY <1>1 DEF Resettled, Pushable, AllAround, Around
<1>9. Arranged(i, moves, claim, rows, reach)
  <2> HIDE DEF moves, X
  <2> QED
    BY <1>2, <1>3, <1>4, <1>8 DEF Arranged
<1> QED
  BY <1>9

LEMMA AloneArranged ==
  ASSUME NEW rows, NEW reach, SeatsOK(rows, reach), NEW claim, NEW i, PlaceFor(i, claim, reach),
         i = claim.interval, i # None,
         NEW soft, NEW people, GivesWay(people, i, rows),
         NEW at, at = ReseatDirectOnly(people, i, rows, soft)
  PROVE  Arranged(i, MovesOf(rows, Ids(people), at), claim, rows, reach)
<1> DEFINE X == Ids(people)
           moves == MovesOf(rows, X, at)
<1>1. at \in Ats(rows) /\ Sound(at, X, rows, reach) /\ Clear(at, i)
  BY DirectSound DEF GivesWay
<1>2. ToSet(people) \subseteq ToSet(rows)
  BY ElementOfSeq, LenProperties DEF ToSet, GivesWay
<1>3. X \in SUBSET Ids(rows)
  BY <1>2 DEF Ids
<1>4. ASSUME NEW x \in ToSet(rows), x.id \in X PROVE x.role \in {"flexible", "series"} /\ Overlaps(x, i)
  <2>1. PICK y \in ToSet(people) : y.id = x.id
    BY <1>4 DEF Ids
  <2>2. x = y
    BY <1>2, <2>1 DEF SeatsOK
  <2> QED
    BY <2>1, <2>2 DEF GivesWay
<1>5. /\ \A m \in moves : \E x \in ToSet(rows) : x.id \in X /\ m = MoveFor(x, NewPlace(x, at))
      /\ \A x \in ToSet(rows) : x.id \in X => MoveFor(x, NewPlace(x, at)) \in moves
  BY DEF MovesOf
<1>6. \A x \in ToSet(rows) : x.id \notin X /\ x.role # "resolved" => ~Overlaps(i, x)
  BY DEF GivesWay
<1>9. AllAround(i, at, claim, rows, reach)
  BY <1>1, <1>4 DEF Sound, AllAround, Around
<1> HIDE DEF X, moves
<1>7. Rearranged(i, moves, X, at, rows, reach)
  BY <1>1, <1>3, <1>4, <1>5, <1>6 DEF Rearranged
<1>8. Arranged(i, moves, claim, rows, reach)
  BY <1>1, <1>3, <1>7, <1>9 DEF Arranged
<1> QED
  BY <1>8 DEF moves, X

\* What a plan for an asked interval may assume: nothing fixed is in its way.
Askable(claim, rows, reach) ==
  /\ ClaimOK(claim, reach) /\ claim.interval # None
  /\ \A s \in ToSet(rows) : s.role \in {"anchor", "elapsed"} => ~Overlaps(s, claim.interval)

LEMMA AskedPlace ==
  ASSUME NEW claim, NEW reach, ClaimOK(claim, reach), claim.interval # None
  PROVE  PlaceFor(claim.interval, claim, reach)
BY DEF ClaimOK, PlaceFor

LEMMA IntervalArranged ==
  ASSUME NEW rows, NEW reach, SeatsOK(rows, reach), NEW claim, Askable(claim, rows, reach), NEW soft
  PROVE  SeatedWell(PlanInterval(claim, rows, soft), claim, rows, reach)
<1> DEFINE i == claim.interval
           no == FALSE
           may == { r \in ToSet(rows) : Movable(r, no) /\ Overlaps(r, i) }
           direct == Those(rows, may)
           chained == Reseat(direct, i, rows, soft, no)
           alone == ReseatDirectOnly(direct, i, rows, soft)
           plan == PlanInterval(claim, rows, soft)
<1>0. PlaceFor(i, claim, reach) /\ i = claim.interval /\ i # None
  BY AskedPlace DEF Askable
<1>1. \A r \in ToSet(rows) : r \in may <=> r.role \in {"flexible", "series"} /\ Overlaps(r, i)
  BY DEF Movable
<1>2. direct \in Seq(ToSet(rows)) /\ ToSet(direct) = may
  <2>1. rows \in Seq(ToSet(rows)) /\ ToSet(rows) \cap may = may
    BY DEF SeatsOK
  <2> HIDE DEF may
  <2> QED
    BY <2>1, Picks
<1>3. \A x \in ToSet(direct) : Movable(x, no)
  BY <1>2
<1>4. GivesWay(direct, i, rows)
  <2>1. ASSUME NEW x \in ToSet(rows), x.role # "resolved", Overlaps(i, x) PROVE x \in may
    BY <2>1, OverlapsBoth, <1>1 DEF SeatsOK, SeatOK, Askable, Roles
  <2>2. \A x \in may : x.id \in Ids(direct) /\ x.role \in {"flexible", "series"} /\ Overlaps(x, i)
    BY <1>1, <1>2 DEF Ids
  <2> HIDE DEF may, direct, i
  <2> QED
    BY <1>2, <2>1, <2>2 DEF GivesWay
<1>5. plan = IntervalOver(claim, rows, direct, chained, alone)
  BY DEF PlanInterval
<1> HIDE DEF direct, may, i, no
<1>6. CASE chained # None
  <2> DEFINE at == chained
  <2>1. at = Reseat(direct, i, rows, soft, no) /\ at # None
    BY <1>6
  <2>2. plan = Seated(i, MovesOf(rows, DOMAIN at, at))
    BY <1>5, <1>6 DEF IntervalOver, NewPlace, MovesOf, i
  <2> HIDE DEF at
  <2>3. Arranged(i, MovesOf(rows, DOMAIN at, at), claim, rows, reach)
    BY <1>0, <1>3, <1>4, <2>1, ChainArranged
  <2> QED
    BY <2>2, <2>3, PlainPlans DEF SeatedWell
<1>7. CASE chained = None
  <2> DEFINE at == alone
  <2>1. at = ReseatDirectOnly(direct, i, rows, soft)
    OBVIOUS
  <2>2. plan = Seated(i, MovesOf(rows, Ids(direct), at))
    BY <1>5, <1>7 DEF IntervalOver, NewPlace, MovesOf, i
  <2> HIDE DEF at
  <2>3. Arranged(i, MovesOf(rows, Ids(direct), at), claim, rows, reach)
    BY <1>0, <1>4, <2>1, AloneArranged
  <2> QED
    BY <2>2, <2>3, PlainPlans DEF SeatedWell
<1> QED
  BY <1>6, <1>7

LEMMA NearbyClaim ==
  ASSUME NEW claim, NEW reach, ClaimOK(claim, reach), NEW near \in Int
  PROVE  LET nearby == [claim EXCEPT !.near = near]
         IN /\ ClaimOK(nearby, reach)
            /\ \A i, moves, rows : Arranged(i, moves, nearby, rows, reach)
                                     => Arranged(i, moves, claim, rows, reach)
<1> DEFINE nearby == [claim EXCEPT !.near = near]
<1>1. /\ nearby.dur = claim.dur /\ nearby.notBefore = claim.notBefore
      /\ nearby.windows = claim.windows /\ nearby.interval = claim.interval
      /\ nearby.near = near /\ DOMAIN nearby = DOMAIN claim
  BY DEF ClaimOK, ClaimFields
<1> HIDE DEF nearby
<1>2. ClaimOK(nearby, reach)
  BY <1>1 DEF ClaimOK
<1>3. \A i, moves, rows : Arranged(i, moves, nearby, rows, reach)
                            => Arranged(i, moves, claim, rows, reach)
  BY <1>1 DEF Arranged, PlaceFor, AllAround, Around
<1> QED
  BY <1>2, <1>3 DEF nearby

LEMMA ElsewhereArranged ==
  ASSUME NEW rows, NEW reach, SeatsOK(rows, reach), NEW claim, Askable(claim, rows, reach), NEW soft,
         None \notin Interval
  PROVE  LET i == claim.interval
             nearby == [claim EXCEPT !.near = i.start]
         IN SeatedWell(Elsewhere([w \in { v \in claim.windows : Overlaps(i, v) } |->
                                    PackMovablesForHole(nearby, rows, soft, w)],
                                 FindHole(claim.dur, claim.notBefore, claim.windows,
                                          { Span(s) : s \in ToSet(rows) }, soft, i.start)),
                       claim, rows, reach)
<1> DEFINE i == claim.interval
           nearby == [claim EXCEPT !.near = i.start]
           around == { v \in claim.windows : Overlaps(i, v) }
           pack == [w \in around |-> PackMovablesForHole(nearby, rows, soft, w)]
           busy == { Span(s) : s \in ToSet(rows) }
           hole == FindHole(claim.dur, claim.notBefore, claim.windows, busy, soft, i.start)
           packable == { w \in DOMAIN pack : pack[w] # None }
           plan == Elsewhere(pack, hole)
<1>0. /\ reach \in Interval /\ WindowsIn(claim.windows, reach) /\ ClaimOK(claim, reach)
      /\ i.start \in Int
  BY DEF Askable, ClaimOK, SeatsOK, Interval
<1>1. /\ ClaimOK(nearby, reach)
      /\ \A at, moves : Arranged(at, moves, nearby, rows, reach)
                          => Arranged(at, moves, claim, rows, reach)
  <2> HIDE DEF i
  <2> QED
    BY <1>0, NearbyClaim
<1> HIDE DEF nearby
<1>2. plan = CASE packable # {} -> SeatedBy(pack[Earliest(packable)])
               [] packable = {} /\ hole # None -> Seated(hole, {})
               [] OTHER -> Unseated("problematic")
  BY DEF Elsewhere
<1>3. /\ around \in SUBSET claim.windows /\ packable \in SUBSET around /\ packable \in SUBSET claim.windows
      /\ \A w \in packable : pack[w] # None
      /\ \A w \in around : pack[w] = PackMovablesForHole(nearby, rows, soft, w)
      /\ \A s \in ToSet(rows) : Span(s) \in busy
  OBVIOUS
<1> HIDE DEF packable, pack, around, busy, plan, i
<1>4. CASE packable # {}
  <2> DEFINE w == Earliest(packable)
             l == pack[w]
  <2>1. w \in packable /\ w \in nearby.windows /\ w \in Interval /\ w.start >= reach.start /\ w.end <= reach.end
    BY <1>0, <1>3, <1>4, WindowInReach DEF nearby, ClaimOK, ClaimFields
  <2>2. l # None /\ l = PackMovablesForHole(nearby, rows, soft, w)
    BY <1>3, <2>1
  <2>3. plan = Seated(l.at, l.moves)
    BY <1>2, <1>4 DEF SeatedBy
  <2> HIDE DEF w, l
  <2>4. Arranged(l.at, l.moves, nearby, rows, reach)
    BY <1>1, <2>1, <2>2, PackArranged
  <2> QED
    BY <1>1, <2>3, <2>4, PlainPlans DEF SeatedWell, plan, pack, around, busy, i, nearby
<1>5. CASE packable = {} /\ hole # None
  <2>1. plan = Seated(hole, {})
    BY <1>2, <1>5
  <2> DEFINE h == hole
  <2>2. h = FindHole(claim.dur, claim.notBefore, claim.windows, busy, soft, i.start) /\ h # None
    BY <1>5
  <2>3. i.start \in Int \cup {None}
    BY <1>0
  <2> HIDE DEF h
  <2>4. PlaceFor(h, claim, reach) /\ \A b \in busy : ~Overlaps(h, b)
    BY <1>0, <2>2, <2>3, ClaimsHole
  <2>5. \A x \in ToSet(rows) : ~Overlaps(h, x)
    BY <1>3, <2>4, SpanOverlaps
  <2>6. Arranged(h, {}, claim, rows, reach)
    BY <2>4, <2>5, AlmostAlone
  <2>7. SeatedWell(plan, claim, rows, reach)
    BY <2>1, <2>6, PlainPlans DEF SeatedWell, h
  <2> QED
    BY <2>7 DEF plan, pack, around, busy, i, nearby
<1>6. CASE packable = {} /\ hole = None
  BY <1>2, <1>6, PlainPlans DEF SeatedWell, plan, pack, around, busy, i, nearby
<1> QED
  BY <1>4, <1>5, <1>6

LEMMA SeriesDayArranged ==
  ASSUME NEW rows, NEW reach, SeatsOK(rows, reach), NEW claim, Askable(claim, rows, reach), NEW soft,
         None \notin Interval
  PROVE  SeatedWell(PlanSeriesDay(claim, rows, soft), claim, rows, reach)
<1> DEFINE i == claim.interval
           yes == TRUE
           may == { r \in ToSet(rows) : r.role = "flexible" /\ Overlaps(r, i) }
           direct == Those(rows, may)
           chained == Reseat(direct, i, rows, soft, yes)
           alone == ReseatDirectOnly(direct, i, rows, soft)
           nearby == [claim EXCEPT !.near = i.start]
           elsewhere == Elsewhere([w \in { v \in claim.windows : Overlaps(i, v) } |->
                                     PackMovablesForHole(nearby, rows, soft, w)],
                                  FindHole(claim.dur, claim.notBefore, claim.windows,
                                           { Span(s) : s \in ToSet(rows) }, soft, i.start))
           taken == \E s \in ToSet(rows) : s.role = "series" /\ Overlaps(s, i)
           plan == PlanSeriesDay(claim, rows, soft)
           moves(at) == { MoveFor(s, at[s.id]) : s \in { x \in ToSet(rows) : x.id \in DOMAIN at } }
<1>0. PlaceFor(i, claim, reach) /\ i = claim.interval /\ i # None
  BY AskedPlace DEF Askable
<1>1. \A r \in ToSet(rows) : r \in may <=> r.role = "flexible" /\ Overlaps(r, i)
  OBVIOUS
<1>2. direct \in Seq(ToSet(rows)) /\ ToSet(direct) = may
  <2>1. rows \in Seq(ToSet(rows)) /\ ToSet(rows) \cap may = may
    BY DEF SeatsOK
  <2> HIDE DEF may
  <2> QED
    BY <2>1, Picks
<1>3. \A x \in ToSet(direct) : Movable(x, yes)
  BY <1>2 DEF Movable
<1>4. ASSUME ~taken PROVE GivesWay(direct, i, rows)
  <2>1. ASSUME NEW x \in ToSet(rows), x.role # "resolved", Overlaps(i, x) PROVE x \in may
    BY <2>1, OverlapsBoth, <1>1, <1>4 DEF SeatsOK, SeatOK, Askable, Roles
  <2>2. \A x \in may : x.id \in Ids(direct) /\ x.role \in {"flexible", "series"} /\ Overlaps(x, i)
    BY <1>1, <1>2 DEF Ids
  <2>3. ToSet(direct) = may /\ direct \in Seq(ToSet(rows))
    BY <1>2
  <2> HIDE DEF may, direct, i
  <2> QED
    BY <2>1, <2>2, <2>3 DEF GivesWay
<1>5. SeatedWell(elsewhere, claim, rows, reach)
  BY ElsewhereArranged
<1>6. \A at : moves(at) = MovesOf(rows, DOMAIN at, at)
  BY DEF MovesOf, NewPlace
<1>7. plan = SeriesDayOver(claim, rows, direct, chained, alone, elsewhere)
  BY DEF PlanSeriesDay
<1> HIDE DEF elsewhere
<1>8. CASE taken \/ (direct # <<>> /\ chained = None /\ ~(Ids(direct) \subseteq DOMAIN alone))
  <2>1. plan = elsewhere
    <3> HIDE DEF direct, chained, alone, plan
    <3> QED
      BY <1>7, <1>8 DEF SeriesDayOver
  <2> QED
    BY <1>5, <2>1
<1>9. CASE ~taken /\ direct = <<>>
  <2>1. plan = Seated(i, {})
    <3> HIDE DEF direct, chained, alone, plan
    <3> QED
      BY <1>7, <1>9 DEF SeriesDayOver
  <2>2. \A x \in ToSet(rows) : x.role # "resolved" => ~Overlaps(i, x)
    <3>1. ToSet(<<>>) = {}
      BY EmptySeq DEF ToSet
    <3>2. Ids(direct) = {}
      BY <1>9, <3>1 DEF Ids
    <3> HIDE DEF direct
    <3> QED
      BY <1>4, <1>9, <3>2 DEF GivesWay
  <2>3. Arranged(i, {}, claim, rows, reach)
    BY <1>0, <2>2, AlmostAlone
  <2> QED
    BY <2>1, <2>3, PlainPlans DEF SeatedWell
<1>10. CASE ~taken /\ direct # <<>> /\ chained # None
  <2> DEFINE at == chained
  <2>1. plan = Seated(i, moves(at))
    <3> HIDE DEF direct, chained, alone, plan
    <3> QED
      BY <1>7, <1>10 DEF SeriesDayOver
  <2>2. at = Reseat(direct, i, rows, soft, yes) /\ at # None
    BY <1>10
  <2>3. GivesWay(direct, i, rows)
    BY <1>4, <1>10
  <2>4. moves(at) = MovesOf(rows, DOMAIN at, at)
    BY <1>6
  <2> HIDE DEF at, moves, direct, yes, may, i
  <2>5. Arranged(i, MovesOf(rows, DOMAIN at, at), claim, rows, reach)
    BY <1>0, <1>3, <2>2, <2>3, ChainArranged
  <2> QED
    BY <2>1, <2>4, <2>5, PlainPlans DEF SeatedWell
<1>11. CASE ~taken /\ direct # <<>> /\ chained = None /\ Ids(direct) \subseteq DOMAIN alone
  <2> DEFINE at == alone
  <2>1. at = ReseatDirectOnly(direct, i, rows, soft)
    OBVIOUS
  <2>2. GivesWay(direct, i, rows)
    BY <1>4, <1>11
  <2> HIDE DEF at
  <2>3. Arranged(i, MovesOf(rows, Ids(direct), at), claim, rows, reach)
    <3> HIDE DEF direct, may, i
    <3> QED
      BY <1>0, <2>1, <2>2, AloneArranged
  <2>4. DOMAIN at = Ids(direct)
    <3>1. Sound(at, Ids(direct), rows, reach)
      <4> HIDE DEF direct, may, i
      <4> QED
        BY <1>2, <2>1, DirectSound
    <3>2. Ids(direct) \subseteq DOMAIN at
      BY <1>11 DEF at
    <3> HIDE DEF direct
    <3> QED
      BY <3>1, <3>2 DEF Sound
  <2>5. moves(at) = MovesOf(rows, DOMAIN at, at)
    BY <1>6
  <2>7. plan = Seated(i, moves(at)) \/ plan = elsewhere
    <3> HIDE DEF direct, chained, alone, plan
    <3> QED
      BY <1>7, <1>11 DEF SeriesDayOver, at
  <2>8. CASE plan = elsewhere
    BY <1>5, <2>8
  <2>9. CASE plan = Seated(i, moves(at))
    <3>1. Arranged(i, moves(at), claim, rows, reach)
      BY <2>3, <2>4, <2>5
    <3> HIDE DEF moves
    <3> QED
      BY <2>9, <3>1, PlainPlans DEF SeatedWell
  <2> QED
    BY <2>7, <2>8, <2>9
<1> QED
  BY <1>8, <1>9, <1>10, <1>11

LEMMA OwnSeq ==
  ASSUME NEW A, NEW s \in Seq(A)
  PROVE  s \in Seq(ToSet(s)) /\ ToSet(s) \subseteq A
<1>1. Len(s) \in Nat /\ DOMAIN s = 1 .. Len(s) /\ \A n \in 1 .. Len(s) : s[n] \in A
  BY LenProperties, ElementOfSeq
<1>2. s \in [1 .. Len(s) -> ToSet(s)]
  BY LenProperties, <1>1 DEF ToSet
<1>3. s \in Seq(ToSet(s))
  BY <1>1, <1>2, IsASeq
<1> QED
  BY <1>1, <1>3 DEF ToSet

\* The seats a claim is planned among.
Others(all, who) == Those(all, { r \in ToSet(all) : r.task # who })

LEMMA OthersOK ==
  ASSUME NEW all, NEW reach, SeatsOK(all, reach), NEW who
  PROVE  /\ SeatsOK(Others(all, who), reach)
         /\ ToSet(Others(all, who)) = { r \in ToSet(all) : r.task # who }
<1> DEFINE S == { r \in ToSet(all) : r.task # who }
<1>1. all \in Seq(ToSet(all)) /\ ToSet(all) \cap S = S
  BY DEF SeatsOK
<1>2. Others(all, who) = Those(all, S)
  BY DEF Others
<1>3. S \subseteq ToSet(all)
  OBVIOUS
<1> HIDE DEF S
<1>4. Others(all, who) \in Seq(ToSet(all)) /\ ToSet(Others(all, who)) = S
  <2>1. Those(all, S) \in Seq(ToSet(all)) /\ ToSet(Those(all, S)) = ToSet(all) \cap S
    BY <1>1, Picks
  <2> QED
    BY <1>1, <1>2, <2>1
<1>5. Others(all, who) \in Seq(ToSet(Others(all, who)))
  BY <1>4, OwnSeq
<1>6. SeatsOK(Others(all, who), reach)
  <2> DEFINE T == ToSet(Others(all, who))
  <2>1. T \subseteq ToSet(all)
    BY <1>3, <1>4
  <2> HIDE DEF T
  <2>2. (\A x \in T : SeatOK(x, reach)) /\ (\A x, y \in T : x.id = y.id => x = y)
    BY <2>1 DEF SeatsOK
  <2>3. reach \in Interval
    BY DEF SeatsOK
  <2> QED
    BY <1>5, <2>2, <2>3 DEF SeatsOK, T
<1> QED
  BY <1>4, <1>6 DEF S

\* A plan that seats a task gives it the interval asked or a hole for it, and
\* nobody's seat: those in the way are movable and all move, to places that are
\* free of whoever stays, of the claim and of each other (planPlacement).
THEOREM PlanDisturbsNobody ==
  ASSUME NEW all, NEW reach, SeatsOK(all, reach), NEW claim, ClaimOK(claim, reach),
         None \notin Interval
  PROVE  SeatedWell(PlanPlacement(claim, all), claim, Others(all, claim.task), reach)
<1> DEFINE rows == Others(all, claim.task)
           seats == ToSet(rows)
           soft == SoftBusy(rows)
           i == claim.interval
           fixed == \E s \in seats : s.role \in {"anchor", "elapsed"} /\ Overlaps(s, i)
           top == \E s \in seats : s.role \in {"resolved"} /\ Overlaps(s, i)
           plan == PlanPlacement(claim, all)
           busy == { Span(s) : s \in seats }
           hole == FindHole(claim.dur, claim.notBefore, claim.windows, busy, soft, None)
<1>0. SeatsOK(rows, reach)
  BY OthersOK
<1>1. plan = CASE claim.expired -> Unseated(IF claim.recurring THEN "problematic" ELSE "unscheduled")
               [] ~claim.expired /\ i = None -> PlanHole(claim, rows, soft)
               [] ~claim.expired /\ i # None ->
                    CASE fixed -> Unseated("conflict")
                      [] ~fixed /\ claim.mustFit
                         /\ ~FitsWindow(i, claim.windows) -> Unseated("problematic")
                      [] OTHER ->
                           IF claim.mustFit /\ ~claim.overResolved /\ top
                           THEN SeatedIfAny(hole)
                           ELSE IF claim.recurring /\ claim.mustFit
                                THEN PlanSeriesDay(claim, rows, soft)
                                ELSE PlanInterval(claim, rows, soft)
  BY DEF PlanPlacement, Others
<1> DEFINE Good == SeatedWell(plan, claim, rows, reach)
<1>2. ASSUME NEW why, why # "seated", plan = Unseated(why) PROVE Good
  <2> HIDE DEF plan
  <2>1. plan.outcome # "seated"
    BY <1>2, PlainPlans
  <2> QED
    BY <2>1 DEF SeatedWell
<1>3. CASE claim.expired
  BY <1>1, <1>2, <1>3
<1>4. CASE ~claim.expired /\ i = None
  <2>1. plan = PlanHole(claim, rows, soft)
    BY <1>1, <1>4
  <2>2. SeatedWell(PlanHole(claim, rows, soft), claim, rows, reach)
    <3> HIDE DEF rows, soft
    <3> QED
      BY <1>0, PlanHoleArranged
  <2> QED
    BY <2>1, <2>2
<1>5. CASE ~claim.expired /\ i # None /\ fixed
  BY <1>1, <1>5, <1>2
<1>6. CASE ~claim.expired /\ i # None /\ ~fixed
  <2>1. \/ plan = Unseated("problematic")
        \/ plan = SeatedIfAny(hole)
        \/ plan = PlanSeriesDay(claim, rows, soft)
        \/ plan = PlanInterval(claim, rows, soft)
    <3> HIDE DEF rows, soft, fixed, top, hole, plan
    <3> QED
      BY <1>1, <1>6
  <2>2. Askable(claim, rows, reach)
    BY <1>6 DEF Askable
  <2>3. SeatedWell(PlanSeriesDay(claim, rows, soft), claim, rows, reach)
    <3> HIDE DEF rows, soft
    <3> QED
      BY <1>0, <2>2, SeriesDayArranged
  <2>4. SeatedWell(PlanInterval(claim, rows, soft), claim, rows, reach)
    <3> HIDE DEF rows, soft
    <3> QED
      BY <1>0, <2>2, IntervalArranged
  <2>5. SeatedWell(SeatedIfAny(hole), claim, rows, reach)
    <3>1. CASE hole = None
      BY <3>1, PlainPlans DEF SeatedIfAny, SeatedWell
    <3>2. CASE hole # None
      <4> DEFINE h == hole
      <4>1. SeatedIfAny(hole) = Seated(h, {})
        BY <3>2 DEF SeatedIfAny
      <4>2. h = FindHole(claim.dur, claim.notBefore, claim.windows, busy, soft, None) /\ h # None
        BY <3>2
      <4>3. reach \in Interval /\ WindowsIn(claim.windows, reach) /\ None \in Int \cup {None}
        BY DEF SeatsOK, ClaimOK
      <4>4. \A s \in seats : Span(s) \in busy
        OBVIOUS
      <4> HIDE DEF h, busy, soft, rows
      <4>5. PlaceFor(h, claim, reach) /\ \A b \in busy : ~Overlaps(h, b)
        BY <4>2, <4>3, ClaimsHole
      <4>6. Arranged(h, {}, claim, rows, reach)
        BY <4>4, <4>5, SpanOverlaps, AlmostAlone
      <4>7. SeatedWell(Seated(h, {}), claim, rows, reach)
        BY <4>6, PlainPlans DEF SeatedWell
      <4> QED
        BY <4>1, <4>7
    <3> QED
      BY <3>1, <3>2
  <2>6. CASE plan = Unseated("problematic")
    BY <1>2, <2>6
  <2>7. CASE plan = SeatedIfAny(hole)
    BY <2>5, <2>7
  <2>8. CASE plan = PlanSeriesDay(claim, rows, soft)
    BY <2>3, <2>8
  <2>9. CASE plan = PlanInterval(claim, rows, soft)
    BY <2>4, <2>9
  <2> QED
    BY <2>1, <2>6, <2>7, <2>8, <2>9
<1> HIDE DEF fixed, top
<1> QED
  BY <1>3, <1>4, <1>5, <1>6, Zenon

\* What may come of a plan.
Outcomes == {"seated", "conflict", "problematic", "unscheduled"}

LEMMA OutcomeOfPlan ==
  ASSUME NEW claim, NEW all
  PROVE  PlanPlacement(claim, all).outcome \in Outcomes
<1>1. \A i, moves : Seated(i, moves).outcome \in Outcomes
  BY DEF Seated, Outcomes
<1>2. \A why \in Outcomes : Unseated(why).outcome \in Outcomes
  BY DEF Unseated
<1>3. "problematic" \in Outcomes /\ "conflict" \in Outcomes /\ "unscheduled" \in Outcomes
  BY DEF Outcomes
<1>4. \A l : SeatedBy(l).outcome \in Outcomes
  BY <1>1 DEF SeatedBy
<1> HIDE DEF Outcomes
<1>5. \A rows, soft : PlanHole(claim, rows, soft).outcome \in Outcomes
  <2>1. \A rows, used, hole, pack : BestDay(claim, rows, used, hole, pack).outcome \in Outcomes
    BY <1>1, <1>2, <1>3, <1>4 DEF BestDay
  <2> QED
    BY <2>1 DEF PlanHole
<1>6. \A pack, hole : Elsewhere(pack, hole).outcome \in Outcomes
  BY <1>1, <1>2, <1>3, <1>4 DEF Elsewhere
<1>7. \A rows, soft : PlanSeriesDay(claim, rows, soft).outcome \in Outcomes
  BY <1>1, <1>6 DEF PlanSeriesDay, SeriesDayOver
<1>8. \A rows, soft : PlanInterval(claim, rows, soft).outcome \in Outcomes
  BY <1>1 DEF PlanInterval, IntervalOver
<1>9. \A hole : SeatedIfAny(hole).outcome \in Outcomes
  BY <1>1, <1>2, <1>3 DEF SeatedIfAny
<1> QED
  BY <1>2, <1>3, <1>5, <1>7, <1>8, <1>9 DEF PlanPlacement

-----------------------------------------------------------------------------
(* The calendar: days, homes and windows. *)

DaySpan(d) == [start |-> d * DayLen, end |-> (d + 1) * DayLen]

Horizon == [start |-> 0, end |-> (Max(Days) + 1) * DayLen]

LEMMA LongerIsMore ==
  ASSUME NEW a \in Int, NEW b \in Int, NEW c \in Nat, a <= b
  PROVE  a * c \in Int /\ b * c \in Int /\ a * c <= b * c
<1>1. b - a \in Nat /\ (b - a) * c >= 0 /\ (b - a) * c = b * c - a * c
  OBVIOUS
<1> QED
  BY <1>1

LEMMA DaySpans ==
  ASSUME NEW d \in Int
  PROVE  /\ DaySpan(d) \in Interval /\ d * DayLen \in Int
         /\ DaySpan(d).start = d * DayLen /\ DaySpan(d).end = d * DayLen + DayLen
<1>1. DayLen \in Nat
  BY PlacementAssumption
<1>2. d * DayLen \in Int /\ (d + 1) * DayLen = d * DayLen + DayLen
  BY <1>1
<1> QED
  BY <1>1, <1>2 DEF DaySpan, Interval

LEMMA DaysFollow ==
  ASSUME NEW d \in Int, NEW e \in Int, d < e
  PROVE  DaySpan(d).end <= DaySpan(e).start
<1>1. DayLen \in Nat
  BY PlacementAssumption
<1>2. (d + 1) * DayLen <= e * DayLen
  BY <1>1, LongerIsMore
<1> QED
  BY <1>2 DEF DaySpan

LEMMA AllDays ==
  /\ Days \subseteq Nat /\ Horizon \in Interval
  /\ \A d \in Days : DaySpan(d).start >= Horizon.start /\ DaySpan(d).end <= Horizon.end
<1>1. Max(Days) \in Nat /\ Days = 0 .. Max(Days) /\ DayLen \in Nat
  BY CalendarAssumption, PlacementAssumption
<1> DEFINE m == Max(Days)
<1> HIDE DEF m
<1>2. m \in Nat /\ Days = 0 .. m /\ (m + 1) * DayLen \in Int
  BY <1>1 DEF m
<1>3. ASSUME NEW d \in Days PROVE d * DayLen >= 0 /\ (d + 1) * DayLen <= (m + 1) * DayLen
  BY <1>1, <1>2, LongerIsMore
<1> QED
  BY <1>2, <1>3 DEF Horizon, DaySpan, Interval, m

LEMMA HomesAre ==
  ASSUME NEW s \in Series, NEW d \in Int
  PROVE  /\ Home(s, d) \in Interval /\ Home(s, d).start < Home(s, d).end
         /\ Home(s, d).start = d * DayLen + HomeOf[s].start
         /\ Home(s, d).end = d * DayLen + HomeOf[s].end
         /\ Home(s, d).start >= DaySpan(d).start /\ Home(s, d).end <= DaySpan(d).end
<1>1. /\ HomeOf[s].start \in 0 .. DayLen /\ HomeOf[s].end \in 0 .. DayLen
      /\ HomeOf[s].start < HomeOf[s].end
  BY CalendarAssumption
<1> DEFINE a == d * DayLen
<1>2. a \in Int /\ DaySpan(d).start = a /\ DaySpan(d).end = a + DayLen /\ DayLen \in Nat
  BY DaySpans, PlacementAssumption
<1>3. Home(s, d) = [start |-> a + HomeOf[s].start, end |-> a + HomeOf[s].end]
  BY DEF Home, OnDay
<1> HIDE DEF a
<1>4. /\ Home(s, d).start = a + HomeOf[s].start /\ Home(s, d).end = a + HomeOf[s].end
      /\ Home(s, d) \in Interval
  BY <1>1, <1>2, <1>3 DEF Interval
<1>5. Home(s, d).start < Home(s, d).end /\ Home(s, d).start >= a /\ Home(s, d).end <= a + DayLen
  BY <1>1, <1>2, <1>4
<1> QED
  BY <1>2, <1>4, <1>5 DEF a

LEMMA HomesApart ==
  ASSUME NEW r \in Series, NEW s \in Series, r # s, NEW d \in Int, NEW e \in Int
  PROVE  ~Overlaps(Home(r, d), Home(s, e))
<1>1. CASE d = e
  <2>1. ~Overlaps(HomeOf[r], HomeOf[s])
    BY CalendarAssumption
  <2>2. /\ HomeOf[r].start \in Int /\ HomeOf[s].start \in Int
        /\ HomeOf[r].end \in Int /\ HomeOf[s].end \in Int
    BY CalendarAssumption
  <2>3. d * DayLen \in Int
    BY DaySpans
  <2>4. /\ Home(r, d).start = d * DayLen + HomeOf[r].start /\ Home(r, d).end = d * DayLen + HomeOf[r].end
        /\ Home(s, d).start = d * DayLen + HomeOf[s].start /\ Home(s, d).end = d * DayLen + HomeOf[s].end
    BY HomesAre
  <2> DEFINE a == d * DayLen
  <2> HIDE DEF a
  <2>5. /\ a \in Int
        /\ Home(r, d).start = a + HomeOf[r].start /\ Home(r, d).end = a + HomeOf[r].end
        /\ Home(s, d).start = a + HomeOf[s].start /\ Home(s, d).end = a + HomeOf[s].end
    BY <2>3, <2>4 DEF a
  <2>6. ~Overlaps(Home(r, d), Home(s, d))
    BY <2>1, <2>2, <2>5 DEF Overlaps
  <2> QED
    BY <1>1, <2>6
<1>2. CASE d < e
  BY <1>2, HomesAre, DaysFollow, DaySpans DEF Overlaps, Interval
<1>3. CASE e < d
  BY <1>3, HomesAre, DaysFollow, DaySpans DEF Overlaps, Interval
<1> QED
  BY <1>1, <1>2, <1>3

LEMMA WithinKeeps ==
  ASSUME NEW reach \in Interval, NEW windows, WindowsIn(windows, reach), NEW window \in Interval
  PROVE  WindowsIn(Within(windows, window), reach)
<1> DEFINE cut(v) == [start |-> Max({v.start, window.start}), end |-> Min({v.end, window.end})]
<1>1. ASSUME NEW v \in windows
      PROVE  cut(v) \in Interval /\ cut(v).start >= reach.start /\ cut(v).end <= reach.end
  <2>1. /\ v.start \in Int /\ v.end \in Int /\ window.start \in Int /\ window.end \in Int
        /\ v.start >= reach.start /\ v.end <= reach.end /\ reach.start \in Int /\ reach.end \in Int
    BY DEF Interval, WindowsIn
  <2> DEFINE a == Max({v.start, window.start})
             b == Min({v.end, window.end})
  <2>2. a \in Int /\ a >= v.start /\ b \in Int /\ b <= v.end
    BY <2>1, MaxTwo
  <2>3. cut(v) = [start |-> a, end |-> b]
    OBVIOUS
  <2> HIDE DEF a, b, cut
  <2> QED
    BY <2>1, <2>2, <2>3 DEF Interval
<1>2. Within(windows, window) = { w \in { cut(v) : v \in windows } : w.end > w.start }
  BY DEF Within
<1> HIDE DEF cut
<1>3. \A w \in Within(windows, window) : \E v \in windows : w = cut(v)
  BY <1>2
<1> QED
  BY <1>1, <1>3 DEF WindowsIn

LEMMA HorizonIsReach ==
  ASSUME NEW phase \in Phases \cup {None}
  PROVE  WindowsIn(HorizonWindows(phase), Horizon)
<1> DEFINE p == IF phase = None THEN WholeDay ELSE phase
<1>1. p.start \in Int /\ p.end \in Int /\ p.start >= 0 /\ p.end <= DayLen
  BY CalendarAssumption, PlacementAssumption DEF WholeDay
<1>2. HorizonWindows(phase) = { w \in { OnDay(p, d) : d \in Days } : w.end > now }
  BY DEF HorizonWindows
<1> HIDE DEF p
<1>3. ASSUME NEW d \in Days
      PROVE  /\ OnDay(p, d) \in Interval
             /\ OnDay(p, d).start >= Horizon.start /\ OnDay(p, d).end <= Horizon.end
  <2>1. d \in Int /\ Horizon.start \in Int /\ Horizon.end \in Int /\ DayLen \in Int
    BY AllDays, PlacementAssumption DEF Interval
  <2>2. DaySpan(d).start >= Horizon.start /\ DaySpan(d).end <= Horizon.end
    BY AllDays
  <2> DEFINE a == d * DayLen
  <2>3. a \in Int /\ DaySpan(d).start = a /\ DaySpan(d).end = a + DayLen
    BY <2>1, DaySpans
  <2>4. OnDay(p, d) = [start |-> a + p.start, end |-> a + p.end]
    BY DEF OnDay
  <2> HIDE DEF a
  <2> QED
    BY <1>1, <2>1, <2>2, <2>3, <2>4 DEF Interval
<1>4. \A w \in HorizonWindows(phase) : \E d \in Days : w = OnDay(p, d)
  BY <1>2
<1> QED
  BY <1>3, <1>4 DEF WindowsIn

LEMMA DayOfIn ==
  ASSUME NEW at \in Int, NEW d \in Int, at >= DaySpan(d).start, at < DaySpan(d).end
  PROVE  DayOf(at) = d
<1> DEFINE len == DayLen
           k == at \div len
           rest == at % len
<1>1. DaySpan(d).start = d * DayLen /\ DaySpan(d).end = d * DayLen + DayLen /\ d * DayLen \in Int
  BY DaySpans
<1>2. len \in Nat /\ len > 0
  BY <1>1, PlacementAssumption
<1>3. k \in Int /\ rest \in Int /\ at = k * len + rest /\ 0 <= rest /\ rest < len
  <2> HIDE DEF len
  <2> QED
    BY <1>2
<1>4. at >= d * len /\ at < d * len + len /\ d * len \in Int
  BY <1>1
<1>5. DayOf(at) = k
  BY DEF DayOf
<1> HIDE DEF len, k, rest
<1>6. CASE k < d
  BY <1>2, <1>3, <1>6, LongerIsMore, <1>4
<1>7. CASE k > d
  BY <1>2, <1>3, <1>7, LongerIsMore, <1>4
<1> QED
  BY <1>3, <1>5, <1>6, <1>7

LEMMA OneOfTwo ==
  ASSUME NEW a \in Int, NEW b \in Int
  PROVE  Max({a, b}) \in {a, b} /\ Min({a, b}) \in {a, b}
<1>1. \E x \in {a, b} : \A y \in {a, b} : x >= y
  OBVIOUS
<1>2. \E x \in {a, b} : \A y \in {a, b} : x <= y
  OBVIOUS
<1> QED
  BY <1>1, <1>2 DEF Max, Min

\* Cutting windows keeps what fits in the cut.
LEMMA WithinFits ==
  ASSUME NEW i \in Interval, i.start < i.end, NEW windows, windows \subseteq Interval,
         FitsWindow(i, windows), NEW window \in Interval, i.start >= window.start,
         i.end <= window.end
  PROVE  FitsWindow(i, Within(windows, window))
<1>1. PICK v \in windows : i.start >= v.start /\ i.end <= v.end
  BY DEF FitsWindow
<1> DEFINE a == Max({v.start, window.start})
           b == Min({v.end, window.end})
           cut == [start |-> a, end |-> b]
<1>2. /\ v.start \in Int /\ v.end \in Int /\ window.start \in Int /\ window.end \in Int
      /\ i.start \in Int /\ i.end \in Int
  BY DEF Interval
<1>3. a \in {v.start, window.start} /\ b \in {v.end, window.end}
  BY <1>2, OneOfTwo
<1>4. cut \in { [start |-> Max({x.start, window.start}), end |-> Min({x.end, window.end})]
                : x \in windows }
  OBVIOUS
<1>5. cut.start = a /\ cut.end = b
  OBVIOUS
<1> HIDE DEF a, b
<1>6. i.start >= a /\ i.end <= b /\ b > a
  BY <1>1, <1>2, <1>3
<1> HIDE DEF cut
<1>7. cut \in Within(windows, window)
  BY <1>4, <1>5, <1>6 DEF Within
<1> QED
  BY <1>5, <1>6, <1>7 DEF FitsWindow

\* A window of the horizon lies in one civil day.
LEMMA FitsItsDay ==
  ASSUME NEW phase \in Phases \cup {None}, NEW i \in Interval, i.start < i.end,
         FitsWindow(i, HorizonWindows(phase))
  PROVE  /\ DayOf(i.start) \in Int
         /\ i.start >= DaySpan(DayOf(i.start)).start /\ i.end <= DaySpan(DayOf(i.start)).end
<1> DEFINE p == IF phase = None THEN WholeDay ELSE phase
<1>1. p.start \in Int /\ p.end \in Int /\ p.start >= 0 /\ p.end <= DayLen
  BY CalendarAssumption, PlacementAssumption DEF WholeDay
<1>2. HorizonWindows(phase) = { w \in { OnDay(p, d) : d \in Days } : w.end > now }
  BY DEF HorizonWindows
<1> HIDE DEF p
<1>3. PICK d \in Days : i.start >= OnDay(p, d).start /\ i.end <= OnDay(p, d).end
  BY <1>2 DEF FitsWindow
<1>4. d \in Int /\ DayLen \in Int
  BY AllDays, PlacementAssumption
<1> DEFINE a == d * DayLen
<1>5. a \in Int /\ DaySpan(d).start = a /\ DaySpan(d).end = a + DayLen
  BY <1>4, DaySpans
<1>6. OnDay(p, d).start = a + p.start /\ OnDay(p, d).end = a + p.end
  BY DEF OnDay
<1> HIDE DEF a
<1>7. i.start \in Int /\ i.end \in Int /\ i.start >= a /\ i.end <= a + DayLen
  BY <1>1, <1>3, <1>4, <1>5, <1>6 DEF Interval
<1>8. DayOf(i.start) = d
  BY <1>4, <1>5, <1>7, DayOfIn
<1> QED
  BY <1>4, <1>5, <1>7, <1>8

\* Windows that lie in one civil day each.
DayWindows(windows) ==
  /\ windows \subseteq Interval
  /\ \A w \in windows : \E d \in Int : w.start >= DaySpan(d).start /\ w.end <= DaySpan(d).end

LEMMA HorizonDays ==
  ASSUME NEW phase \in Phases \cup {None}
  PROVE  DayWindows(HorizonWindows(phase))
<1> DEFINE p == IF phase = None THEN WholeDay ELSE phase
<1>1. p.start \in Int /\ p.end \in Int /\ p.start >= 0 /\ p.end <= DayLen
  BY CalendarAssumption, PlacementAssumption DEF WholeDay
<1>2. HorizonWindows(phase) = { w \in { OnDay(p, d) : d \in Days } : w.end > now }
  BY DEF HorizonWindows
<1> HIDE DEF p
<1>3. ASSUME NEW d \in Days
      PROVE  /\ d \in Int /\ OnDay(p, d).start >= DaySpan(d).start
             /\ OnDay(p, d).end <= DaySpan(d).end
  <2>1. d \in Int /\ DayLen \in Int
    BY AllDays, PlacementAssumption
  <2> DEFINE a == d * DayLen
  <2>2. a \in Int /\ DaySpan(d).start = a /\ DaySpan(d).end = a + DayLen
    BY <2>1, DaySpans
  <2>3. OnDay(p, d) = [start |-> a + p.start, end |-> a + p.end]
    BY DEF OnDay
  <2> HIDE DEF a
  <2> QED
    BY <1>1, <2>1, <2>2, <2>3
<1>4. \A w \in HorizonWindows(phase) : \E d \in Days : w = OnDay(p, d)
  BY <1>2
<1>5. HorizonWindows(phase) \subseteq Interval
  BY HorizonIsReach DEF WindowsIn
<1> QED
  BY <1>3, <1>4, <1>5 DEF DayWindows

LEMMA CutDays ==
  ASSUME NEW windows, DayWindows(windows), NEW window \in Interval
  PROVE  DayWindows(Within(windows, window))
<1> DEFINE cut(v) == [start |-> Max({v.start, window.start}), end |-> Min({v.end, window.end})]
<1>1. ASSUME NEW v \in windows
      PROVE  cut(v) \in Interval /\ cut(v).start >= v.start /\ cut(v).end <= v.end
             /\ v.start \in Int /\ v.end \in Int
  BY MaxTwo DEF Interval, DayWindows
<1>2. Within(windows, window) = { w \in { cut(v) : v \in windows } : w.end > w.start }
  BY DEF Within
<1> HIDE DEF cut
<1>3. ASSUME NEW w \in Within(windows, window)
      PROVE  /\ w \in Interval
             /\ \E d \in Int : w.start >= DaySpan(d).start /\ w.end <= DaySpan(d).end
  <2>1. PICK v \in windows : w = cut(v)
    BY <1>2
  <2>2. PICK d \in Int : v.start >= DaySpan(d).start /\ v.end <= DaySpan(d).end
    BY DEF DayWindows
  <2>3. DaySpan(d).start \in Int /\ DaySpan(d).end \in Int /\ w.start \in Int /\ w.end \in Int
    BY <1>1, <2>1, DaySpans DEF Interval
  <2> QED
    BY <1>1, <2>1, <2>2, <2>3
<1> QED
  BY <1>3 DEF DayWindows

\* What lies in a day meets no other.
LEMMA OneDay ==
  ASSUME NEW x, x.start \in Int, x.end \in Int, NEW d \in Int, NEW e \in Int,
         Overlaps(x, DaySpan(d)), x.start >= DaySpan(e).start, x.end <= DaySpan(e).end
  PROVE  d = e
<1>1. /\ DaySpan(d).start \in Int /\ DaySpan(d).end \in Int
      /\ DaySpan(e).start \in Int /\ DaySpan(e).end \in Int
  BY DaySpans DEF Interval
<1>2. x.start < DaySpan(d).end /\ DaySpan(d).start < x.end
  BY DEF Overlaps
<1>3. CASE d < e
  BY <1>1, <1>2, <1>3, DaysFollow
<1>4. CASE e < d
  BY <1>1, <1>2, <1>4, DaysFollow
<1> QED
  BY <1>3, <1>4

-----------------------------------------------------------------------------
(* The rows of a world, and the seats read off them. *)

Row ==
  [state : {"absent", "none", "problematic", "resolved", "unscheduled", "deleted"},
   kind : {"flexible", "fixed"}, status : {"todo", "doing", "done"}, phase : Phases \cup {None},
   dur : Nat \ {0}, clock : Int \cup {None}, by : Int \cup {None}, slot : Interval \cup {None},
   parkedDay : Int \cup {None}, was : Int \cup {None}, placing : BOOLEAN, asked : BOOLEAN]

\* A slot takes time, belongs to a task on the calendar and came with a clock; who
\* is asked about a conflict is asked about its clock, and a parked task has none.
RowOK(r) ==
  /\ r \in Row
  /\ r.slot # None => /\ r.slot.start < r.slot.end /\ r.state \in {"none", "resolved"}
                      /\ r.clock # None
                      /\ r.kind = "flexible" => r.slot.end - r.slot.start <= r.dur
  /\ r.state = "resolved" => r.slot # None
  /\ r.state = "none" /\ r.asked => r.clock # None
  /\ r.state \in {"problematic", "unscheduled"} => r.clock = None

Worlds == [task : [Tasks -> Row], held : [Series -> SUBSET Days], born : Seq(Tasks)]

\* Everyone's row is sound, a day has one holder, and the tasks there are were
\* created once each.
Shape(w) ==
  /\ w \in Worlds
  /\ \A t \in Tasks : RowOK(w.task[t])
  /\ \A s \in Series, d \in Days : d \in w.held[s] <=> w.task[<<s, d>>].state = "absent"
  /\ IsInjective(w.born)
  /\ ToSet(w.born) = { t \in Tasks : w.task[t].state \notin {"absent", "deleted"} }

\* The seat of a slot, what is over of it, the seat of a clock, and a series day.
SlotSeat(x, t, r) ==
  /\ SlotIsOpen(r) /\ x.id = SeatId(t, "slot", 0) /\ x.task = t /\ x.role = SlotRole(r)
  /\ x.start = (IF IsBegun(r) THEN now ELSE r.slot.start) /\ x.end = r.slot.end

ElapsedPart(x, t, r) ==
  /\ IsBegun(r) /\ x.id = SeatId(t, "elapsed", 0) /\ x.task = t /\ x.role = "elapsed"
  /\ x.start = r.slot.start /\ x.end = now

ClockSeat(x, t) ==
  x.id = SeatId(t, "peer", 0) /\ x.task = t /\ x.role \in {"anchor", "resolved"}

DaySeat(x, s, d) ==
  /\ x.id = SeatId(s, "day", d) /\ x.task = s /\ x.role = "series"
  /\ x.start = Home(s, d).start /\ x.end = Home(s, d).end

TaskPart(x, t, r) == HasSeat(r) /\ (SlotSeat(x, t, r) \/ ElapsedPart(x, t, r) \/ ClockSeat(x, t))

SeatFields == {"id", "task", "role", "start", "end", "windows", "notBefore", "home"}

\* A place in the phase and before the deadline of a row, in time to come.
InTime(h, r) ==
  /\ h.start >= now /\ FitsWindow(h, HorizonWindows(r.phase))
  /\ r.by # None => h.end <= r.by

\* A seat in its time has a window where it ends, and only windows in its time.
TimelyIn(x, r, area) ==
  InItsTime(r) /\ Overlaps(x, area) =>
    /\ \E v \in x.windows : v.start < x.end /\ x.end <= v.end
    /\ \A h \in Interval : FitsWindow(h, x.windows) => InTime(h, r)

\* Rows are the seats of everyone but `gone`.
RowsAre(rows, w, gone, reach) ==
  /\ SeatsOK(rows, reach) /\ \A x \in ToSet(rows) : SeatFields \subseteq DOMAIN x
  /\ \A x \in ToSet(rows) :
       \/ \E t \in Tasks \ gone : TaskPart(x, t, w.task[t])
       \/ \E s \in Series : \E d \in w.held[s] : DaySeat(x, s, d)
  /\ \A t \in Tasks \ gone :
       /\ HasSeat(w.task[t]) /\ SlotIsOpen(w.task[t]) => \E x \in ToSet(rows) : SlotSeat(x, t, w.task[t])
       /\ HasSeat(w.task[t]) /\ IsBegun(w.task[t]) => \E x \in ToSet(rows) : ElapsedPart(x, t, w.task[t])
  /\ \A s \in Series : \A d \in w.held[s] :
       Home(s, d).end > now => \E x \in ToSet(rows) : DaySeat(x, s, d)
  /\ \A x \in ToSet(rows), t \in Tasks \ gone :
       SlotSeat(x, t, w.task[t]) => TimelyIn(x, w.task[t], reach)

LEMMA HomeClockTyped ==
  ASSUME NEW t, NEW i \in Interval
  PROVE  HomeClock(t, i) = None \/ HomeClock(t, i) \in Interval
<1>0. SUFFICES ASSUME HomeClock(t, i) # None PROVE HomeClock(t, i) \in Interval
  OBVIOUS
<1> DEFINE d == DayOf(i.start)
           h == Home(t[1], d)
           len == Max({h.end - h.start, i.end - i.start})
<1>5. t \in Copies
  BY <1>0 DEF HomeClock
<1>1. d \in Int /\ t[1] \in Series
  BY <1>5, PlacementAssumption DEF DayOf, Interval, Copies
<1>2. h \in Interval
  BY <1>1, HomesAre
<1>3. HomeClock(t, i) = [start |-> h.start, end |-> h.start + len]
  BY <1>0 DEF HomeClock
<1> HIDE DEF h, d
<1>4. len \in Int
  <2>1. h.end - h.start \in Int /\ i.end - i.start \in Int
    BY <1>2 DEF Interval
  <2> QED
    BY <2>1, MaxTwo
<1>6. h.start \in Int
  BY <1>2 DEF Interval
<1> HIDE DEF len
<1>7. [start |-> h.start, end |-> h.start + len] \in Interval
  BY <1>4, <1>6 DEF Interval
<1> QED
  BY <1>3, <1>7

\* The windows of a task lie in the days left.
LEMMA TaskWindows ==
  ASSUME NEW phase \in Phases \cup {None}, NEW from \in Int, NEW until \in Int
  PROVE  WindowsIn(Clip(HorizonWindows(phase), from, until), Horizon)
<1>1. [start |-> from, end |-> until] \in Interval /\ Horizon \in Interval
  BY AllDays DEF Interval
<1> QED
  BY <1>1, HorizonIsReach, WithinKeeps DEF Clip

LEMMA Untils ==
  ASSUME NEW by \in Int \cup {None}
  PROVE  Until(by) \in Int
<1>1. (Max(Days) + 1) * DayLen \in Int /\ Max(Moments) \in Int
  BY AllDays, InputAssumption DEF Horizon, Interval
<1>2. EndOfTime \in Int
  BY <1>1 DEF EndOfTime
<1> QED
  BY <1>2 DEF Until

\* A seat made of an interval.
LEMMA SeatMade ==
  ASSUME NEW t, NEW part, NEW role \in Roles, NEW i \in Interval, i.start < i.end,
         NEW windows, WindowsIn(windows, Horizon), now \in Int
  PROVE  /\ SeatOK(SeatOf(t, part, role, i, windows), Horizon)
         /\ SeatOf(t, part, role, i, windows).id = SeatId(t, part, 0)
         /\ SeatOf(t, part, role, i, windows).task = t
         /\ SeatOf(t, part, role, i, windows).role = role
         /\ SeatOf(t, part, role, i, windows).start = i.start
         /\ SeatOf(t, part, role, i, windows).end = i.end
         /\ SeatFields \subseteq DOMAIN SeatOf(t, part, role, i, windows)
<1> DEFINE x == SeatOf(t, part, role, i, windows)
<1>1. /\ x.id = SeatId(t, part, 0) /\ x.task = t /\ x.role = role
      /\ x.start = i.start /\ x.end = i.end /\ x.notBefore = now
      /\ x.windows = windows /\ x.home = HomeClock(t, i)
  BY DEF SeatOf
<1>3. SeatFields \subseteq DOMAIN x
  BY DEF SeatOf, SeatFields
<1> HIDE DEF x
<1>2. x.home = None \/ x.home \in Interval
  BY <1>1, HomeClockTyped
<1> QED
  BY <1>1, <1>2, <1>3 DEF SeatOK, Interval, x

LEMMA ElapsedSeatIs ==
  ASSUME NEW t, NEW r, RowOK(r), IsBegun(r), now \in Int
  PROVE  /\ SeatOK(ElapsedSeat(t, r), Horizon) /\ ElapsedPart(ElapsedSeat(t, r), t, r)
         /\ SeatFields \subseteq DOMAIN ElapsedSeat(t, r)
<1> DEFINE i == [start |-> r.slot.start, end |-> now]
           windows == Clip(HorizonWindows(r.phase), now, Until(r.by))
<1>1. r.phase \in Phases \cup {None} /\ r.by \in Int \cup {None} /\ r.slot \in Interval
  BY DEF RowOK, Row, IsBegun, SlotIsOpen
<1>2. i \in Interval /\ i.start < i.end
  BY <1>1 DEF IsBegun, Interval
<1>3. WindowsIn(windows, Horizon)
  BY <1>1, TaskWindows, Untils
<1>4. ElapsedSeat(t, r) = SeatOf(t, "elapsed", "elapsed", i, windows) /\ "elapsed" \in Roles
  BY DEF ElapsedSeat, Roles
<1>5. i.start = r.slot.start /\ i.end = now
  OBVIOUS
<1> HIDE DEF i, windows
<1> QED
  BY <1>2, <1>3, <1>4, <1>5, SeatMade DEF ElapsedPart

LEMMA SlotRoles ==
  ASSUME NEW r, RowOK(r), SlotIsOpen(r)
  PROVE  /\ SlotRole(r) \in {"resolved", "anchor", "flexible"}
         /\ SlotRole(r) = "resolved" => r.state = "resolved"
         /\ SlotRole(r) = "flexible" => r.state = "none" /\ r.kind = "flexible"
<1>1. r.state \in {"none", "resolved"} /\ r.kind \in {"flexible", "fixed"}
  BY DEF RowOK, Row, SlotIsOpen
<1> QED
  BY <1>1 DEF SlotRole

LEMMA TaskSeatIs ==
  ASSUME NEW t, NEW r, RowOK(r), HasSeat(r), now \in Int
  PROVE  /\ SeatOK(TaskSeat(t, r), Horizon) /\ SeatFields \subseteq DOMAIN TaskSeat(t, r)
         /\ SlotSeat(TaskSeat(t, r), t, r) \/ (~SlotIsOpen(r) /\ ClockSeat(TaskSeat(t, r), t))
<1> DEFINE windows == Clip(HorizonWindows(r.phase), now, Until(r.by))
           x == TaskSeat(t, r)
<1>1. r.phase \in Phases \cup {None} /\ r.by \in Int \cup {None} /\ r.dur \in Nat \ {0}
  BY DEF RowOK, Row
<1>2. WindowsIn(windows, Horizon) /\ WindowsIn({}, Horizon)
  BY <1>1, TaskWindows, Untils DEF WindowsIn
<1>3. x = CASE IsBegun(r) -> SeatOf(t, "slot", "flexible", [start |-> now, end |-> r.slot.end], windows)
            [] SlotIsOpen(r) /\ ~IsBegun(r) -> SeatOf(t, "slot", SlotRole(r), r.slot, windows)
            [] OTHER -> SeatOf(t, "peer", IF r.state = "resolved" THEN "resolved" ELSE "anchor",
                               [start |-> r.clock, end |-> r.clock + r.dur], {})
  BY DEF TaskSeat
<1> HIDE DEF x, windows
<1>4. CASE IsBegun(r)
  <2> DEFINE i == [start |-> now, end |-> r.slot.end]
  <2>1. SlotIsOpen(r) /\ SlotRole(r) = "flexible" /\ r.slot \in Interval
    BY <1>4 DEF IsBegun, SlotIsOpen, RowOK, Row
  <2>2. i \in Interval /\ i.start < i.end /\ i.start = now /\ i.end = r.slot.end
    BY <2>1 DEF SlotIsOpen, Interval
  <2>3. x = SeatOf(t, "slot", "flexible", i, windows) /\ "flexible" \in Roles
    BY <1>3, <1>4 DEF Roles
  <2> HIDE DEF i
  <2>4. /\ SeatOK(x, Horizon) /\ x.id = SeatId(t, "slot", 0) /\ x.task = t /\ x.role = "flexible"
        /\ x.start = i.start /\ x.end = i.end /\ SeatFields \subseteq DOMAIN x
    BY <1>2, <2>2, <2>3, SeatMade
  <2>5. SlotSeat(x, t, r)
    BY <1>4, <2>1, <2>2, <2>4 DEF SlotSeat
  <2> QED
    BY <2>4, <2>5 DEF x
<1>5. CASE SlotIsOpen(r) /\ ~IsBegun(r)
  <2>1. r.slot \in Interval /\ r.slot.start < r.slot.end
    BY <1>5 DEF SlotIsOpen, RowOK, Row
  <2>2. x = SeatOf(t, "slot", SlotRole(r), r.slot, windows)
    BY <1>3, <1>5
  <2>3. SlotRole(r) \in Roles
    BY <1>5, SlotRoles DEF Roles
  <2> DEFINE i == r.slot
             role == SlotRole(r)
  <2>4. i \in Interval /\ i.start < i.end /\ role \in Roles /\ x = SeatOf(t, "slot", role, i, windows)
    BY <2>1, <2>2, <2>3
  <2> HIDE DEF i, role
  <2>5. /\ SeatOK(x, Horizon) /\ x.id = SeatId(t, "slot", 0) /\ x.task = t /\ x.role = role
        /\ x.start = i.start /\ x.end = i.end /\ SeatFields \subseteq DOMAIN x
    BY <1>2, <2>4, SeatMade
  <2>6. SlotSeat(x, t, r)
    BY <1>5, <2>5 DEF SlotSeat, i, role
  <2> QED
    BY <2>5, <2>6 DEF x
<1>6. CASE ~SlotIsOpen(r)
  <2> DEFINE i == [start |-> r.clock, end |-> r.clock + r.dur]
             role == IF r.state = "resolved" THEN "resolved" ELSE "anchor"
  <2>1. r.clock \in Int
    BY <1>6 DEF HasSeat, IsPeer, RowOK, Row
  <2>2. i \in Interval /\ i.start < i.end
    BY <1>1, <2>1 DEF Interval
  <2>3. x = SeatOf(t, "peer", role, i, {})
    BY <1>3, <1>6 DEF IsBegun
  <2>4. role \in Roles /\ role \in {"anchor", "resolved"}
    BY DEF Roles
  <2> DEFINE nowhere == {}
  <2>7. WindowsIn(nowhere, Horizon) /\ x = SeatOf(t, "peer", role, i, nowhere)
    BY <1>2, <2>3
  <2> HIDE DEF i, role, nowhere
  <2>5. /\ SeatOK(x, Horizon) /\ x.id = SeatId(t, "peer", 0) /\ x.task = t /\ x.role = role
        /\ x.start = i.start /\ x.end = i.end /\ SeatFields \subseteq DOMAIN x
    <3>1. role \in Roles /\ i \in Interval /\ i.start < i.end
      BY <2>2, <2>4
    <3> QED
      BY <2>7, <3>1, SeatMade
  <2>6. ClockSeat(x, t)
    BY <2>4, <2>5 DEF ClockSeat
  <2> QED
    BY <1>6, <2>5, <2>6 DEF x
<1> QED
  BY <1>4, <1>5, <1>6

LEMMA TaskSeatTimely ==
  ASSUME NEW t, NEW r, RowOK(r), HasSeat(r), SlotIsOpen(r), now \in Int, NEW area
  PROVE  TimelyIn(TaskSeat(t, r), r, area)
<1> DEFINE x == TaskSeat(t, r)
           b == Until(r.by)
           span == [start |-> now, end |-> b]
           open == HorizonWindows(r.phase)
<1>1. r.phase \in Phases \cup {None} /\ r.by \in Int \cup {None} /\ r.slot \in Interval
      /\ r.slot.start < r.slot.end /\ r.slot.end > now /\ r.slot.start \in Int /\ r.slot.end \in Int
  BY DEF RowOK, Row, SlotIsOpen, Interval
<1>2. open \subseteq Interval /\ \A w \in open : w.end <= Horizon.end
  BY <1>1, HorizonIsReach DEF WindowsIn
<1>3. b \in Int /\ (r.by # None => b = r.by) /\ (r.by = None => Horizon.end <= b)
  BY <1>1, Untils, AllDays, InputAssumption DEF Horizon, EndOfTime, Interval, Until
<1>4. x.windows = Within(open, span)
  BY DEF TaskSeat, SeatOf, Clip
<1>5. x.end = r.slot.end
  BY TaskSeatIs DEF SlotSeat
<1>6. span \in Interval /\ span.start = now /\ span.end = b
  BY <1>3 DEF Interval
<1> HIDE DEF x, b, span, open
<1>7. ASSUME InItsTime(r) PROVE \E v \in x.windows : v.start < x.end /\ x.end <= v.end
  <2>1. PICK w \in open : r.slot.start >= w.start /\ r.slot.end <= w.end
    BY <1>7 DEF InItsTime, FitsWindow, open
  <2> DEFINE v == [start |-> Max({w.start, span.start}), end |-> Min({w.end, span.end})]
             from == Max({w.start, span.start})
             until == Min({w.end, span.end})
  <2>2. w.start \in Int /\ w.end \in Int /\ w.end <= Horizon.end /\ Horizon.end \in Int
    BY <1>2, AllDays DEF Interval
  <2>3. from \in {w.start, now} /\ until \in {w.end, b}
    BY <1>3, <1>6, <2>2, OneOfTwo
  <2>4. r.slot.end <= b
    BY <1>1, <1>3, <1>7, <2>1, <2>2 DEF InItsTime
  <2>5. v.start = from /\ v.end = until
    OBVIOUS
  <2>6. v \in { [start |-> Max({y.start, span.start}), end |-> Min({y.end, span.end})] : y \in open }
    OBVIOUS
  <2> HIDE DEF v, from, until
  <2>7. v.start < r.slot.end /\ r.slot.end <= v.end /\ v.end > v.start
    BY <1>1, <1>3, <2>1, <2>2, <2>3, <2>4, <2>5
  <2>8. v \in Within(open, span)
    BY <2>6, <2>7 DEF Within
  <2> QED
    BY <1>4, <1>5, <2>7, <2>8
<1>8. ASSUME NEW h \in Interval, FitsWindow(h, x.windows) PROVE InTime(h, r)
  BY <1>2, <1>4, <1>6, <1>8, CutIsInside, <1>3 DEF InTime, open
<1> QED
  BY <1>7, <1>8 DEF TimelyIn, x

LEMMA SeriesSeatIs ==
  ASSUME NEW s \in Series, NEW d \in Days, now \in Int
  PROVE  /\ SeatOK(SeriesSeat(s, d), Horizon) /\ DaySeat(SeriesSeat(s, d), s, d)
         /\ SeatFields \subseteq DOMAIN SeriesSeat(s, d)
<1> DEFINE x == SeriesSeat(s, d)
           windows == Within(HorizonWindows(None), DaySpan(d))
<1>1. d \in Int
  BY AllDays
<1>2. WindowsIn(windows, Horizon)
  BY <1>1, AllDays, DaySpans, HorizonIsReach, WithinKeeps
<1>3. /\ x.id = SeatId(s, "day", d) /\ x.task = s /\ x.role = "series"
      /\ x.start = Home(s, d).start /\ x.end = Home(s, d).end /\ x.notBefore = now
      /\ x.windows = windows /\ x.home = None
  BY DEF SeriesSeat, DaySpan
<1>4. SeatFields \subseteq DOMAIN x
  BY DEF SeriesSeat, SeatFields
<1> HIDE DEF x, windows
<1> QED
  BY <1>1, <1>2, <1>3, <1>4, HomesAre DEF SeatOK, DaySeat, Roles, Interval, x

\* `u` is `s` with F of each element, and C is what F makes of A.
IsMapped(u, s, F) == u = [k \in DOMAIN s |-> F[s[k]]]
IsImage(C, A, F) == C = { F[a] : a \in A }

LEMMA MappedSeq ==
  ASSUME NEW A, NEW B, NEW s \in Seq(A), NEW F \in [A -> B], NEW u, IsMapped(u, s, F)
  PROVE  u \in Seq(B)
<1> DEFINE N == Len(s)
<1>1. N \in Nat /\ DOMAIN s = 1 .. N /\ \A n \in 1 .. N : s[n] \in A
  BY LenProperties, ElementOfSeq
<1>2. u \in [1 .. N -> B]
  BY <1>1 DEF IsMapped
<1> QED
  BY <1>1, <1>2, IsASeq

LEMMA MappedSet ==
  ASSUME NEW A, NEW s, ToSet(s) = A, NEW F, NEW C, IsImage(C, A, F), NEW u, IsMapped(u, s, F)
  PROVE  ToSet(u) = C
BY DEF ToSet, IsMapped, IsImage

LEMMA SeatIds ==
  ASSUME NEW a, NEW b, NEW c, NEW x, NEW y, NEW z, SeatId(a, b, c) = SeatId(x, y, z)
  PROVE  a = x /\ b = y /\ c = z
<1>1. SeatId(a, b, c).of = SeatId(x, y, z).of /\ SeatId(a, b, c).part = SeatId(x, y, z).part
      /\ SeatId(a, b, c).day = SeatId(x, y, z).day
  OBVIOUS
<1> QED
  BY <1>1 DEF SeatId

LEMMA AllSeriesDays ==
  SeriesDays \in Seq(Series \X Days) /\ ToSet(SeriesDays) = Series \X Days
<1>1. IsFiniteSet(Days)
  BY CalendarAssumption, FS_Interval
<1>2. IsFiniteSet(Series \X Days)
  BY <1>1, CalendarAssumption, FS_Product
<1> QED
  BY <1>2, Listed DEF SeriesDays

\* What the rows of a world are, in either order.
LEMMA RowsAreSeats ==
  ASSUME NEW w, Shape(w), NEW gone, NEW order
  PROVE  LET begun == { t \in Tasks \ gone : HasSeat(w.task[t]) /\ IsBegun(w.task[t]) }
             tasks == { t \in Tasks \ gone : HasSeat(w.task[t]) }
             days == { x \in Series \X Days : x[2] \in w.held[x[1]] /\ Home(x[1], x[2]).end > now }
             E == { ElapsedSeat(t, w.task[t]) : t \in begun }
             T == { TaskSeat(t, w.task[t]) : t \in tasks }
             D == { SeriesSeat(x[1], x[2]) : x \in days }
         IN  Rows(w, gone, order) \in Seq(E \cup T \cup D) /\ ToSet(Rows(w, gone, order)) = E \cup T \cup D
<1> DEFINE seated == { t \in Tasks \ gone : HasSeat(w.task[t]) }
           going == { t \in Tasks : IsBegun(w.task[t]) }
           left == { x \in Series \X Days : x[2] \in w.held[x[1]] /\ Home(x[1], x[2]).end > now }
           tasks == Those(w.born, seated)
           begun == Those(tasks, going)
           days == Those(SeriesDays, left)
           FE == [t \in seated \cap going |-> ElapsedSeat(t, w.task[t])]
           FT == [t \in seated |-> TaskSeat(t, w.task[t])]
           FD == [x \in left |-> SeriesSeat(x[1], x[2])]
           E == { ElapsedSeat(t, w.task[t]) : t \in seated \cap going }
           T == { TaskSeat(t, w.task[t]) : t \in seated }
           D == { SeriesSeat(x[1], x[2]) : x \in left }
           A == E \cup T \cup D
<1>1. tasks \in Seq(seated) /\ ToSet(tasks) = seated
  <2>1. tasks \in Seq(Tasks) /\ ToSet(tasks) = ToSet(w.born) \cap seated
    <3>1. w.born \in Seq(Tasks)
      BY DEF Shape, Worlds
    <3> HIDE DEF seated
    <3> QED
      BY <3>1, Picks
  <2>2. seated \subseteq ToSet(w.born)
    BY DEF Shape, HasSeat
  <2>3. ToSet(tasks) = seated
    BY <2>1, <2>2
  <2> HIDE DEF tasks, seated
  <2> QED
    BY <2>1, <2>3, OwnSeq
<1>2. begun \in Seq(seated \cap going) /\ ToSet(begun) = seated \cap going
  <2> HIDE DEF tasks, seated, going
  <2>1. begun \in Seq(seated) /\ ToSet(begun) = seated \cap going
    BY <1>1, Picks
  <2> HIDE DEF begun
  <2> QED
    BY <2>1, OwnSeq
<1>3. days \in Seq(left) /\ ToSet(days) = left
  <2>1. left \subseteq Series \X Days
    OBVIOUS
  <2> HIDE DEF left
  <2> DEFINE S == Series \X Days
  <2> HIDE DEF S
  <2>3. SeriesDays \in Seq(S) /\ ToSet(SeriesDays) = S /\ left \subseteq S
    BY <2>1, AllSeriesDays DEF S
  <2>4. days \in Seq(S) /\ ToSet(days) = ToSet(SeriesDays) \cap left
    BY <2>3, Picks
  <2>2. days \in Seq(S) /\ ToSet(days) = left
    BY <2>3, <2>4
  <2> HIDE DEF days
  <2> QED
    BY <2>2, OwnSeq
<1> DEFINE uE == [k \in DOMAIN begun |-> ElapsedSeat(begun[k], w.task[begun[k]])]
           uT == [k \in DOMAIN tasks |-> TaskSeat(tasks[k], w.task[tasks[k]])]
           uD == [k \in DOMAIN days |-> SeriesSeat(days[k][1], days[k][2])]
           rows == uE \o uT \o uD
<1>4. FE \in [seated \cap going -> A] /\ FT \in [seated -> A] /\ FD \in [left -> A]
  OBVIOUS
<1>5. uE = [k \in DOMAIN begun |-> FE[begun[k]]] /\ { FE[t] : t \in seated \cap going } = E
  <2>1. \A k \in DOMAIN begun : begun[k] \in seated \cap going
    BY <1>2 DEF ToSet
  <2> HIDE DEF begun, seated, going
  <2> QED
    BY <2>1
<1>6. uT = [k \in DOMAIN tasks |-> FT[tasks[k]]] /\ { FT[t] : t \in seated } = T
  <2>1. \A k \in DOMAIN tasks : tasks[k] \in seated
    BY <1>1 DEF ToSet
  <2> HIDE DEF tasks, seated
  <2> QED
    BY <2>1
<1>7. uD = [k \in DOMAIN days |-> FD[days[k]]] /\ { FD[x] : x \in left } = D
  <2>1. \A k \in DOMAIN days : days[k] \in left
    BY <1>3 DEF ToSet
  <2> HIDE DEF days, left
  <2> QED
    BY <2>1
<1> HIDE DEF FE, FT, FD, A, begun, tasks, days
<1>8. uE \in Seq(A) /\ ToSet(uE) = E
  <2> DEFINE S == seated \cap going
  <2>1. /\ begun \in Seq(S) /\ ToSet(begun) = S /\ FE \in [S -> A]
        /\ IsMapped(uE, begun, FE) /\ IsImage(E, S, FE)
    BY <1>2, <1>4, <1>5 DEF IsMapped, IsImage
  <2> HIDE DEF S, uE, E
  <2>2. uE \in Seq(A)
    BY <2>1, MappedSeq
  <2>3. ToSet(uE) = E
    BY <2>1, MappedSet
  <2> QED
    BY <2>2, <2>3
<1>9. uT \in Seq(A) /\ ToSet(uT) = T
  <2> DEFINE S == seated
  <2>1. /\ tasks \in Seq(S) /\ ToSet(tasks) = S /\ FT \in [S -> A]
        /\ IsMapped(uT, tasks, FT) /\ IsImage(T, S, FT)
    BY <1>1, <1>4, <1>6 DEF IsMapped, IsImage
  <2> HIDE DEF S, uT, T
  <2>2. uT \in Seq(A)
    BY <2>1, MappedSeq
  <2>3. ToSet(uT) = T
    BY <2>1, MappedSet
  <2> QED
    BY <2>2, <2>3
<1>10. uD \in Seq(A) /\ ToSet(uD) = D
  <2> DEFINE S == left
  <2>1. /\ days \in Seq(S) /\ ToSet(days) = S /\ FD \in [S -> A]
        /\ IsMapped(uD, days, FD) /\ IsImage(D, S, FD)
    BY <1>3, <1>4, <1>7 DEF IsMapped, IsImage
  <2> HIDE DEF S, uD, D
  <2>2. uD \in Seq(A)
    BY <2>1, MappedSeq
  <2>3. ToSet(uD) = D
    BY <2>1, MappedSet
  <2> QED
    BY <2>2, <2>3
<1>11. rows \in Seq(A) /\ ToSet(rows) = A
  <2> HIDE DEF uE, uT, uD, E, T, D
  <2>0. uE \in Seq(A) /\ uT \in Seq(A) /\ uD \in Seq(A)
    BY <1>8, <1>9, <1>10
  <2>1. uE \o uT \in Seq(A) /\ ToSet(uE \o uT) = ToSet(uE) \cup ToSet(uT)
    BY <2>0, Joined
  <2> DEFINE first == uE \o uT
  <2> HIDE DEF first
  <2>3. first \in Seq(A)
    BY <2>1 DEF first
  <2>2. first \o uD \in Seq(A) /\ ToSet(first \o uD) = ToSet(first) \cup ToSet(uD)
    BY <2>0, <2>3, Joined
  <2> QED
    BY <1>8, <1>9, <1>10, <2>1, <2>2, Zenon DEF A, first
<1>12. Rows(w, gone, order) = IF order = "oldest" THEN rows ELSE Reverse(rows)
  BY DEF Rows, begun, tasks, days
<1>13. Rows(w, gone, order) \in Seq(A) /\ ToSet(Rows(w, gone, order)) = A
  <2> HIDE DEF rows
  <2> QED
    BY <1>11, <1>12, Reversed
<1>14. seated \cap going = { t \in Tasks \ gone : HasSeat(w.task[t]) /\ IsBegun(w.task[t]) }
  OBVIOUS
<1> HIDE DEF going
<1> QED
  BY <1>13, <1>14 DEF A

\* One row of a world.
IsRow(x, w, gone) ==
  \/ \E t \in Tasks \ gone : /\ HasSeat(w.task[t]) /\ IsBegun(w.task[t])
                             /\ x = ElapsedSeat(t, w.task[t])
  \/ \E t \in Tasks \ gone : HasSeat(w.task[t]) /\ x = TaskSeat(t, w.task[t])
  \/ \E s \in Series : \E d \in w.held[s] : Home(s, d).end > now /\ x = SeriesSeat(s, d)

LEMMA RowsListed ==
  ASSUME NEW w, Shape(w), NEW gone, NEW order
  PROVE  /\ Rows(w, gone, order) \in Seq(ToSet(Rows(w, gone, order)))
         /\ \A x : x \in ToSet(Rows(w, gone, order)) <=> IsRow(x, w, gone)
<1> DEFINE begun == { t \in Tasks \ gone : HasSeat(w.task[t]) /\ IsBegun(w.task[t]) }
           tasks == { t \in Tasks \ gone : HasSeat(w.task[t]) }
           days == { x \in Series \X Days : x[2] \in w.held[x[1]] /\ Home(x[1], x[2]).end > now }
           E == { ElapsedSeat(t, w.task[t]) : t \in begun }
           T == { TaskSeat(t, w.task[t]) : t \in tasks }
           D == { SeriesSeat(x[1], x[2]) : x \in days }
           R == Rows(w, gone, order)
<1>1. R \in Seq(E \cup T \cup D) /\ ToSet(R) = E \cup T \cup D
  BY RowsAreSeats
<1>2. R \in Seq(ToSet(R))
  BY <1>1
<1>3. \A x : x \in E <=> \E t \in Tasks \ gone : /\ HasSeat(w.task[t]) /\ IsBegun(w.task[t])
                                                 /\ x = ElapsedSeat(t, w.task[t])
  OBVIOUS
<1>4. \A x : x \in T <=> \E t \in Tasks \ gone : HasSeat(w.task[t]) /\ x = TaskSeat(t, w.task[t])
  OBVIOUS
<1>5. \A x : x \in D <=> \E s \in Series : \E d \in w.held[s] :
                            Home(s, d).end > now /\ x = SeriesSeat(s, d)
  <2>1. \A s \in Series : w.held[s] \subseteq Days
    BY DEF Shape, Worlds
  <2>2. \A s \in Series, d \in Days : d \in w.held[s] /\ Home(s, d).end > now <=> <<s, d>> \in days
    OBVIOUS
  <2>3. \A y \in days : /\ y[1] \in Series /\ y[2] \in w.held[y[1]] /\ Home(y[1], y[2]).end > now
                        /\ y = <<y[1], y[2]>>
    OBVIOUS
  <2>4. \A x : x \in D <=> \E y \in days : x = SeriesSeat(y[1], y[2])
    OBVIOUS
  <2> HIDE DEF days, D
  <2> QED
    BY <2>1, <2>2, <2>3, <2>4
<1> HIDE DEF E, T, D, R
<1> QED
  BY <1>1, <1>2, <1>3, <1>4, <1>5 DEF IsRow, R

LEMMA RowsRead ==
  ASSUME NEW w, Shape(w), NEW gone, NEW order, now \in Int
  PROVE  RowsAre(Rows(w, gone, order), w, gone, Horizon)
<1> DEFINE R == Rows(w, gone, order)
<1>1. R \in Seq(ToSet(R)) /\ \A x : x \in ToSet(R) <=> IsRow(x, w, gone)
  BY RowsListed
<1> HIDE DEF R
<1>2. ASSUME NEW t \in Tasks, HasSeat(w.task[t]), IsBegun(w.task[t])
      PROVE  /\ SeatOK(ElapsedSeat(t, w.task[t]), Horizon)
             /\ ElapsedPart(ElapsedSeat(t, w.task[t]), t, w.task[t])
             /\ SeatFields \subseteq DOMAIN ElapsedSeat(t, w.task[t])
  BY <1>2, ElapsedSeatIs DEF Shape
<1>3. ASSUME NEW t \in Tasks, HasSeat(w.task[t])
      PROVE  /\ SeatOK(TaskSeat(t, w.task[t]), Horizon)
             /\ SeatFields \subseteq DOMAIN TaskSeat(t, w.task[t])
             /\ \/ SlotSeat(TaskSeat(t, w.task[t]), t, w.task[t])
                \/ ~SlotIsOpen(w.task[t]) /\ ClockSeat(TaskSeat(t, w.task[t]), t)
  BY <1>3, TaskSeatIs DEF Shape
<1>4. ASSUME NEW s \in Series, NEW d \in w.held[s]
      PROVE  /\ SeatOK(SeriesSeat(s, d), Horizon) /\ DaySeat(SeriesSeat(s, d), s, d)
             /\ SeatFields \subseteq DOMAIN SeriesSeat(s, d)
  BY SeriesSeatIs DEF Shape, Worlds
<1>5. \A x \in ToSet(R) : SeatOK(x, Horizon) /\ SeatFields \subseteq DOMAIN x
  BY <1>1, <1>2, <1>3, <1>4 DEF IsRow
<1>6. \A x \in ToSet(R) : \/ \E t \in Tasks \ gone : TaskPart(x, t, w.task[t])
                          \/ \E s \in Series : \E d \in w.held[s] : DaySeat(x, s, d)
  BY <1>1, <1>2, <1>3, <1>4 DEF IsRow, TaskPart
<1>7. ASSUME NEW x \in ToSet(R), NEW y \in ToSet(R), x.id = y.id PROVE x = y
  <2>0. IsRow(x, w, gone) /\ IsRow(y, w, gone)
    BY <1>1
  <2>1. ASSUME NEW z, IsRow(z, w, gone)
        PROVE  \/ \E t \in Tasks : z = ElapsedSeat(t, w.task[t]) /\ z.id = SeatId(t, "elapsed", 0)
               \/ \E t \in Tasks : z = TaskSeat(t, w.task[t])
                                     /\ (z.id = SeatId(t, "slot", 0) \/ z.id = SeatId(t, "peer", 0))
               \/ \E s \in Series, d \in Int : z = SeriesSeat(s, d) /\ z.id = SeatId(s, "day", d)
    <3>1. ASSUME NEW t \in Tasks \ gone, HasSeat(w.task[t]), IsBegun(w.task[t]),
                 z = ElapsedSeat(t, w.task[t])
          PROVE  z.id = SeatId(t, "elapsed", 0)
      BY <1>2, <3>1 DEF ElapsedPart
    <3>2. ASSUME NEW t \in Tasks \ gone, HasSeat(w.task[t]), z = TaskSeat(t, w.task[t])
          PROVE  z.id = SeatId(t, "slot", 0) \/ z.id = SeatId(t, "peer", 0)
      BY <1>3, <3>2 DEF SlotSeat, ClockSeat
    <3>3. ASSUME NEW s \in Series, NEW d \in w.held[s], z = SeriesSeat(s, d)
          PROVE  z.id = SeatId(s, "day", d) /\ d \in Int
      <4>1. d \in Int
        BY AllDays DEF Shape, Worlds
      <4> QED
        BY <1>4, <3>3, <4>1 DEF DaySeat
    <3> QED
      BY <2>1, <3>1, <3>2, <3>3 DEF IsRow
  <2>2. CASE \E t \in Tasks : x = ElapsedSeat(t, w.task[t]) /\ x.id = SeatId(t, "elapsed", 0)
    BY <1>7, <2>0, <2>1, <2>2, SeatIds
  <2>3. CASE \E t \in Tasks : x = TaskSeat(t, w.task[t])
                                /\ (x.id = SeatId(t, "slot", 0) \/ x.id = SeatId(t, "peer", 0))
    BY <1>7, <2>0, <2>1, <2>3, SeatIds
  <2>4. CASE \E s \in Series, d \in Int : x = SeriesSeat(s, d) /\ x.id = SeatId(s, "day", d)
    BY <1>7, <2>0, <2>1, <2>4, SeatIds
  <2> QED
    BY <2>0, <2>1, <2>2, <2>3, <2>4
<1>8. \A t \in Tasks \ gone :
       /\ HasSeat(w.task[t]) /\ SlotIsOpen(w.task[t]) => \E x \in ToSet(R) : SlotSeat(x, t, w.task[t])
       /\ HasSeat(w.task[t]) /\ IsBegun(w.task[t]) => \E x \in ToSet(R) : ElapsedPart(x, t, w.task[t])
  BY <1>1, <1>2, <1>3 DEF IsRow
<1>9. \A s \in Series : \A d \in w.held[s] :
       Home(s, d).end > now => \E x \in ToSet(R) : DaySeat(x, s, d)
  BY <1>1, <1>4 DEF IsRow
<1>10. Horizon \in Interval
  BY AllDays
<1>11. ASSUME NEW x \in ToSet(R), NEW t \in Tasks \ gone, SlotSeat(x, t, w.task[t])
       PROVE  TimelyIn(x, w.task[t], Horizon)
  <2>1. x.id = SeatId(t, "slot", 0) /\ SlotIsOpen(w.task[t])
    BY <1>11 DEF SlotSeat
  <2>2. ASSUME NEW u \in Tasks, HasSeat(w.task[u]), IsBegun(w.task[u]), x = ElapsedSeat(u, w.task[u])
        PROVE  FALSE
    BY <1>2, <2>2, <2>1, SeatIds DEF ElapsedPart
  <2>3. ASSUME NEW s \in Series, NEW d \in w.held[s], x = SeriesSeat(s, d) PROVE FALSE
    BY <1>4, <2>3, <2>1, SeatIds DEF DaySeat
  <2>4. PICK u \in Tasks \ gone : HasSeat(w.task[u]) /\ x = TaskSeat(u, w.task[u])
    BY <1>1, <2>2, <2>3 DEF IsRow
  <2>5. u = t
    BY <1>3, <2>4, <2>1, SeatIds DEF SlotSeat, ClockSeat
  <2>6. RowOK(w.task[t])
    BY DEF Shape
  <2> QED
    BY <2>1, <2>4, <2>5, <2>6, TaskSeatTimely
<1> QED
  BY <1>1, <1>5, <1>6, <1>7, <1>8, <1>9, <1>10, <1>11 DEF RowsAre, SeatsOK, R

\* Cutting the rows to a day changes windows only.
LEMMA CutRows ==
  ASSUME NEW w, NEW gone, NEW reach, NEW rows, RowsAre(rows, w, gone, reach),
         reach = Horizon, Shape(w), NEW d \in Int, NEW i
  PROVE  RowsAre(CutToDay(rows, d, i), w, gone, DaySpan(d))
<1> DEFINE day == DaySpan(d)
           new(x) == IF Within(x.windows, day) = {} /\ i # None /\ Overlaps(x, i)
                     THEN {DayBounds(d)} ELSE Within(x.windows, day)
           cut(x) == [x EXCEPT !.windows = new(x)]
           R == CutToDay(rows, d, i)
           old == ToSet(rows)
<1>1. rows \in Seq(old) /\ \A x \in old : SeatOK(x, reach) /\ SeatFields \subseteq DOMAIN x
  BY DEF RowsAre, SeatsOK
<1>2. R = [k \in DOMAIN rows |-> cut(rows[k])]
  BY DEF CutToDay, DaySpan
<1>3. day \in Interval /\ DaySpan(d).start = d * DayLen /\ DaySpan(d).end = d * DayLen + DayLen
      /\ d * DayLen \in Int
  BY DaySpans
<1>4. WindowsIn({DayBounds(d)}, day)
  <2> DEFINE a == d * DayLen
  <2>1. a \in Int /\ Awake \in Int /\ Awake <= DayLen /\ DayLen \in Int /\ Awake >= 0
        /\ day.start = a /\ day.end = a + DayLen
    BY <1>3, PlacementAssumption
  <2>2. DayBounds(d) = [start |-> a + 0, end |-> a + Awake]
    BY DEF DayBounds, OnDay, WholeDay
  <2> HIDE DEF a, day
  <2> QED
    BY <2>1, <2>2 DEF WindowsIn, Interval
<1>5. ASSUME NEW x \in old PROVE WindowsIn(new(x), day)
  <2>1. WindowsIn(Within(x.windows, day), day)
    BY <1>1, <1>3, WithinReach DEF SeatOK, WindowsIn
  <2> HIDE DEF day
  <2> QED
    BY <1>4, <2>1
<1>17. ASSUME NEW x \in old, NEW t \in Tasks \ gone, SlotSeat(x, t, w.task[t]),
              InItsTime(w.task[t]), Overlaps(x, day)
       PROVE  /\ \E v \in new(x) : v.start < x.end /\ x.end <= v.end
              /\ \A h \in Interval : FitsWindow(h, new(x)) => InTime(h, w.task[t])
  <2> DEFINE r == w.task[t]
  <2>1. RowOK(r) /\ r.slot # None /\ r.slot \in Interval /\ r.slot.start < r.slot.end
        /\ r.phase \in Phases \cup {None}
    BY <1>17 DEF Shape, RowOK, Row, SlotSeat, SlotIsOpen
  <2>2. /\ x.start \in Int /\ x.end \in Int /\ x.start < x.end
        /\ x.start >= r.slot.start /\ x.end = r.slot.end /\ x.windows \in SUBSET Interval
        /\ r.slot.start \in Int /\ r.slot.end \in Int
    <3>1. SeatOK(x, reach) /\ SlotSeat(x, t, r) /\ r.slot.start \in Int /\ r.slot.end \in Int
      BY <1>1, <1>17, <2>1 DEF Interval
    <3> HIDE DEF r
    <3> QED
      BY <3>1 DEF SeatOK, SlotSeat, IsBegun, WindowsIn
  <2> HIDE DEF r
  <2>3. PICK w0 \in HorizonWindows(r.phase) : r.slot.start >= w0.start /\ r.slot.end <= w0.end
    BY <1>17 DEF InItsTime, FitsWindow, r
  <2>4. PICK e \in Int : w0.start >= DaySpan(e).start /\ w0.end <= DaySpan(e).end
    BY <2>1, <2>3, HorizonDays DEF DayWindows
  <2>5. /\ w0.start \in Int /\ w0.end \in Int /\ w0.start >= Horizon.start /\ w0.end <= Horizon.end
        /\ Horizon.start \in Int /\ Horizon.end \in Int
        /\ DaySpan(e).start \in Int /\ DaySpan(e).end \in Int
    BY <2>1, <2>3, HorizonIsReach, AllDays, DaySpans DEF WindowsIn, Interval
  <2>6. x.start >= DaySpan(e).start /\ x.end <= DaySpan(e).end /\ Overlaps(x, reach)
    BY <2>2, <2>3, <2>4, <2>5 DEF Overlaps
  <2>7. d = e
    BY <1>17, <2>2, <2>6, OneDay
  <2>8. TimelyIn(x, r, reach)
    BY <1>17 DEF RowsAre, r
  <2>9. PICK v \in x.windows : v.start < x.end /\ x.end <= v.end
    BY <1>17, <2>6, <2>8 DEF TimelyIn, r
  <2> DEFINE from == Max({v.start, day.start})
             until == Min({v.end, day.end})
             c == [start |-> from, end |-> until]
  <2>10. /\ v.start \in Int /\ v.end \in Int /\ day.start \in Int /\ day.end \in Int
         /\ day.start = DaySpan(e).start /\ day.end = DaySpan(e).end
    BY <1>3, <2>2, <2>7 DEF Interval
  <2>11. from \in {v.start, day.start} /\ until \in {v.end, day.end}
    BY <2>10, OneOfTwo
  <2>12. c.start = from /\ c.end = until
         /\ c \in { [start |-> Max({y.start, day.start}), end |-> Min({y.end, day.end})]
                      : y \in x.windows }
    OBVIOUS
  <2> HIDE DEF c, from, until
  <2>13. c.start < x.end /\ x.end <= c.end /\ c.end > c.start
    BY <2>2, <2>6, <2>9, <2>10, <2>11, <2>12
  <2>14. c \in Within(x.windows, day)
    BY <2>12, <2>13 DEF Within
  <2>15. new(x) = Within(x.windows, day)
    BY <2>14
  <2>16. ASSUME NEW h \in Interval, FitsWindow(h, new(x)) PROVE InTime(h, r)
    BY <1>3, <2>2, <2>15, <2>16, CutIsInside, <1>17, <2>6, <2>8 DEF TimelyIn, r
  <2> QED
    BY <2>13, <2>14, <2>15, <2>16 DEF r
<1> HIDE DEF new
<1>6. ASSUME NEW x \in old
      PROVE  /\ cut(x).id = x.id /\ cut(x).task = x.task /\ cut(x).role = x.role
             /\ cut(x).start = x.start /\ cut(x).end = x.end /\ cut(x).notBefore = x.notBefore
             /\ cut(x).home = x.home /\ cut(x).windows = new(x)
             /\ SeatFields \subseteq DOMAIN cut(x)
  BY <1>1 DEF SeatFields
<1> HIDE DEF cut
<1>7. ToSet(R) = { cut(x) : x \in old }
  BY <1>2 DEF ToSet
<1>8. R \in Seq(ToSet(R))
  BY <1>1, LenProperties, <1>2, IsASeq DEF ToSet
<1>9. \A y \in ToSet(R) : \E x \in old : y = cut(x)
  BY <1>7
<1>10. \A x \in old : cut(x) \in ToSet(R)
  BY <1>7
<1> HIDE DEF R, day
<1>11. \A y \in ToSet(R) : SeatOK(y, day) /\ SeatFields \subseteq DOMAIN y
  BY <1>1, <1>5, <1>6, <1>9 DEF SeatOK
<1>12. \A x, y \in ToSet(R) : x.id = y.id => x = y
  <2>1. \A x, y \in old : x.id = y.id => x = y
    BY DEF RowsAre, SeatsOK
  <2> HIDE DEF old
  <2> QED
    BY <1>6, <1>9, <2>1
<1>13. \A y \in ToSet(R) : \/ \E t \in Tasks \ gone : TaskPart(y, t, w.task[t])
                           \/ \E s \in Series : \E e \in w.held[s] : DaySeat(y, s, e)
  <2>1. \A x \in old : \/ \E t \in Tasks \ gone : TaskPart(x, t, w.task[t])
                       \/ \E s \in Series : \E e \in w.held[s] : DaySeat(x, s, e)
    BY DEF RowsAre
  <2>2. \A x \in old : \A t, r : TaskPart(x, t, r) => TaskPart(cut(x), t, r)
    BY <1>6 DEF TaskPart, SlotSeat, ElapsedPart, ClockSeat
  <2>3. \A x \in old : \A s, e : DaySeat(x, s, e) => DaySeat(cut(x), s, e)
    BY <1>6 DEF DaySeat
  <2> HIDE DEF old
  <2> QED
    BY <1>9, <2>1, <2>2, <2>3
<1>14. \A t \in Tasks \ gone :
       /\ HasSeat(w.task[t]) /\ SlotIsOpen(w.task[t]) => \E x \in ToSet(R) : SlotSeat(x, t, w.task[t])
       /\ HasSeat(w.task[t]) /\ IsBegun(w.task[t]) => \E x \in ToSet(R) : ElapsedPart(x, t, w.task[t])
  <2>1. \A x \in old : \A t, r : SlotSeat(x, t, r) => SlotSeat(cut(x), t, r)
    BY <1>6 DEF SlotSeat
  <2>2. \A x \in old : \A t, r : ElapsedPart(x, t, r) => ElapsedPart(cut(x), t, r)
    BY <1>6 DEF ElapsedPart
  <2>3. \A t \in Tasks \ gone :
       /\ HasSeat(w.task[t]) /\ SlotIsOpen(w.task[t]) => \E x \in old : SlotSeat(x, t, w.task[t])
       /\ HasSeat(w.task[t]) /\ IsBegun(w.task[t]) => \E x \in old : ElapsedPart(x, t, w.task[t])
    BY DEF RowsAre
  <2> HIDE DEF old
  <2> QED
    BY <1>10, <2>1, <2>2, <2>3
<1>15. \A s \in Series : \A e \in w.held[s] :
       Home(s, e).end > now => \E x \in ToSet(R) : DaySeat(x, s, e)
  <2>1. \A x \in old : \A s, e : DaySeat(x, s, e) => DaySeat(cut(x), s, e)
    BY <1>6 DEF DaySeat
  <2>2. \A s \in Series : \A e \in w.held[s] :
          Home(s, e).end > now => \E x \in old : DaySeat(x, s, e)
    BY DEF RowsAre
  <2> HIDE DEF old
  <2> QED
    BY <1>10, <2>1, <2>2
<1>18. ASSUME NEW y \in ToSet(R), NEW t \in Tasks \ gone, SlotSeat(y, t, w.task[t])
       PROVE  TimelyIn(y, w.task[t], day)
  <2>1. PICK x \in old : y = cut(x)
    BY <1>9
  <2>2. SlotSeat(x, t, w.task[t]) /\ y.start = x.start /\ y.end = x.end /\ y.windows = new(x)
    BY <1>6, <1>18, <2>1 DEF SlotSeat
  <2> HIDE DEF old
  <2> QED
    BY <1>17, <2>2 DEF TimelyIn, Overlaps
<1>16. SeatsOK(R, day)
  BY <1>3, <1>8, <1>11, <1>12 DEF SeatsOK
<1> QED
  BY <1>11, <1>13, <1>14, <1>15, <1>16, <1>18 DEF RowsAre, R, day

-----------------------------------------------------------------------------
(* What moves do to a world. *)

\* The move of a task with a flexible slot, and of a day its series holds.
TaskMove(m, u, r) ==
  /\ m.kind = (IF m.to = None THEN "park" ELSE "shift") /\ m.task = u
  /\ r.state = "none" /\ r.kind = "flexible" /\ r.slot # None
  /\ m.to # None => /\ m.to \in Interval /\ m.to.start < m.to.end
                    /\ m.to.end - m.to.start <= r.dur

DayMove(m, s, d) ==
  /\ m.kind = "detach" /\ m.task = s /\ m.id.day = d
  /\ m.from.start = Home(s, d).start /\ m.from.end = Home(s, d).end
  /\ m.to # None => /\ m.to \in Interval /\ m.to.start < m.to.end
                    /\ m.to.end - m.to.start = Home(s, d).end - Home(s, d).start

\* Moves of whoever has a slot, one each.
MovesAre(moves, w) ==
  /\ \A m \in moves : \/ \E u \in Tasks : TaskMove(m, u, w.task[u])
                      \/ \E s \in Series : \E d \in w.held[s] : DayMove(m, s, d)
  /\ \A m, n \in moves : Subject(m) = Subject(n) => m = n

Stays(u, moves) == \A m \in moves : Subject(m) # u

LEMMA RowPuts ==
  ASSUME NEW r \in Row
  PROVE  /\ \A slot \in Interval \cup {None}, clock \in Int \cup {None} :
              [r EXCEPT !.slot = slot, !.clock = clock] \in Row
         /\ [r EXCEPT !.state = "problematic", !.clock = None, !.slot = None, !.asked = FALSE] \in Row
BY DEF Row

LEMMA AbsentIsRow == Absent \in Row /\ RowOK(Absent)
BY NoneAssumption DEF Absent, Row, RowOK

LEMMA ShiftedOK ==
  ASSUME NEW r, RowOK(r), NEW m, NEW u, TaskMove(m, u, r), m.to # None
  PROVE  /\ RowOK(Shifted(r, m)) /\ Shifted(r, m).state = "none" /\ Shifted(r, m).slot = m.to
         /\ Shifted(r, m).status = r.status /\ Shifted(r, m).kind = r.kind
<1> DEFINE to == m.to
           clock == IF r.slot.start < now THEN r.clock ELSE to.start
           new == [r EXCEPT !.slot = to, !.clock = clock]
<1>1. r \in Row /\ to \in Interval /\ to.start < to.end /\ to.end - to.start <= r.dur
      /\ r.state = "none" /\ r.clock \in Int \cup {None} /\ r.clock # None
  BY DEF TaskMove, RowOK, Row
<1>2. clock \in Int \cup {None} /\ clock # None
  BY <1>1, InputAssumption DEF Interval
<1>3. Shifted(r, m) = new
  BY DEF Shifted
<1> HIDE DEF to, clock
<1>4. new \in Row
  BY <1>1, <1>2, RowPuts
<1>5. /\ new.slot = to /\ new.clock = clock /\ new.state = r.state /\ new.status = r.status
      /\ new.kind = r.kind /\ new.dur = r.dur
  BY <1>1 DEF Row
<1> HIDE DEF new
<1> QED
  BY <1>1, <1>2, <1>3, <1>4, <1>5 DEF RowOK, to

LEMMA ParkOK ==
  ASSUME NEW r, RowOK(r)
  PROVE  /\ RowOK(Park(r)) /\ Park(r).state = "problematic"
         /\ Park(r).slot = None /\ Park(r).clock = None
         /\ Park(r).status = r.status /\ Park(r).kind = r.kind
<1> DEFINE new == Park(r)
<1>1. r \in Row
  BY DEF RowOK
<1>2. new \in Row
  BY <1>1, RowPuts DEF Park
<1>3. /\ new.slot = None /\ new.state = "problematic" /\ new.status = r.status /\ new.kind = r.kind
      /\ new.clock = None
  BY <1>1 DEF Row, Park
<1> HIDE DEF new
<1> QED
  BY <1>2, <1>3 DEF RowOK, new

LEMMA DayCopyOK ==
  ASSUME NEW m, NEW s \in Series, NEW d \in Days, DayMove(m, s, d)
  PROVE  /\ RowOK(DayCopy(m)) /\ DayCopy(m).slot = m.to
         /\ DayCopy(m).state = IF m.to = None THEN "problematic" ELSE "none"
         /\ DayCopy(m).status = "todo" /\ DayCopy(m).kind = "flexible"
<1> DEFINE to == m.to
           len == m.from.end - m.from.start
           new == [Absent EXCEPT !.state = IF to = None THEN "problematic" ELSE "none",
                     !.dur = len, !.slot = to, !.clock = IF to = None THEN None ELSE to.start,
                     !.parkedDay = m.id.day, !.was = m.from.start]
<1>1. d \in Int
  BY AllDays
<1>2. len \in Nat \ {0} /\ m.id.day \in Int /\ m.from.start \in Int
  BY <1>1, HomesAre DEF DayMove, Interval
<1>3. to \in Interval \cup {None} /\ (to # None => to.start < to.end /\ to.end - to.start = len)
  BY DEF DayMove
<1>4. DayCopy(m) = new
  BY DEF DayCopy
<1>5. None \notin Int /\ None \notin Interval
  BY NoneAssumption, InputAssumption DEF Interval
<1>6. to # None => to.start \in Int /\ to.end \in Int
  BY <1>3 DEF Interval
<1> DEFINE day == m.id.day
           was == m.from.start
<1>10. day \in Int /\ was \in Int
  BY <1>2
<1> HIDE DEF to, len, day, was
<1>7. /\ new.slot = to /\ new.clock = (IF to = None THEN None ELSE to.start)
      /\ new.state = (IF to = None THEN "problematic" ELSE "none")
      /\ new.status = "todo" /\ new.kind = "flexible" /\ new.dur = len
  BY DEF Absent
<1>8. new \in Row
  BY <1>2, <1>3, <1>6, <1>10 DEF Absent, Row, day, was
<1> HIDE DEF new
<1>9. RowOK(new)
  BY <1>2, <1>3, <1>5, <1>6, <1>7, <1>8 DEF RowOK
<1> QED
  BY <1>4, <1>7, <1>9 DEF to

LEMMA JoinedOnce ==
  ASSUME NEW A, NEW s \in Seq(A), NEW t \in Seq(A), IsInjective(s), IsInjective(t),
         ToSet(s) \cap ToSet(t) = {}
  PROVE  IsInjective(s \o t)
<1>1. /\ s \o t \in Seq(A) /\ Len(s \o t) = Len(s) + Len(t) /\ Len(s) \in Nat /\ Len(t) \in Nat
      /\ DOMAIN s = 1 .. Len(s) /\ DOMAIN t = 1 .. Len(t) /\ DOMAIN (s \o t) = 1 .. Len(s \o t)
      /\ \A i \in 1 .. (Len(s) + Len(t)) :
           (s \o t)[i] = IF i <= Len(s) THEN s[i] ELSE t[i - Len(s)]
  BY ConcatProperties, LenProperties
<1> DEFINE u == s \o t
           L == Len(s)
           M == Len(t)
<1> HIDE DEF u, L, M
<1>2. /\ L \in Nat /\ M \in Nat /\ DOMAIN u = 1 .. (L + M) /\ DOMAIN s = 1 .. L /\ DOMAIN t = 1 .. M
      /\ \A i \in 1 .. (L + M) : u[i] = IF i <= L THEN s[i] ELSE t[i - L]
  BY <1>1 DEF u, L, M
<1>3. \A i \in 1 .. L, j \in 1 .. M : s[i] # t[j]
  BY <1>2 DEF ToSet
<1>4. /\ \A i, j \in 1 .. L : s[i] = s[j] => i = j
      /\ \A i, j \in 1 .. M : t[i] = t[j] => i = j
  BY <1>2 DEF IsInjective
<1>5. ASSUME NEW i \in 1 .. (L + M), NEW j \in 1 .. (L + M), u[i] = u[j] PROVE i = j
  <2>1. CASE i <= L /\ j <= L
    BY <1>2, <2>1, <1>4, <1>5
  <2>2. CASE i <= L /\ ~(j <= L)
    BY <1>2, <2>2, <1>3, <1>5
  <2>3. CASE ~(i <= L) /\ j <= L
    BY <1>2, <2>3, <1>3, <1>5
  <2>4. CASE ~(i <= L) /\ ~(j <= L)
    BY <1>2, <2>4, <1>4, <1>5
  <2> QED
    BY <2>1, <2>2, <2>3, <2>4
<1>6. IsInjective(u)
  BY <1>2, <1>5 DEF IsInjective
<1> QED
  BY <1>6 DEF u

LEMMA TasksOf ==
  /\ \A s \in Series, d \in Days : <<s, d>> \in Tasks
  /\ \A s \in Series, d \in Days : <<s, d>> \in Copies
BY DEF Tasks, Copies

\* The subjects of moves, and what the moves make of a world.
LEMMA MovesMade ==
  ASSUME NEW w, Shape(w), NEW moves, MovesAre(moves, w)
  PROVE  /\ \A u \in Tasks : Stays(u, moves) => AllMoved(w, moves).task[u] = w.task[u]
         /\ \A m \in moves : /\ Subject(m) \in Tasks
                             /\ AllMoved(w, moves).task[Subject(m)] = Moved(w.task[Subject(m)], m)
         /\ \A s \in Series, d \in Days :
              d \in AllMoved(w, moves).held[s] <=> d \in w.held[s] /\ Stays(<<s, d>>, moves)
         /\ \A m \in moves, u \in Tasks : TaskMove(m, u, w.task[u]) => Subject(m) = u
         /\ \A m \in moves : \A s, d : DayMove(m, s, d) => Subject(m) = <<s, d>>
         /\ Shape(AllMoved(w, moves))
<1> DEFINE v == AllMoved(w, moves)
           left == { Subject(m) : m \in { x \in moves : x.kind = "detach" } }
           new == [t \in Tasks |->
                     IF \E m \in moves : Subject(m) = t
                     THEN Moved(w.task[t], CHOOSE m \in moves : Subject(m) = t) ELSE w.task[t]]
           keeps == [s \in Series |-> { d \in w.held[s] : <<s, d>> \notin left }]
<1>0. /\ w.task \in [Tasks -> Row] /\ w.held \in [Series -> SUBSET Days] /\ w.born \in Seq(Tasks)
      /\ \A t \in Tasks : RowOK(w.task[t])
      /\ \A s \in Series, d \in Days : d \in w.held[s] <=> w.task[<<s, d>>].state = "absent"
      /\ IsInjective(w.born)
      /\ ToSet(w.born) = { t \in Tasks : w.task[t].state \notin {"absent", "deleted"} }
  BY DEF Shape, Worlds
<1>1. v = [task |-> new, held |-> keeps, born |-> w.born \o SetToSeq(left)]
  BY DEF AllMoved
<1>2. \A m \in moves, u \in Tasks : TaskMove(m, u, w.task[u]) => Subject(m) = u /\ m.kind # "detach"
  BY DEF TaskMove, Subject
<1>3. \A m \in moves : \A s, d : DayMove(m, s, d) => Subject(m) = <<s, d>> /\ m.kind = "detach"
  BY DEF DayMove, Subject
<1>4. ASSUME NEW m \in moves
      PROVE  \/ \E u \in Tasks : TaskMove(m, u, w.task[u]) /\ Subject(m) = u /\ m.kind # "detach"
             \/ \E s \in Series, d \in Days : /\ d \in w.held[s] /\ DayMove(m, s, d)
                                              /\ Subject(m) = <<s, d>> /\ m.kind = "detach"
  <2>1. CASE \E u \in Tasks : TaskMove(m, u, w.task[u])
    BY <1>2, <2>1
  <2>2. CASE \E s \in Series : \E d \in w.held[s] : DayMove(m, s, d)
    <3>0. PICK s \in Series : \E d \in w.held[s] : DayMove(m, s, d)
      BY <2>2
    <3>1. PICK d \in w.held[s] : DayMove(m, s, d)
      BY <3>0
    <3>2. d \in Days
      BY <1>0
    <3> QED
      BY <1>3, <3>1, <3>2
  <2> QED
    BY <2>1, <2>2 DEF MovesAre
<1>5. \A m \in moves : Subject(m) \in Tasks
  BY <1>4, TasksOf
<1>6. ASSUME NEW m \in moves PROVE new[Subject(m)] = Moved(w.task[Subject(m)], m)
  <2> DEFINE n == CHOOSE x \in moves : Subject(x) = Subject(m)
  <2>1. n \in moves /\ Subject(n) = Subject(m)
    OBVIOUS
  <2>2. n = m
    BY <2>1 DEF MovesAre
  <2> QED
    BY <1>5, <2>2
<1>7. \A u \in Tasks : Stays(u, moves) => new[u] = w.task[u]
  BY DEF Stays
<1>8. ASSUME NEW s \in Series, NEW d \in Days
      PROVE  d \in keeps[s] <=> d \in w.held[s] /\ Stays(<<s, d>>, moves)
  <2>1. <<s, d>> \in left <=> \E m \in moves : m.kind = "detach" /\ Subject(m) = <<s, d>>
    OBVIOUS
  <2>2. ASSUME d \in w.held[s], NEW m \in moves, Subject(m) = <<s, d>> PROVE m.kind = "detach"
    BY <2>2, <1>0, <1>4 DEF TaskMove
  <2>3. d \in keeps[s] <=> d \in w.held[s] /\ <<s, d>> \notin left
    OBVIOUS
  <2> HIDE DEF keeps, left
  <2> QED
    BY <2>1, <2>2, <2>3 DEF Stays
<1>9. \A x \in left : \E s \in Series, d \in Days : x = <<s, d>> /\ d \in w.held[s]
                         /\ \E m \in moves : Subject(m) = x
  BY <1>4
<1>10. IsFiniteSet(left)
  <2>1. IsFiniteSet(Series \X Days)
    <3>1. IsFiniteSet(Days)
      BY CalendarAssumption, FS_Interval
    <3> QED
      BY <3>1, CalendarAssumption, FS_Product
  <2>2. left \subseteq Series \X Days
    BY <1>9
  <2> HIDE DEF left
  <2> QED
    BY <2>1, <2>2, FS_Subset
<1> DEFINE added == SetToSeq(left)
<1>11. added \in Seq(left) /\ ToSet(added) = left /\ IsInjective(added)
  <2> HIDE DEF left
  <2> QED
    BY <1>10, Listed
<1>12. left \subseteq Tasks
  BY <1>9, TasksOf
<1>13. added \in Seq(Tasks)
  <2> DEFINE N == Len(added)
  <2>1. N \in Nat /\ DOMAIN added = 1 .. N /\ added \in [1 .. N -> left]
    <3> HIDE DEF left, added
    <3> QED
      BY <1>11, LenProperties
  <2> HIDE DEF left, added, N
  <2>2. added \in [1 .. N -> Tasks]
    BY <1>12, <2>1
  <2> QED
    BY <2>1, <2>2, IsASeq
<1>14. \A x \in left : w.task[x].state = "absent"
  <2> HIDE DEF left
  <2> QED
    BY <1>0, <1>9
<1> HIDE DEF added, left
<1>15. ToSet(w.born) \cap ToSet(added) = {}
  BY <1>0, <1>11, <1>12, <1>14
<1> DEFINE born1 == w.born \o added
<1>16. born1 \in Seq(Tasks) /\ ToSet(born1) = ToSet(w.born) \cup left /\ IsInjective(born1)
  <2>1. w.born \in Seq(Tasks)
    BY <1>0
  <2>2. born1 \in Seq(Tasks) /\ ToSet(born1) = ToSet(w.born) \cup ToSet(added)
    BY <1>13, <2>1, Joined
  <2>3. IsInjective(born1)
    BY <1>0, <1>11, <1>13, <1>15, JoinedOnce
  <2> HIDE DEF born1
  <2> QED
    BY <1>11, <2>2, <2>3
<1>17. ASSUME NEW u \in Tasks
       PROVE  /\ RowOK(new[u])
              /\ Stays(u, moves) \/ (new[u].state \notin {"absent", "deleted"}
                                      /\ (u \in left \/ w.task[u].state \notin {"absent", "deleted"}))
  <2>1. CASE Stays(u, moves)
    BY <1>0, <1>7, <2>1
  <2>2. CASE ~Stays(u, moves)
    <3>1. PICK m \in moves : Subject(m) = u
      BY <2>2 DEF Stays
    <3>2. new[u] = Moved(w.task[u], m)
      BY <1>6, <3>1
    <3>3. CASE \E x \in Tasks : TaskMove(m, x, w.task[x]) /\ Subject(m) = x /\ m.kind # "detach"
      <4>1. TaskMove(m, u, w.task[u])
        BY <3>1, <3>3
      <4>2. new[u] = IF m.to = None THEN Park(w.task[u]) ELSE Shifted(w.task[u], m)
        BY <3>2, <4>1 DEF Moved, TaskMove
      <4>3. RowOK(w.task[u]) /\ w.task[u].state = "none"
        BY <1>0, <4>1 DEF TaskMove
      <4> HIDE DEF new
      <4>4. CASE m.to = None
        BY <4>2, <4>3, <4>4, ParkOK
      <4>5. CASE m.to # None
        BY <4>2, <4>5, <4>1, <4>3, ShiftedOK
      <4> QED
        BY <4>4, <4>5
    <3>4. CASE \E s \in Series, d \in Days : /\ d \in w.held[s] /\ DayMove(m, s, d)
                                             /\ Subject(m) = <<s, d>> /\ m.kind = "detach"
      <4>1. PICK s \in Series, d \in Days : /\ d \in w.held[s] /\ DayMove(m, s, d)
                                            /\ Subject(m) = <<s, d>> /\ m.kind = "detach"
        BY <3>4
      <4>2. new[u] = DayCopy(m)
        BY <3>2, <4>1 DEF Moved
      <4>3. u \in left
        BY <3>1, <4>1 DEF left
      <4>4. RowOK(DayCopy(m)) /\ DayCopy(m).state \in {"problematic", "none"}
        BY <4>1, DayCopyOK
      <4> HIDE DEF new
      <4> QED
        BY <4>2, <4>3, <4>4
    <3> QED
      BY <1>4, <3>3, <3>4
  <2> QED
    BY <2>1, <2>2
<1>18. Shape(v)
  <2>0. v = [task |-> new, held |-> keeps, born |-> born1]
    BY <1>1 DEF added
  <2>1. v.task = new /\ v.held = keeps /\ v.born = born1
    <3> HIDE DEF new, keeps, born1, v
    <3> QED
      BY <2>0
  <2>2. new \in [Tasks -> Row] /\ keeps \in [Series -> SUBSET Days]
    BY <1>17, <1>0 DEF RowOK
  <2>3. v \in Worlds
    <3> HIDE DEF new, keeps, born1, v
    <3> QED
      BY <1>16, <2>0, <2>2 DEF Worlds
  <2>4. ASSUME NEW s \in Series, NEW d \in Days
        PROVE  d \in keeps[s] <=> new[<<s, d>>].state = "absent"
    <3>1. <<s, d>> \in Tasks
      BY TasksOf
    <3>2. CASE Stays(<<s, d>>, moves)
      <4>1. new[<<s, d>>] = w.task[<<s, d>>]
        BY <1>7, <3>1, <3>2
      <4> HIDE DEF new, keeps
      <4> QED
        BY <1>0, <1>8, <3>2, <4>1
    <3>3. CASE ~Stays(<<s, d>>, moves)
      BY <1>17, <3>1, <3>3, <1>8
    <3> QED
      BY <3>2, <3>3
  <2>5. ToSet(born1) = { t \in Tasks : new[t].state \notin {"absent", "deleted"} }
    <3>1. ASSUME NEW u \in Tasks
          PROVE  u \in ToSet(born1) <=> new[u].state \notin {"absent", "deleted"}
      <4>1. u \in left => ~Stays(u, moves)
        BY <1>9 DEF Stays
      <4> HIDE DEF born1, new
      <4> QED
        BY <1>0, <1>7, <1>16, <1>17, <3>1, <4>1
    <3>2. ToSet(born1) \subseteq Tasks
      BY <1>0, <1>12, <1>16
    <3> HIDE DEF born1, new
    <3> QED
      BY <3>1, <3>2
  <2> HIDE DEF new, keeps, born1, v
  <2> QED
    BY <1>16, <1>17, <2>1, <2>3, <2>4, <2>5 DEF Shape
<1>19. v.task = new /\ v.held = keeps
  BY <1>1
<1> HIDE DEF new, keeps
<1> QED
  BY <1>2, <1>3, <1>5, <1>6, <1>7, <1>8, <1>18, <1>19

-----------------------------------------------------------------------------
(* The moves of a plan, in the world it was made in. *)

\* Whoever has to move is a task with a flexible slot or a held day of a series.
LEMMA MoverIs ==
  ASSUME NEW w, Shape(w), NEW gone, NEW reach, NEW all, RowsAre(all, w, gone, reach),
         NEW x \in ToSet(all), x.role \in {"flexible", "series"}
  PROVE  \/ \E u \in Tasks \ gone : /\ SlotSeat(x, u, w.task[u]) /\ HasSeat(w.task[u])
                                    /\ w.task[u].state = "none" /\ w.task[u].kind = "flexible"
                                    /\ x.role = "flexible"
         \/ \E s \in Series : \E d \in w.held[s] : DaySeat(x, s, d)
<1>1. ASSUME NEW u \in Tasks \ gone, TaskPart(x, u, w.task[u])
      PROVE  /\ SlotSeat(x, u, w.task[u]) /\ HasSeat(w.task[u])
             /\ w.task[u].state = "none" /\ w.task[u].kind = "flexible"
             /\ x.role = "flexible"
  BY <1>1, SlotRoles DEF Shape, TaskPart, ElapsedPart, ClockSeat, SlotSeat
<1> QED
  BY <1>1 DEF RowsAre

\* What a plan made among `rows`, the seats of everyone but `t` and `who`, leaves.
PlanFor(w, t, who, all, rows, reach) ==
  /\ Shape(w) /\ w.task[t].state # "absent" /\ t \in Tasks
  /\ RowsAre(all, w, {t}, reach) /\ SeatsOK(rows, reach)
  /\ ToSet(rows) = { r \in ToSet(all) : r.task # who }

LEMMA MoveOfMover ==
  ASSUME NEW w, NEW t, NEW who, NEW all, NEW rows, NEW reach, PlanFor(w, t, who, all, rows, reach),
         NEW i, NEW moves, NEW X, NEW at, Rearranged(i, moves, X, at, rows, reach),
         NEW x \in ToSet(rows), x.id \in X, NEW m, m = MoveFor(x, NewPlace(x, at))
  PROVE  \/ \E u \in Tasks \ {t} : /\ TaskMove(m, u, w.task[u]) /\ Subject(m) = u
                                   /\ x.id = SeatId(u, "slot", 0) /\ m.to = NewPlace(x, at)
         \/ \E s \in Series, d \in Days : /\ d \in w.held[s] /\ DayMove(m, s, d)
                                          /\ Subject(m) = <<s, d>> /\ x.id = SeatId(s, "day", d)
                                          /\ m.to = NewPlace(x, at)
<1> DEFINE h == NewPlace(x, at)
<1>1. x \in ToSet(all) /\ x.role \in {"flexible", "series"} /\ SeatOK(x, reach)
  BY DEF PlanFor, Rearranged, SeatsOK
<1>2. h # None => h \in Interval /\ h.end - h.start = x.end - x.start /\ h.start < h.end
  <2>1. ASSUME h # None PROVE SeatedAt(x, h, reach)
    BY <2>1 DEF NewPlace, Rearranged, Sound
  <2>2. x.start \in Int /\ x.end \in Int /\ x.start < x.end
    BY <1>1 DEF SeatOK
  <2> HIDE DEF h
  <2> QED
    BY <2>1, <2>2 DEF SeatedAt, Interval
<1>3. Shape(w) /\ RowsAre(all, w, {t}, reach) /\ \A s \in Series : w.held[s] \subseteq Days
  BY DEF PlanFor, Shape, Worlds
<1>4. /\ m.to = h /\ m.id = x.id /\ m.task = x.task /\ m.from = Span(x)
      /\ m.kind = CASE x.role = "series" -> "detach"
                    [] x.role # "series" /\ h = None -> "park"
                    [] OTHER -> "shift"
  BY DEF MoveFor
<1> HIDE DEF h
<1>5. CASE \E u \in Tasks \ {t} : /\ SlotSeat(x, u, w.task[u]) /\ HasSeat(w.task[u])
                                  /\ w.task[u].state = "none" /\ w.task[u].kind = "flexible"
                                  /\ x.role = "flexible"
  <2>1. PICK u \in Tasks \ {t} : /\ SlotSeat(x, u, w.task[u]) /\ HasSeat(w.task[u])
                                 /\ w.task[u].state = "none" /\ w.task[u].kind = "flexible"
                                 /\ x.role = "flexible"
    BY <1>5
  <2> DEFINE r == w.task[u]
  <2>2. RowOK(r) /\ r.state = "none" /\ r.kind = "flexible" /\ SlotSeat(x, u, r)
    BY <1>3, <2>1 DEF Shape
  <2> HIDE DEF r
  <2>3. r.slot # None /\ x.id = SeatId(u, "slot", 0) /\ x.task = u
    BY <2>2 DEF SlotSeat, SlotIsOpen
  <2>4. x.end - x.start <= r.dur
    BY <2>2, <2>3, <1>1 DEF RowOK, Row, SlotSeat, SeatOK, IsBegun, Interval
  <2>5. m.kind = IF h = None THEN "park" ELSE "shift"
    BY <1>4, <2>1
  <2>6. TaskMove(m, u, r)
    BY <1>2, <1>4, <2>2, <2>3, <2>4, <2>5 DEF TaskMove
  <2>7. Subject(m) = u
    BY <1>4, <2>3, <2>5 DEF Subject
  <2>8. m.to = NewPlace(x, at)
    BY <1>4 DEF h
  <2>9. TaskMove(m, u, w.task[u])
    BY <2>6 DEF r
  <2> QED
    BY <2>3, <2>7, <2>8, <2>9
<1>6. CASE \E s \in Series : \E d \in w.held[s] : DaySeat(x, s, d)
  <2>0. PICK s \in Series : \E d \in w.held[s] : DaySeat(x, s, d)
    BY <1>6
  <2>1. PICK d \in w.held[s] : DaySeat(x, s, d)
    BY <2>0
  <2>2. d \in Days
    BY <1>3
  <2>3. m.kind = "detach" /\ m.task = s /\ m.id = SeatId(s, "day", d)
    BY <1>4, <2>1 DEF DaySeat
  <2>4. m.id.day = d
    BY <2>3 DEF SeatId
  <2>5. m.from.start = Home(s, d).start /\ m.from.end = Home(s, d).end
    BY <1>4, <2>1 DEF DaySeat, Span
  <2>6. DayMove(m, s, d)
    BY <1>2, <1>4, <2>1, <2>3, <2>4, <2>5 DEF DayMove, DaySeat
  <2>7. Subject(m) = <<s, d>>
    BY <2>3, <2>4 DEF Subject
  <2>9. m.to = NewPlace(x, at)
    BY <1>4 DEF h
  <2>8. x.id = SeatId(s, "day", d) /\ d \in w.held[s]
    BY <2>1 DEF DaySeat
  <2> QED
    BY <2>2, <2>6, <2>7, <2>8, <2>9
<1> QED
  BY <1>1, <1>3, <1>5, <1>6, MoverIs

\* A task that is in its time is moved on its day, and to a place in its time.
MovesInDay(m, r) ==
  m.to # None /\ InItsTime(r) => DayOf(m.to.start) = DayOf(r.slot.start) /\ InTime(m.to, r)

KeepsToDay(moves, w, t) ==
  \A m \in moves, u \in Tasks \ {t} : TaskMove(m, u, w.task[u]) => MovesInDay(m, w.task[u])

\* A claim of windows of a day each, or of an interval in the one day it may use.
DayClaim(i, claim, reach) ==
  /\ DayWindows(claim.windows) /\ WindowsIn(claim.windows, reach)
  /\ i = claim.interval /\ i # None =>
       \E d \in Int : /\ reach = DaySpan(d) /\ i \in Interval
                     /\ i.start >= reach.start /\ i.end <= reach.end

LEMMA MoversKeepDay ==
  ASSUME NEW w, NEW t, NEW who, NEW all, NEW rows, NEW reach, PlanFor(w, t, who, all, rows, reach),
         NEW i, NEW moves, NEW X, NEW at, Rearranged(i, moves, X, at, rows, reach),
         NEW claim, AllAround(i, at, claim, rows, reach), DayClaim(i, claim, reach)
  PROVE  KeepsToDay(moves, w, t)
<1> SUFFICES ASSUME NEW m \in moves, NEW u \in Tasks \ {t}, TaskMove(m, u, w.task[u]),
                    m.to # None, InItsTime(w.task[u])
             PROVE  DayOf(m.to.start) = DayOf(w.task[u].slot.start) /\ InTime(m.to, w.task[u])
  BY DEF KeepsToDay, MovesInDay
<1> DEFINE r == w.task[u]
           h == m.to
<1>1. PICK x \in ToSet(rows) : x.id \in X /\ m = MoveFor(x, NewPlace(x, at))
  BY DEF Rearranged
<1>2. /\ m.to = NewPlace(x, at) /\ m.task = x.task
      /\ m.kind = CASE x.role = "series" -> "detach"
                    [] x.role # "series" /\ NewPlace(x, at) = None -> "park"
                    [] OTHER -> "shift"
  BY <1>1 DEF MoveFor
<1>3. m.task = u /\ m.kind # "detach"
  BY DEF TaskMove
<1>4. /\ x \in ToSet(all) /\ x.role \in {"flexible", "series"} /\ SeatOK(x, reach)
      /\ Shape(w) /\ RowsAre(all, w, {t}, reach) /\ reach \in Interval
  BY <1>1 DEF PlanFor, Rearranged, SeatsOK
<1>5. SlotSeat(x, u, r)
  <2>1. ~\E s \in Series : \E d \in w.held[s] : DaySeat(x, s, d)
    BY <1>2, <1>3 DEF DaySeat
  <2>2. PICK v \in Tasks \ {t} : SlotSeat(x, v, w.task[v])
    BY <1>4, <2>1, MoverIs
  <2>3. v = u
    BY <1>2, <1>3, <2>2 DEF SlotSeat
  <2> QED
    BY <2>2, <2>3
<1>6. RowOK(r) /\ r.slot # None /\ r.slot \in Interval /\ r.slot.start < r.slot.end
      /\ r.phase \in Phases \cup {None} /\ r.slot.start \in Int /\ r.slot.end \in Int
  BY <1>4, <1>5 DEF Shape, RowOK, Row, SlotSeat, SlotIsOpen, Interval
<1>7. x.id \in DOMAIN at /\ h = at[x.id]
  BY <1>2 DEF NewPlace
<1>8. /\ h \in Interval /\ h.end - h.start = x.end - x.start
      /\ h.start >= reach.start /\ h.end <= reach.end
      /\ x.windows # {} => FitsWindow(h, x.windows)
  BY <1>1, <1>7 DEF Rearranged, Sound, SeatedAt
<1>9. Around(i, x, h, claim, reach)
  BY <1>1, <1>7 DEF AllAround
<1>10. TimelyIn(x, r, reach)
  BY <1>4, <1>5 DEF RowsAre
<1>11. /\ x.start \in Int /\ x.end \in Int /\ x.start < x.end
       /\ x.start >= r.slot.start /\ x.end = r.slot.end
  <2>1. SeatOK(x, reach) /\ SlotSeat(x, u, r)
    BY <1>4, <1>5
  <2> HIDE DEF r
  <2> QED
    BY <1>6, <2>1 DEF SeatOK, SlotSeat, IsBegun
<1>12. InItsTime(r) /\ m.to = h
  OBVIOUS
<1> HIDE DEF r, h
<1>13. /\ reach.start \in Int /\ reach.end \in Int /\ h.start \in Int /\ h.end \in Int
       /\ h.start < h.end
  BY <1>4, <1>8, <1>11 DEF Interval
<1>14. /\ Overlaps(x, reach)
       /\ \E e \in Int : /\ Overlaps(x, DaySpan(e))
                         /\ h.start >= DaySpan(e).start /\ h.end <= DaySpan(e).end
  <2>1. CASE \E v \in claim.windows : Overlaps(x, v) /\ h.start >= v.start /\ h.end <= v.end
    <3>1. PICK v \in claim.windows : Overlaps(x, v) /\ h.start >= v.start /\ h.end <= v.end
      BY <2>1
    <3>2. v \in Interval /\ v.start >= reach.start /\ v.end <= reach.end
      BY DEF DayClaim, DayWindows, WindowsIn
    <3>3. PICK e \in Int : v.start >= DaySpan(e).start /\ v.end <= DaySpan(e).end
      BY DEF DayClaim, DayWindows
    <3>4. /\ v.start \in Int /\ v.end \in Int
          /\ DaySpan(e).start \in Int /\ DaySpan(e).end \in Int
      BY <3>2, DaySpans DEF Interval
    <3>5. x.start < v.end /\ v.start < x.end
      BY <3>1 DEF Overlaps
    <3>6. Overlaps(x, reach) /\ Overlaps(x, DaySpan(e))
      BY <1>11, <1>13, <3>2, <3>3, <3>4, <3>5 DEF Overlaps
    <3>7. h.start >= DaySpan(e).start /\ h.end <= DaySpan(e).end
      BY <1>13, <3>1, <3>3, <3>4
    <3> QED
      BY <3>6, <3>7
  <2>2. CASE i = claim.interval /\ i # None /\ (Overlaps(x, i) \/ Overlaps(x, reach))
    <3>1. PICK d \in Int : /\ reach = DaySpan(d) /\ i \in Interval
                           /\ i.start >= reach.start /\ i.end <= reach.end
      BY <2>2 DEF DayClaim
    <3>2. i.start \in Int /\ i.end \in Int
      BY <3>1 DEF Interval
    <3>3. Overlaps(x, reach)
      BY <1>11, <1>13, <2>2, <3>1, <3>2 DEF Overlaps
    <3> QED
      BY <1>8, <3>1, <3>3
  <2> QED
    BY <1>9, <2>1, <2>2 DEF Around
<1>15. PICK e \in Int : /\ Overlaps(x, DaySpan(e))
                        /\ h.start >= DaySpan(e).start /\ h.end <= DaySpan(e).end
  BY <1>14
<1>16. PICK w0 \in HorizonWindows(r.phase) : r.slot.start >= w0.start /\ r.slot.end <= w0.end
  BY <1>12 DEF InItsTime, FitsWindow
<1>17. PICK d \in Int : w0.start >= DaySpan(d).start /\ w0.end <= DaySpan(d).end
  BY <1>6, <1>16, HorizonDays DEF DayWindows
<1>18. /\ w0.start \in Int /\ w0.end \in Int /\ DaySpan(d).start \in Int /\ DaySpan(d).end \in Int
       /\ DaySpan(e).start \in Int /\ DaySpan(e).end \in Int
  BY <1>6, <1>16, HorizonDays, DaySpans DEF DayWindows, Interval
<1>19. r.slot.start >= DaySpan(d).start /\ r.slot.end <= DaySpan(d).end
  BY <1>6, <1>16, <1>17, <1>18
<1>20. e = d
  BY <1>6, <1>11, <1>18, <1>19, <1>15, OneDay
<1>21. DayOf(r.slot.start) = d
  BY <1>6, <1>18, <1>19, DayOfIn
<1>22. DayOf(h.start) = d
  BY <1>13, <1>15, <1>18, <1>20, DayOfIn
<1>23. InTime(h, r)
  BY <1>8, <1>10, <1>12, <1>14 DEF TimelyIn
<1> QED
  BY <1>21, <1>22, <1>23 DEF r, h

LEMMA PlanMoves ==
  ASSUME NEW w, NEW t, NEW who, NEW all, NEW rows, NEW reach, PlanFor(w, t, who, all, rows, reach),
         NEW i, NEW moves, NEW X, NEW at, Rearranged(i, moves, X, at, rows, reach)
  PROVE  MovesAre(moves, w) /\ Stays(t, moves)
<1>1. \A m \in moves : \E x \in ToSet(rows) : x.id \in X /\ m = MoveFor(x, NewPlace(x, at))
  BY DEF Rearranged
<1>2. ASSUME NEW m \in moves
      PROVE  \/ \E u \in Tasks \ {t} : TaskMove(m, u, w.task[u]) /\ Subject(m) = u
             \/ \E s \in Series, d \in Days : /\ d \in w.held[s] /\ DayMove(m, s, d)
                                              /\ Subject(m) = <<s, d>>
  <2>1. PICK x \in ToSet(rows) : x.id \in X /\ m = MoveFor(x, NewPlace(x, at))
    BY <1>1
  <2>2. \/ \E u \in Tasks \ {t} : /\ TaskMove(m, u, w.task[u]) /\ Subject(m) = u
                                    /\ x.id = SeatId(u, "slot", 0) /\ m.to = NewPlace(x, at)
        \/ \E s \in Series, d \in Days : /\ d \in w.held[s] /\ DayMove(m, s, d)
                                         /\ Subject(m) = <<s, d>> /\ x.id = SeatId(s, "day", d)
                                         /\ m.to = NewPlace(x, at)
    BY <2>1, MoveOfMover
  <2> QED
    BY <2>2
<1>3. /\ \A s \in Series, d \in Days : d \in w.held[s] <=> w.task[<<s, d>>].state = "absent"
      /\ w.task[t].state # "absent"
  BY DEF PlanFor, Shape
<1>4. Stays(t, moves)
  BY <1>2, <1>3 DEF Stays
<1>5. ASSUME NEW m \in moves, NEW n \in moves, Subject(m) = Subject(n) PROVE m = n
  <2>1. PICK x \in ToSet(rows) : x.id \in X /\ m = MoveFor(x, NewPlace(x, at))
    BY <1>1
  <2>2. PICK y \in ToSet(rows) : y.id \in X /\ n = MoveFor(y, NewPlace(y, at))
    BY <1>1
  <2>3. \/ \E u \in Tasks \ {t} : TaskMove(m, u, w.task[u]) /\ Subject(m) = u /\ x.id = SeatId(u, "slot", 0)
        \/ \E s \in Series, d \in Days : /\ d \in w.held[s] /\ Subject(m) = <<s, d>>
                                         /\ x.id = SeatId(s, "day", d)
    BY <2>1, MoveOfMover
  <2>4. \/ \E u \in Tasks \ {t} : TaskMove(n, u, w.task[u]) /\ Subject(n) = u /\ y.id = SeatId(u, "slot", 0)
        \/ \E s \in Series, d \in Days : /\ d \in w.held[s] /\ Subject(n) = <<s, d>>
                                         /\ y.id = SeatId(s, "day", d)
    BY <2>2, MoveOfMover
  <2>5. \A k, u : TaskMove(k, u, w.task[u]) => w.task[u].state = "none"
    BY DEF TaskMove
  <2>6. x.id = y.id
    <3>1. \A s, z \in Series, d, e \in Days : <<s, d>> = <<z, e>> => s = z /\ d = e
      OBVIOUS
    <3> QED
      BY <1>3, <1>5, <2>3, <2>4, <2>5, <3>1
  <2>7. x = y
    BY <2>6 DEF PlanFor, SeatsOK
  <2> QED
    BY <2>1, <2>2, <2>7
<1>6. ASSUME NEW m \in moves
      PROVE  \/ \E u \in Tasks : TaskMove(m, u, w.task[u])
             \/ \E s \in Series : \E d \in w.held[s] : DayMove(m, s, d)
  BY <1>2
<1> QED
  BY <1>4, <1>5, <1>6 DEF MovesAre

-----------------------------------------------------------------------------
(* Who may not share time with whom. *)

Open(r) ==
  r.state \in {"none", "resolved"} /\ r.status # "done" /\ r.slot # None /\ r.slot.end > now

\* Put on top once, or back from done: fixed, or started and moved since.
Excused(t, r) ==
  t \in layered \/ (t \in back /\ (r.kind = "fixed" \/ r.slot.start # r.clock))

Firm(t, r) == Open(r) /\ ~Excused(t, r)

Apart(w, gone) ==
  /\ \A t, u \in Tasks \ gone :
       t # u /\ Firm(t, w.task[t]) /\ Firm(u, w.task[u])
         => ~Overlaps(w.task[t].slot, w.task[u].slot)
  /\ \A t \in Tasks \ gone, s \in Series, d \in Days :
       Firm(t, w.task[t]) /\ d \in w.held[s] /\ Home(s, d).end > now
         => ~Overlaps(w.task[t].slot, Home(s, d))

\* Only tasks that were put on top are resolved.
TopsKnown(w) == \A u \in Tasks : w.task[u].state = "resolved" => u \in layered

\* The rows of everyone but `t` after the moves.
Obeys(v, w, t, moves) ==
  \A u \in Tasks \ {t} :
    /\ Stays(u, moves) => v.task[u] = w.task[u]
    /\ \A m \in moves : Subject(m) = u => v.task[u] = Moved(w.task[u], m)

\* Whoever keeps its seat is in nobody's way.
LEMMA StaySeat ==
  ASSUME NEW rows, NEW reach, SeatsOK(rows, reach),
         NEW i, NEW moves, NEW X, NEW at, Rearranged(i, moves, X, at, rows, reach),
         NEW y \in ToSet(rows), y.role # "resolved",
         y.id \in X => MoveFor(y, NewPlace(y, at)) \notin moves
  PROVE  /\ ~Overlaps(i, y)
         /\ \A x \in ToSet(rows) : x.id \in DOMAIN at /\ x.id # y.id => ~Overlaps(at[x.id], y)
<1>1. CASE y.id \notin X
  BY <1>1 DEF Rearranged, Sound
<1>2. CASE y.id \in X
  <2>1. NewPlace(y, at) = Span(y)
    BY <1>2 DEF Rearranged
  <2>2. Span(y) # None
    BY NoneAssumption DEF SeatsOK, SeatOK, Span, Interval
  <2>3. y.id \in DOMAIN at /\ at[y.id] = Span(y)
    BY <2>1, <2>2 DEF NewPlace
  <2>4. ~Overlaps(Span(y), i)
    BY <2>3 DEF Rearranged, Clear
  <2>5. \A k \in DOMAIN at : k # y.id => ~Overlaps(at[k], Span(y))
    BY <2>3 DEF Rearranged, Sound
  <2> QED
    BY <2>4, <2>5, SpanOverlaps, OverlapsBoth
<1> QED
  BY <1>1, <1>2

\* What overlaps a slot overlaps its seat, or what is over of it.
LEMMA SlotCovered ==
  ASSUME NEW r, RowOK(r), SlotIsOpen(r), now \in Int, NEW q \in Interval, q.start < q.end,
         Overlaps(q, r.slot), NEW t, NEW x, SlotSeat(x, t, r), ~Overlaps(q, x)
  PROVE  IsBegun(r) /\ \A y : ElapsedPart(y, t, r) => Overlaps(q, y)
<1>1. r.slot \in Interval /\ r.slot.start < r.slot.end
  BY DEF RowOK, Row, SlotIsOpen
<1>2. x.end = r.slot.end /\ x.start = IF IsBegun(r) THEN now ELSE r.slot.start
  BY DEF SlotSeat
<1>3. IsBegun(r)
  BY <1>1, <1>2 DEF Overlaps, Interval
<1>4. \A y : ElapsedPart(y, t, r) => Overlaps(q, y)
  BY <1>1, <1>2, <1>3 DEF ElapsedPart, Overlaps, Interval
<1> QED
  BY <1>3, <1>4

\* A task that stays, and is not put on top, has all of its slot left alone.
LEMMA StayingTask ==
  ASSUME NEW w, NEW t, NEW who, NEW all, NEW rows, NEW reach, PlanFor(w, t, who, all, rows, reach),
         NEW i, NEW moves, NEW X, NEW at, Rearranged(i, moves, X, at, rows, reach),
         now \in Int, TopsKnown(w), i \in Interval, i.start < i.end,
         NEW u \in Tasks \ {t}, u # who, Stays(u, moves), Firm(u, w.task[u])
  PROVE  /\ ~Overlaps(i, w.task[u].slot)
         /\ \A x \in ToSet(rows) :
              /\ x.id \in DOMAIN at /\ x.id # SeatId(u, "slot", 0) /\ x.id # SeatId(u, "elapsed", 0)
              => ~Overlaps(at[x.id], w.task[u].slot)
<1> DEFINE r == w.task[u]
<1>1. RowOK(r) /\ r.state = "none" /\ SlotIsOpen(r) /\ HasSeat(r)
  BY DEF PlanFor, Shape, Firm, Open, Excused, TopsKnown, SlotIsOpen, HasSeat
<1>2. /\ \A y \in ToSet(all) : y.task # who => y \in ToSet(rows)
      /\ \A y \in ToSet(rows) : y.role \in {"flexible", "series"} \/ y.id \notin X
  BY DEF PlanFor, Rearranged
<1>3. SeatsOK(rows, reach)
  BY DEF PlanFor
<1>4. PICK x \in ToSet(all) : SlotSeat(x, u, r)
  BY <1>1 DEF PlanFor, RowsAre
<1>5. x \in ToSet(rows) /\ x.id = SeatId(u, "slot", 0) /\ x.role = SlotRole(r) /\ x.task = u
  BY <1>2, <1>4 DEF SlotSeat
<1>6. x.role \in {"anchor", "flexible"}
  BY <1>1, <1>5, SlotRoles
<1>7. x.id \in X => MoveFor(x, NewPlace(x, at)) \notin moves
  <2> SUFFICES ASSUME x.id \in X, MoveFor(x, NewPlace(x, at)) \in moves PROVE FALSE
    OBVIOUS
  <2> DEFINE m == MoveFor(x, NewPlace(x, at))
  <2>1. x.role = "flexible"
    BY <1>2, <1>5, <1>6
  <2>2. m.task = u /\ m.kind # "detach"
    BY <1>5, <2>1 DEF MoveFor
  <2> QED
    BY <2>2 DEF Stays, Subject
<1>8. /\ ~Overlaps(i, x)
      /\ \A z \in ToSet(rows) : z.id \in DOMAIN at /\ z.id # x.id => ~Overlaps(at[z.id], x)
  BY <1>3, <1>5, <1>6, <1>7, StaySeat
<1>9. ASSUME IsBegun(r)
      PROVE  \E y \in ToSet(rows) :
               /\ ElapsedPart(y, u, r) /\ ~Overlaps(i, y)
               /\ \A z \in ToSet(rows) : z.id \in DOMAIN at /\ z.id # y.id => ~Overlaps(at[z.id], y)
  <2>1. PICK y \in ToSet(all) : ElapsedPart(y, u, r)
    BY <1>1, <1>9 DEF PlanFor, RowsAre
  <2>2. y \in ToSet(rows) /\ y.role = "elapsed" /\ y.id \notin X
    BY <1>2, <2>1 DEF ElapsedPart
  <2>3. ~Overlaps(i, y) /\ \A z \in ToSet(rows) : z.id \in DOMAIN at /\ z.id # y.id => ~Overlaps(at[z.id], y)
    BY <1>3, <2>2, StaySeat
  <2> QED
    BY <2>1, <2>2, <2>3
<1>10. \A y : ElapsedPart(y, u, r) => y.id = SeatId(u, "elapsed", 0)
  BY DEF ElapsedPart
<1> HIDE DEF r
<1>11. ASSUME NEW q \in Interval, q.start < q.end, Overlaps(q, r.slot), ~Overlaps(q, x)
       PROVE  IsBegun(r) /\ \A y : ElapsedPart(y, u, r) => Overlaps(q, y)
  BY <1>1, <1>4, <1>11, SlotCovered
<1>12. ~Overlaps(i, r.slot)
  BY <1>8, <1>9, <1>11
<1>13. ASSUME NEW z \in ToSet(rows), z.id \in DOMAIN at, z.id # SeatId(u, "slot", 0),
              z.id # SeatId(u, "elapsed", 0)
       PROVE  ~Overlaps(at[z.id], r.slot)
  <2> DEFINE q == at[z.id]
  <2>1. q \in Interval /\ q.start < q.end
    <3>1. SeatedAt(z, q, reach)
      BY <1>13 DEF Rearranged, Sound
    <3>2. z.start \in Int /\ z.end \in Int /\ z.start < z.end
      BY <1>3 DEF SeatsOK, SeatOK
    <3> HIDE DEF q
    <3> QED
      BY <3>1, <3>2 DEF SeatedAt, Interval
  <2>2. ~Overlaps(q, x)
    BY <1>5, <1>8, <1>13
  <2>3. IsBegun(r) => \E y \in ToSet(rows) : ElapsedPart(y, u, r) /\ ~Overlaps(q, y)
    BY <1>9, <1>10, <1>13
  <2> HIDE DEF q
  <2>4. ~Overlaps(q, r.slot)
    BY <1>11, <2>1, <2>2, <2>3
  <2> QED
    BY <2>4 DEF q
<1> QED
  BY <1>12, <1>13 DEF r

\* So has a series day that stays.
LEMMA StayingDay ==
  ASSUME NEW w, NEW t, NEW who, NEW all, NEW rows, NEW reach, PlanFor(w, t, who, all, rows, reach),
         NEW i, NEW moves, NEW X, NEW at, Rearranged(i, moves, X, at, rows, reach),
         NEW s \in Series, s # who, NEW d \in w.held[s], Home(s, d).end > now, Stays(<<s, d>>, moves)
  PROVE  /\ ~Overlaps(i, Home(s, d))
         /\ \A x \in ToSet(rows) :
              x.id \in DOMAIN at /\ x.id # SeatId(s, "day", d) => ~Overlaps(at[x.id], Home(s, d))
<1>1. PICK y \in ToSet(all) : DaySeat(y, s, d)
  BY DEF PlanFor, RowsAre
<1>2. /\ y \in ToSet(rows) /\ y.role = "series" /\ y.id = SeatId(s, "day", d)
      /\ y.start = Home(s, d).start /\ y.end = Home(s, d).end /\ y.task = s
  BY <1>1 DEF DaySeat, PlanFor
<1>3. y.id \in X => MoveFor(y, NewPlace(y, at)) \notin moves
  <2> SUFFICES ASSUME MoveFor(y, NewPlace(y, at)) \in moves PROVE FALSE
    OBVIOUS
  <2> DEFINE m == MoveFor(y, NewPlace(y, at))
  <2>1. m.kind = "detach" /\ m.task = s /\ m.id = SeatId(s, "day", d)
    BY <1>2 DEF MoveFor
  <2>2. m.id.day = d
    BY <2>1 DEF SeatId
  <2> QED
    BY <2>1, <2>2 DEF Stays, Subject
<1>4. SeatsOK(rows, reach)
  BY DEF PlanFor
<1>5. /\ ~Overlaps(i, y)
      /\ \A x \in ToSet(rows) : x.id \in DOMAIN at /\ x.id # y.id => ~Overlaps(at[x.id], y)
  BY <1>2, <1>3, <1>4, StaySeat
<1>6. \A q : Overlaps(q, y) <=> Overlaps(q, Home(s, d))
  BY <1>2 DEF Overlaps
<1> QED
  BY <1>2, <1>5, <1>6

\* The seat of task or day copy `u` has this id.
OwnId(u, id) ==
  \/ id = SeatId(u, "slot", 0)
  \/ \E s \in Series, d \in Days : u = <<s, d>> /\ id = SeatId(s, "day", d)

LEMMA OwnIds ==
  ASSUME NEW u, NEW z, NEW id, OwnId(u, id), u # z
  PROVE  /\ ~OwnId(z, id) /\ id # SeatId(z, "slot", 0) /\ id # SeatId(z, "elapsed", 0)
         /\ \A s \in Series, d \in Days : z = <<s, d>> => id # SeatId(s, "day", d)
<1>1. \A a, b, c, x, y, k : SeatId(a, b, c) = SeatId(x, y, k) => a = x /\ b = y /\ c = k
  BY SeatIds
<1>2. id # SeatId(z, "slot", 0) /\ id # SeatId(z, "elapsed", 0)
  BY <1>1 DEF OwnId
<1>3. \A s \in Series, d \in Days : z = <<s, d>> => id # SeatId(s, "day", d)
  BY <1>1 DEF OwnId
<1> QED
  BY <1>2, <1>3 DEF OwnId

\* Whoever is moved is seated where the plan says.
LEMMA MovedTask ==
  ASSUME NEW w, NEW t, NEW who, NEW all, NEW rows, NEW reach, PlanFor(w, t, who, all, rows, reach),
         NEW i, NEW moves, NEW X, NEW at, Rearranged(i, moves, X, at, rows, reach),
         NEW v, Obeys(v, w, t, moves),
         NEW u \in Tasks \ {t}, ~Stays(u, moves), v.task[u].slot # None
  PROVE  \E x \in ToSet(rows) : /\ x.id \in DOMAIN at /\ OwnId(u, x.id)
                                /\ v.task[u].slot = at[x.id] /\ SeatedAt(x, at[x.id], reach)
<1>1. PICK m \in moves : Subject(m) = u
  BY DEF Stays
<1>2. PICK x \in ToSet(rows) : x.id \in X /\ m = MoveFor(x, NewPlace(x, at))
  BY DEF Rearranged
<1>3. v.task[u] = Moved(w.task[u], m)
  BY <1>1 DEF Obeys
<1>4. \/ \E z \in Tasks \ {t} : /\ TaskMove(m, z, w.task[z]) /\ Subject(m) = z
                                /\ x.id = SeatId(z, "slot", 0) /\ m.to = NewPlace(x, at)
      \/ \E s \in Series, d \in Days : /\ d \in w.held[s] /\ DayMove(m, s, d)
                                       /\ Subject(m) = <<s, d>> /\ x.id = SeatId(s, "day", d)
                                       /\ m.to = NewPlace(x, at)
  BY <1>2, MoveOfMover
<1>5. OwnId(u, x.id) /\ m.to = NewPlace(x, at)
  BY <1>1, <1>4 DEF OwnId
<1>6. v.task[u].slot = m.to
  <2>1. CASE \E z \in Tasks \ {t} : TaskMove(m, z, w.task[z]) /\ Subject(m) = z
    BY <1>1, <2>1, <1>3, ParkOK, ShiftedOK DEF PlanFor, Shape, Moved, TaskMove
  <2>2. CASE \E s \in Series, d \in Days : DayMove(m, s, d)
    <3>1. PICK s \in Series, d \in Days : DayMove(m, s, d)
      BY <2>2
    <3>2. v.task[u] = DayCopy(m)
      BY <1>3, <3>1 DEF Moved, DayMove
    <3> QED
      BY <3>1, <3>2, DayCopyOK
  <2> QED
    BY <1>4, <2>1, <2>2
<1>7. x.id \in DOMAIN at /\ v.task[u].slot = at[x.id]
  BY <1>5, <1>6 DEF NewPlace
<1>8. SeatedAt(x, at[x.id], reach)
  BY <1>7 DEF Rearranged, Sound
<1> QED
  BY <1>5, <1>7, <1>8

\* After a plan nobody is in the way of the claim, of each other or of a series
\* day that stays; who was not moved was not in the way before.
LEMMA PlanKeepsApart ==
  ASSUME NEW w, NEW t, NEW who, NEW all, NEW rows, NEW reach, PlanFor(w, t, who, all, rows, reach),
         NEW i, NEW moves, NEW X, NEW at, Rearranged(i, moves, X, at, rows, reach),
         now \in Int, TopsKnown(w), i \in Interval, i.start < i.end, Apart(w, {t}),
         who \notin Tasks \ {t}, NEW v, Obeys(v, w, t, moves)
  PROVE  /\ \A u \in Tasks \ {t} : Firm(u, v.task[u]) => ~Overlaps(i, v.task[u].slot)
         /\ \A u, z \in Tasks \ {t} :
              u # z /\ Firm(u, v.task[u]) /\ Firm(z, v.task[z])
                => ~Overlaps(v.task[u].slot, v.task[z].slot)
         /\ \A s \in Series, d \in Days :
              s # who /\ d \in w.held[s] /\ Stays(<<s, d>>, moves) /\ Home(s, d).end > now =>
                /\ ~Overlaps(i, Home(s, d))
                /\ \A u \in Tasks \ {t} : Firm(u, v.task[u]) => ~Overlaps(v.task[u].slot, Home(s, d))
         /\ \A u \in Tasks \ {t} : ~Stays(u, moves) /\ v.task[u].slot # None =>
              v.task[u].slot.start >= reach.start /\ v.task[u].slot.end <= reach.end
<1>1. ASSUME NEW u \in Tasks \ {t}, ~Stays(u, moves), v.task[u].slot # None
      PROVE  \E x \in ToSet(rows) : /\ x.id \in DOMAIN at /\ OwnId(u, x.id)
                                    /\ v.task[u].slot = at[x.id] /\ SeatedAt(x, at[x.id], reach)
  BY <1>1, MovedTask
<1>2. \A u \in Tasks \ {t} : Stays(u, moves) => v.task[u] = w.task[u]
  BY DEF Obeys
<1>3. \A u \in Tasks \ {t} : u # who
  OBVIOUS
<1>4. ASSUME NEW u \in Tasks \ {t}, Stays(u, moves), Firm(u, v.task[u])
      PROVE  /\ ~Overlaps(i, v.task[u].slot)
             /\ \A x \in ToSet(rows) :
                  /\ x.id \in DOMAIN at /\ x.id # SeatId(u, "slot", 0) /\ x.id # SeatId(u, "elapsed", 0)
                  => ~Overlaps(at[x.id], v.task[u].slot)
  BY <1>2, <1>3, <1>4, StayingTask
<1>5. \A u, r : Firm(u, r) => r.slot # None
  BY DEF Firm, Open
<1>6. /\ \A k \in DOMAIN at : ~Overlaps(at[k], i)
      /\ \A k, n \in DOMAIN at : k # n => ~Overlaps(at[k], at[n])
  BY DEF Rearranged, Clear, Sound
<1>7. ASSUME NEW u \in Tasks \ {t}, Firm(u, v.task[u]) PROVE ~Overlaps(i, v.task[u].slot)
  <2>1. CASE Stays(u, moves)
    BY <1>4, <1>7, <2>1
  <2>2. CASE ~Stays(u, moves)
    <3>1. PICK x \in ToSet(rows) : x.id \in DOMAIN at /\ v.task[u].slot = at[x.id]
      BY <1>1, <1>5, <1>7, <2>2
    <3> QED
      BY <1>6, <3>1, OverlapsBoth
  <2> QED
    BY <2>1, <2>2
<1>8. ASSUME NEW u \in Tasks \ {t}, NEW z \in Tasks \ {t}, u # z, ~Stays(u, moves),
             Firm(u, v.task[u]), Firm(z, v.task[z])
      PROVE  ~Overlaps(v.task[u].slot, v.task[z].slot)
  <2>1. PICK x \in ToSet(rows) : x.id \in DOMAIN at /\ OwnId(u, x.id) /\ v.task[u].slot = at[x.id]
    BY <1>1, <1>5, <1>8
  <2>2. CASE Stays(z, moves)
    BY <1>8, <2>1, OwnIds, <1>4, <2>2
  <2>3. CASE ~Stays(z, moves)
    <3>1. PICK y \in ToSet(rows) : y.id \in DOMAIN at /\ OwnId(z, y.id) /\ v.task[z].slot = at[y.id]
      BY <1>1, <1>5, <1>8, <2>3
    <3>2. x.id # y.id
      BY <1>8, <2>1, <3>1, OwnIds
    <3> QED
      BY <1>6, <2>1, <3>1, <3>2
  <2> QED
    BY <2>2, <2>3
<1>9. ASSUME NEW u \in Tasks \ {t}, NEW z \in Tasks \ {t}, u # z,
             Firm(u, v.task[u]), Firm(z, v.task[z])
      PROVE  ~Overlaps(v.task[u].slot, v.task[z].slot)
  BY <1>8, <1>9, OverlapsBoth, <1>2 DEF Apart
<1>10. ASSUME NEW s \in Series, NEW d \in Days, s # who, d \in w.held[s],
              Stays(<<s, d>>, moves), Home(s, d).end > now
       PROVE  /\ ~Overlaps(i, Home(s, d))
              /\ \A u \in Tasks \ {t} : Firm(u, v.task[u]) => ~Overlaps(v.task[u].slot, Home(s, d))
  <2>1. /\ ~Overlaps(i, Home(s, d))
        /\ \A x \in ToSet(rows) :
             x.id \in DOMAIN at /\ x.id # SeatId(s, "day", d) => ~Overlaps(at[x.id], Home(s, d))
    BY <1>10, StayingDay
  <2>2. ASSUME NEW u \in Tasks \ {t}, Firm(u, v.task[u]) PROVE ~Overlaps(v.task[u].slot, Home(s, d))
    <3>1. CASE Stays(u, moves)
      BY <1>2, <1>10, <2>2, <3>1 DEF Apart
    <3>2. CASE ~Stays(u, moves)
      <4>1. PICK x \in ToSet(rows) : x.id \in DOMAIN at /\ OwnId(u, x.id) /\ v.task[u].slot = at[x.id]
        BY <1>1, <1>5, <2>2, <3>2
      <4>2. u # <<s, d>>
        BY <1>10, <3>2
      <4>3. x.id # SeatId(s, "day", d)
        <5> DEFINE z == <<s, d>>
        <5>1. z = <<s, d>> /\ u # z
          BY <4>2
        <5> HIDE DEF z
        <5> QED
          BY <4>1, <5>1, OwnIds
      <4> QED
        BY <2>1, <4>1, <4>3
    <3> QED
      BY <3>1, <3>2
  <2> QED
    BY <2>1, <2>2
<1>11. ASSUME NEW u \in Tasks \ {t}, ~Stays(u, moves), v.task[u].slot # None
       PROVE  v.task[u].slot.start >= reach.start /\ v.task[u].slot.end <= reach.end
  BY <1>1, <1>11 DEF SeatedAt
<1> QED
  BY <1>7, <1>9, <1>10, <1>11

-----------------------------------------------------------------------------
(* The world a plan leaves, once its claim is written as well. *)

SameWish(a, b) == b.kind = a.kind /\ b.phase = a.phase /\ b.by = a.by

\* What becomes of a row that is not the claim's: it is left alone, seated
\* elsewhere or parked; a parked one is left alone.
Displaced(a, b) ==
  \/ b = a
  \/ /\ a.state # "problematic" /\ (b.state = "problematic" \/ (b.state = "none" /\ b.slot # None))
     /\ a.state = "none" => a.kind = "flexible" /\ SameWish(a, b)

LEMMA DisplacedByMoves ==
  ASSUME NEW w, Shape(w), NEW moves, MovesAre(moves, w), NEW u \in Tasks
  PROVE  Displaced(w.task[u], AllMoved(w, moves).task[u])
<1> DEFINE v == AllMoved(w, moves)
<1>1. /\ Stays(u, moves) => v.task[u] = w.task[u]
      /\ \A m \in moves : v.task[Subject(m)] = Moved(w.task[Subject(m)], m)
      /\ \A m \in moves, z \in Tasks : TaskMove(m, z, w.task[z]) => Subject(m) = z
      /\ \A m \in moves : \A s, d : DayMove(m, s, d) => Subject(m) = <<s, d>>
  BY MovesMade
<1> HIDE DEF v
<1>2. CASE Stays(u, moves)
  BY <1>1, <1>2 DEF Displaced, v
<1>3. CASE ~Stays(u, moves)
  <2>1. PICK m \in moves : Subject(m) = u
    BY <1>3 DEF Stays
  <2>2. v.task[u] = Moved(w.task[u], m) /\ RowOK(w.task[u])
    BY <1>1, <2>1 DEF Shape
  <2>3. CASE \E z \in Tasks : TaskMove(m, z, w.task[z])
    <3>1. TaskMove(m, u, w.task[u])
      BY <1>1, <2>1, <2>3
    <3>2. w.task[u].state = "none" /\ w.task[u].kind = "flexible" /\ w.task[u] \in Row
      BY <2>2, <3>1 DEF TaskMove, RowOK
    <3>3. CASE m.to = None
      <4>1. v.task[u] = Park(w.task[u])
        BY <2>2, <3>1, <3>3 DEF Moved, TaskMove
      <4>2. SameWish(w.task[u], v.task[u])
        BY <3>2, <4>1 DEF SameWish, Park, Row
      <4> QED
        BY <2>2, <3>2, <4>1, <4>2, ParkOK DEF Displaced, v
    <3>4. CASE m.to # None
      <4>1. v.task[u] = Shifted(w.task[u], m)
        BY <2>2, <3>1, <3>4 DEF Moved, TaskMove
      <4>2. v.task[u].state = "none" /\ v.task[u].slot # None
        BY <2>2, <3>1, <3>4, <4>1, ShiftedOK
      <4>3. SameWish(w.task[u], v.task[u])
        BY <3>2, <4>1 DEF SameWish, Shifted, Row
      <4> QED
        BY <3>2, <4>2, <4>3 DEF Displaced, v
    <3> QED
      BY <3>3, <3>4
  <2>4. CASE \E s \in Series : \E d \in w.held[s] : DayMove(m, s, d)
    <3>1. PICK s \in Series : \E d \in w.held[s] : DayMove(m, s, d)
      BY <2>4
    <3>2. PICK d \in w.held[s] : DayMove(m, s, d)
      BY <3>1
    <3>3. d \in Days /\ u = <<s, d>>
      BY <1>1, <2>1, <3>2 DEF Shape, Worlds
    <3>4. w.task[u].state = "absent"
      BY <3>3 DEF Shape
    <3>5. v.task[u] = DayCopy(m)
      BY <2>2, <3>2 DEF Moved, DayMove
    <3>6. v.task[u].slot = m.to /\ v.task[u].state = IF m.to = None THEN "problematic" ELSE "none"
      BY <3>2, <3>3, <3>5, DayCopyOK
    <3> QED
      BY <3>4, <3>6 DEF Displaced, v
  <2> QED
    BY <2>3, <2>4 DEF MovesAre
<1> QED
  BY <1>2, <1>3

\* The moves of a plan do the same once the row of `t` and the days held changed.
LEMMA AfterPlan ==
  ASSUME NEW w, NEW t, NEW who, NEW all, NEW rows, NEW reach, PlanFor(w, t, who, all, rows, reach),
         NEW i, NEW moves, NEW X, NEW at, Rearranged(i, moves, X, at, rows, reach),
         NEW w0, Shape(w0), \A u \in Tasks \ {t} : w0.task[u] = w.task[u],
         \A s \in Series : w.held[s] \subseteq w0.held[s],
         NEW v, v = AllMoved(w0, moves)
  PROVE  /\ Stays(t, moves) /\ Shape(v) /\ Obeys(v, w, t, moves) /\ v.task[t] = w0.task[t]
         /\ \A s \in Series, d \in Days :
              d \in v.held[s] <=> d \in w0.held[s] /\ Stays(<<s, d>>, moves)
         /\ \A u \in Tasks \ {t} : Displaced(w.task[u], v.task[u])
<1>1. MovesAre(moves, w) /\ Stays(t, moves) /\ t \in Tasks
  BY PlanMoves DEF PlanFor
<1>2. Shape(w)
  BY DEF PlanFor
<1>3. \A m \in moves, z \in Tasks : TaskMove(m, z, w.task[z]) => Subject(m) = z
  BY <1>1, <1>2, MovesMade
<1>4. MovesAre(moves, w0)
  <2>1. \A m, n \in moves : Subject(m) = Subject(n) => m = n
    BY <1>1 DEF MovesAre
  <2>2. ASSUME NEW m \in moves, NEW z \in Tasks, TaskMove(m, z, w.task[z])
        PROVE  \E u \in Tasks : TaskMove(m, u, w0.task[u])
    BY <1>1, <1>3, <2>2 DEF Stays
  <2>3. ASSUME NEW m \in moves
        PROVE  \/ \E u \in Tasks : TaskMove(m, u, w0.task[u])
               \/ \E s \in Series : \E d \in w0.held[s] : DayMove(m, s, d)
    BY <2>2, <1>1 DEF MovesAre
  <2> QED
    BY <2>1, <2>3 DEF MovesAre
<1>5. /\ \A u \in Tasks : Stays(u, moves) => v.task[u] = w0.task[u]
      /\ \A m \in moves : /\ Subject(m) \in Tasks
                          /\ v.task[Subject(m)] = Moved(w0.task[Subject(m)], m)
      /\ \A s \in Series, d \in Days :
           d \in v.held[s] <=> d \in w0.held[s] /\ Stays(<<s, d>>, moves)
      /\ Shape(v)
  BY <1>4, MovesMade
<1>6. Obeys(v, w, t, moves) /\ v.task[t] = w0.task[t]
  BY <1>1, <1>5 DEF Obeys
<1>7. \A u \in Tasks \ {t} : Displaced(w.task[u], v.task[u])
  BY <1>4, DisplacedByMoves
<1> QED
  BY <1>1, <1>5, <1>6, <1>7

\* A row that is shifted, parked, or the new copy of a day.
MovedBy(m, t, a, b) ==
  \/ TaskMove(m, t, a) /\ m.to # None /\ b = Shifted(a, m)
  \/ TaskMove(m, t, a) /\ m.to = None /\ b = Park(a)
  \/ a.state = "absent" /\ b = DayCopy(m) /\ \E s \in Series, d \in Days : DayMove(m, s, d) /\ t = <<s, d>>

LEMMA ObeyedRow ==
  ASSUME NEW w, Shape(w), NEW moves, MovesAre(moves, w), NEW t, NEW v, Obeys(v, w, t, moves),
         NEW u \in Tasks \ {t}
  PROVE  v.task[u] = w.task[u] \/ \E m \in moves : MovedBy(m, u, w.task[u], v.task[u])
<1>1. CASE Stays(u, moves)
  BY <1>1 DEF Obeys
<1>2. CASE ~Stays(u, moves)
  <2>1. PICK m \in moves : Subject(m) = u
    BY <1>2 DEF Stays
  <2>2. v.task[u] = Moved(w.task[u], m)
    BY <2>1 DEF Obeys
  <2>3. CASE \E z \in Tasks : TaskMove(m, z, w.task[z])
    BY <2>1, <2>3, MovesMade, <2>2 DEF Moved, TaskMove, MovedBy
  <2>4. CASE \E s \in Series : \E d \in w.held[s] : DayMove(m, s, d)
    <3>1. PICK s \in Series : \E d \in w.held[s] : DayMove(m, s, d)
      BY <2>4
    <3>2. PICK d \in w.held[s] : DayMove(m, s, d)
      BY <3>1
    <3>3. d \in Days /\ u = <<s, d>>
      BY <2>1, <3>2, MovesMade DEF Shape, Worlds
    <3>4. w.task[u].state = "absent"
      BY <3>2, <3>3 DEF Shape
    <3>5. v.task[u] = DayCopy(m)
      BY <2>2, <3>2 DEF Moved, DayMove
    <3> QED
      BY <3>2, <3>3, <3>4, <3>5 DEF MovedBy
  <2> QED
    BY <2>3, <2>4 DEF MovesAre
<1> QED
  BY <1>1, <1>2

\* Whoever is moved by another's placement: on its day and in its time.
OnItsDay(a, b) ==
  /\ a.state = "none" /\ a.slot # None /\ InItsTime(a)
  /\ b.state = "none" /\ b.slot # None /\ b.slot # a.slot
  => DayOf(b.slot.start) = DayOf(a.slot.start) /\ InTime(b.slot, b)

LEMMA MovedOnItsDay ==
  ASSUME NEW w, Shape(w), NEW moves, MovesAre(moves, w), NEW t, NEW v, Obeys(v, w, t, moves),
         KeepsToDay(moves, w, t)
  PROVE  \A u \in Tasks \ {t} : OnItsDay(w.task[u], v.task[u])
<1> TAKE u \in Tasks \ {t}
<1> DEFINE a == w.task[u]
           b == v.task[u]
<1>1. a \in Row
  BY DEF Shape, RowOK
<1>2. CASE b = a
  BY <1>2 DEF OnItsDay
<1>3. CASE b # a
  <2>1. PICK m \in moves : MovedBy(m, u, a, b)
    BY <1>3, ObeyedRow
  <2>2. TaskMove(m, u, a) => MovesInDay(m, a)
    BY DEF KeepsToDay
  <2> SUFFICES OnItsDay(a, b)
    OBVIOUS
  <2> HIDE DEF a, b
  <2>3. CASE TaskMove(m, u, a) /\ m.to # None /\ b = Shifted(a, m)
    BY <1>1, <2>3, <2>2 DEF Shifted, Row, OnItsDay, MovesInDay, InTime
  <2>4. CASE TaskMove(m, u, a) /\ m.to = None /\ b = Park(a)
    BY <1>1, <2>4 DEF Park, Row, OnItsDay
  <2>5. CASE a.state = "absent"
    BY <2>5 DEF OnItsDay
  <2> QED
    BY <2>1, <2>3, <2>4, <2>5 DEF MovedBy
<1> QED
  BY <1>2, <1>3

\* A row that is displaced twice.
LEMMA OnItsDayTwice ==
  ASSUME NEW a, NEW b, NEW c, Displaced(a, b), Displaced(b, c), OnItsDay(a, b), OnItsDay(b, c)
  PROVE  OnItsDay(a, c)
<1> SUFFICES ASSUME a.state = "none", a.slot # None, InItsTime(a),
                    c.state = "none", c.slot # None, c.slot # a.slot
             PROVE  DayOf(c.slot.start) = DayOf(a.slot.start) /\ InTime(c.slot, c)
  BY DEF OnItsDay
<1>1. b.state = "none" /\ b.slot # None /\ SameWish(a, b) /\ SameWish(b, c)
  BY DEF Displaced, SameWish
<1>2. CASE b.slot = a.slot
  BY <1>1, <1>2 DEF InItsTime, SameWish, OnItsDay
<1>3. CASE b.slot # a.slot
  BY <1>1, <1>3 DEF OnItsDay, InTime, SameWish, InItsTime
<1> QED
  BY <1>2, <1>3

-----------------------------------------------------------------------------
(* What Planned asks of a plan. *)

OptionsOK(o) ==
  /\ o.preferred \in Int \cup {None} /\ o.dur \in Nat \ {0} /\ o.day \in Int \cup {None}
  /\ o.hole \in BOOLEAN /\ o.drag \in BOOLEAN /\ (o.day # None => o.hole)

LEMMA NoNone == None \notin Int /\ None \notin Interval
BY NoneAssumption, InputAssumption DEF Interval

LEMMA DayIsInt ==
  ASSUME NEW at \in Int
  PROVE  DayOf(at) \in Int
BY PlacementAssumption DEF DayOf

LEMMA ClaimIntervalIs ==
  ASSUME NEW r \in Row, NEW o, OptionsOK(o), NEW i, i = ClaimInterval(r, o), i # None
  PROVE  /\ i \in Interval /\ i.start < i.end /\ ~o.hole
         /\ i.end - i.start = IF r.kind = "fixed" THEN r.dur ELSE o.dur
         /\ i.start \in {r.clock, o.preferred}
         /\ r.kind = "fixed" /\ o.preferred = None => i.start = r.clock
         /\ r.kind # "fixed" /\ o.preferred # None => i.start = o.preferred
<1> DEFINE at == IF r.kind = "fixed" THEN IF r.clock # None THEN r.clock ELSE o.preferred
                 ELSE IF o.preferred # None THEN o.preferred ELSE r.clock
           len == IF r.kind = "fixed" THEN r.dur ELSE o.dur
<1>1. r.dur \in Nat \ {0} /\ r.clock \in Int \cup {None}
  BY DEF Row
<1>2. ClaimInterval(r, o) = IF o.hole \/ at = None THEN None ELSE [start |-> at, end |-> at + len]
  BY DEF ClaimInterval
<1>3. ~o.hole /\ at # None /\ i = [start |-> at, end |-> at + len]
  BY <1>2
<1>4. at \in Int /\ len \in Nat \ {0}
  BY <1>1, <1>3 DEF OptionsOK
<1>5. at \in {r.clock, o.preferred} /\ (r.kind = "fixed" /\ o.preferred = None => at = r.clock)
      /\ (r.kind # "fixed" /\ o.preferred # None => at = o.preferred)
  BY <1>3
<1> HIDE DEF at
<1>6. len = IF r.kind = "fixed" THEN r.dur ELSE o.dur
  OBVIOUS
<1> HIDE DEF len
<1>7. i.start = at /\ i.end = at + len /\ i \in Interval
  BY <1>3, <1>4 DEF Interval
<1>8. i.start < i.end /\ i.end - i.start = len
  BY <1>4, <1>7
<1> QED
  BY <1>3, <1>5, <1>6, <1>7, <1>8

LEMMA SearchSpanIs ==
  ASSUME NEW r \in Row, NEW o, OptionsOK(o), now \in Int
  PROVE  SearchSpan(r, o) = None \/ SearchSpan(r, o) \in Interval
<1> DEFINE named == IF o.preferred # None THEN o.preferred ELSE r.clock
           from == IF named = None THEN now ELSE Max({now, named})
           until == IF r.by # None THEN r.by ELSE DayBounds(DayOf(named)).end
<1>1. named \in Int \cup {None} /\ r.by \in Int \cup {None}
  BY DEF Row, OptionsOK
<1>2. SearchSpan(r, o) = IF r.kind = "fixed" \/ (named = None /\ r.by = None) THEN None
                         ELSE [start |-> from, end |-> until]
  BY DEF SearchSpan
<1> HIDE DEF named
<1>3. from \in Int
  BY <1>1, MaxTwo
<1>4. ASSUME named # None \/ r.by # None PROVE until \in Int
  <2>1. CASE r.by # None
    BY <1>1, <2>1
  <2>2. CASE r.by = None
    <3> DEFINE d == DayOf(named)
    <3>1. d \in Int
      BY <1>1, <1>4, <2>2, DayIsInt
    <3>2. DayBounds(d).end = d * DayLen + Awake
      BY DEF DayBounds, OnDay, WholeDay
    <3> HIDE DEF d
    <3>3. Awake \in Int
      BY PlacementAssumption
    <3> DEFINE a == d * DayLen
    <3>4. a \in Int
      BY <3>1, DaySpans
    <3> HIDE DEF a
    <3>5. a + Awake \in Int
      BY <3>3, <3>4
    <3> QED
      BY <2>2, <3>2, <3>5 DEF a, d
  <2> QED
    BY <2>1, <2>2
<1> HIDE DEF from, until
<1>5. from \in Int /\ until \in Int => [start |-> from, end |-> until] \in Interval
  BY DEF Interval
<1> QED
  BY <1>2, <1>3, <1>4, <1>5

\* Only an interval that was asked for conflicts.
LEMMA ConflictIsAsked ==
  ASSUME NEW claim, NEW all, PlanPlacement(claim, all).outcome = "conflict"
  PROVE  claim.interval # None /\ ~claim.expired
<1> DEFINE rows == Those(all, { r \in ToSet(all) : r.task # claim.task })
           soft == SoftBusy(rows)
<1>1. PlanHole(claim, rows, soft).outcome \in {"seated", "problematic"}
  BY DEF Seated, Unseated, SeatedBy, BestDay, PlanHole
<1>2. \A why : Unseated(why).outcome = why
  BY DEF Unseated
<1> HIDE DEF soft
<1>3. claim.expired => PlanPlacement(claim, all) = Unseated(IF claim.recurring THEN "problematic" ELSE "unscheduled")
  BY DEF PlanPlacement
<1>4. ~claim.expired /\ claim.interval = None => PlanPlacement(claim, all) = PlanHole(claim, rows, soft)
  BY DEF PlanPlacement, soft
<1>5. ~claim.expired
  BY <1>2, <1>3
<1> HIDE DEF rows
<1> QED
  BY <1>1, <1>4, <1>5

\* What is not over on its own day.
EndsLater(i) == DayOf(i.start) # DayOf(i.end - 1)

LEMMA InOneDay ==
  ASSUME NEW i, i.start \in Int, i.end \in Int, i.start < i.end, ~EndsLater(i),
         NEW d \in Int, d = DayOf(i.start)
  PROVE  i.start >= DaySpan(d).start /\ i.end <= DaySpan(d).end
<1> DEFINE len == DayLen
           first == i.start
           last == i.end - 1
           a == d * len
<1>1. len \in Nat /\ len > 0 /\ first \in Int /\ last \in Int
  BY PlacementAssumption
<1>2. d = first \div len /\ d = last \div len
  BY DEF DayOf, EndsLater
<1>3. DaySpan(d).start = a /\ DaySpan(d).end = a + len /\ a \in Int
  BY DaySpans
<1> HIDE DEF len, first, last
<1>4. a <= first /\ last < a + len
  BY <1>1, <1>2
<1> HIDE DEF a
<1>5. i.end <= a + len
  BY <1>1, <1>3, <1>4 DEF last
<1> QED
  BY <1>3, <1>4, <1>5 DEF first

\* A plan with a claim of its own day, or of the horizon.
LEMMA PlannedWell ==
  ASSUME NEW w, Shape(w), NEW t \in Tasks, w.task[t].state # "absent", NEW o, OptionsOK(o),
         now \in Int, NEW order, NEW plan, plan = Planned(w, t, o, order),
         ~Over(ClaimInterval(w.task[t], o))
  PROVE  /\ plan.outcome \in Outcomes
         /\ plan.outcome = "conflict" =>
              /\ ClaimInterval(w.task[t], o) # None
              /\ ~(~o.drag /\ w.task[t].kind = "flexible" /\ w.task[t].by # None /\ w.task[t].by <= now)
         /\ plan.outcome = "seated" =>
              \E all, rows, reach, X, at :
                /\ PlanFor(w, t, t, all, rows, reach)
                /\ Rearranged(plan.at, plan.moves, X, at, rows, reach)
                /\ plan.at \in Interval /\ plan.at.start < plan.at.end
         /\ plan.outcome = "seated" /\ (o.hole \/ (o.day = None /\ ~EndsLater(plan.at)))
              => KeepsToDay(plan.moves, w, t)
<1> DEFINE r == w.task[t]
           i == ClaimInterval(r, o)
           day == CASE o.day # None -> o.day
                    [] o.day = None /\ i # None -> DayOf(i.start)
                    [] OTHER -> IF o.preferred = None THEN None ELSE DayOf(o.preferred)
           rows == Rows(w, {t}, order)
           span == SearchSpan(r, o)
           wide == IF span = None \/ ~o.drag \/ i = None THEN span
                   ELSE [start |-> Min({span.start, i.start}), end |-> Max({span.end, i.end})]
           open == HorizonWindows(r.phase)
           today == IF day = None THEN open ELSE Within(open, DaySpan(day))
           windows == IF wide = None THEN today ELSE Clip(today, wide.start, wide.end)
           low == IF wide = None THEN now ELSE wide.start
           near == IF o.hole THEN o.preferred ELSE None
           expired == ~o.drag /\ r.kind = "flexible" /\ r.by # None /\ r.by <= now
           claim == [task |-> t, recurring |-> FALSE, dur |-> o.dur,
                     notBefore |-> low, windows |-> windows, interval |-> i, near |-> near,
                     expired |-> expired,
                     mustFit |-> r.kind = "flexible",
                     overResolved |-> o.commit = "preferred", pack |-> ~o.raw]
           all == IF day = None THEN rows ELSE CutToDay(rows, day, i)
           reach == IF day = None THEN Horizon ELSE DaySpan(day)
<1>1. r \in Row /\ RowOK(r)
  BY DEF Shape, RowOK
<1>2. i # None => i \in Interval /\ i.start < i.end
  BY <1>1, ClaimIntervalIs
<1>3. plan = IF Over(i) THEN Seated(i, {}) ELSE PlanPlacement(claim, all)
  BY Zenon DEF Planned, DaySpan
<1>4. plan = PlanPlacement(claim, all)
  BY <1>3, Zenon
<1>5. RowsAre(rows, w, {t}, Horizon)
  BY RowsRead
<1>6. span = None \/ span \in Interval
  BY <1>1, SearchSpanIs
<1>7. r.phase \in Phases \cup {None}
  BY <1>1 DEF Row
<1>8. WindowsIn(open, Horizon) /\ DayWindows(open)
  BY <1>7, HorizonIsReach, HorizonDays
<1>26. o.hole => i = None
  BY DEF ClaimInterval
<1>27. o.day = None /\ i # None => day = DayOf(i.start)
  OBVIOUS
<1> HIDE DEF i, rows, span, open
<1>9. day \in Int \cup {None}
  BY <1>2, DayIsInt DEF Interval, OptionsOK
<1> HIDE DEF day
<1>10. wide = None \/ wide \in Interval
  <2>1. CASE span = None \/ ~o.drag \/ i = None
    BY <1>6, <2>1
  <2>2. CASE ~(span = None \/ ~o.drag \/ i = None)
    <3>1. span \in Interval /\ i \in Interval
      BY <1>2, <1>6, <2>2
    <3>2. span.start \in Int /\ span.end \in Int /\ i.start \in Int /\ i.end \in Int
      BY <3>1 DEF Interval
    <3> DEFINE a == Min({span.start, i.start})
               b == Max({span.end, i.end})
    <3>3. a \in Int /\ b \in Int
      BY <3>2, MaxTwo
    <3>4. wide = [start |-> a, end |-> b]
      BY <2>2
    <3> HIDE DEF a, b, wide
    <3> QED
      BY <3>3, <3>4 DEF Interval
  <2> QED
    BY <2>1, <2>2
<1> HIDE DEF wide
<1>11. reach \in Interval
  BY <1>9, AllDays, DaySpans
<1>12. WindowsIn(today, reach) /\ DayWindows(today)
  BY <1>8, <1>9, DaySpans, WithinReach, CutDays DEF WindowsIn
<1>13. RowsAre(all, w, {t}, reach)
  BY <1>5, <1>9, CutRows
<1>28. day # None => reach = DaySpan(day)
  OBVIOUS
<1> HIDE DEF today, reach, all
<1>14. WindowsIn(windows, reach) /\ DayWindows(windows)
  <2>1. CASE wide = None
    BY <1>12, <2>1
  <2>2. CASE wide # None
    <3> DEFINE q == [start |-> wide.start, end |-> wide.end]
    <3>1. q \in Interval
      BY <1>10, <2>2 DEF Interval
    <3>2. windows = Within(today, q)
      BY <2>2 DEF Clip
    <3> HIDE DEF q, windows
    <3> QED
      BY <1>11, <1>12, <3>1, <3>2, WithinKeeps, CutDays
  <2> QED
    BY <2>1, <2>2
<1>15. low \in Int
  BY <1>10 DEF Interval
<1>16. near \in Int \cup {None} /\ o.dur \in Nat \ {0}
  BY DEF OptionsOK
<1> HIDE DEF windows, low, near, expired
<1>17. /\ claim.task = t /\ claim.dur = o.dur /\ claim.notBefore = low /\ claim.windows = windows
       /\ claim.interval = i /\ claim.near = near /\ claim.expired = expired
  OBVIOUS
<1>18. ClaimFields \subseteq DOMAIN claim
  BY DEF ClaimFields
<1> HIDE DEF claim
<1>19. ClaimOK(claim, reach)
  BY <1>2, <1>14, <1>15, <1>16, <1>17, <1>18 DEF ClaimOK
<1>20. SeatsOK(all, reach)
  BY <1>13 DEF RowsAre
<1>21. SeatedWell(plan, claim, Others(all, t), reach)
  BY <1>19, <1>20, NoNone, PlanDisturbsNobody, <1>4, <1>17
<1>22. PlanFor(w, t, t, all, Others(all, t), reach)
  BY <1>20, OthersOK, <1>13 DEF PlanFor
<1>23. plan.outcome \in Outcomes
  BY <1>4, OutcomeOfPlan
<1>24. ASSUME plan.outcome = "seated"
       PROVE  /\ plan.at \in Interval /\ plan.at.start < plan.at.end
              /\ \E X, at : Rearranged(plan.at, plan.moves, X, at, Others(all, t), reach)
  BY <1>21, <1>24 DEF SeatedWell, Arranged, PlaceFor
<1>25. plan.outcome = "conflict" => i # None /\ ~expired
  BY <1>4, <1>17, ConflictIsAsked
<1>29. ASSUME plan.outcome = "seated", o.hole \/ (o.day = None /\ ~EndsLater(plan.at))
       PROVE  KeepsToDay(plan.moves, w, t)
  <2> DEFINE a == plan.at
  <2>1. Arranged(a, plan.moves, claim, Others(all, t), reach)
    BY <1>21, <1>29 DEF SeatedWell
  <2>2. PICK X, at : /\ Rearranged(a, plan.moves, X, at, Others(all, t), reach)
                     /\ AllAround(a, at, claim, Others(all, t), reach)
    BY <2>1 DEF Arranged
  <2>3. ASSUME a = i, i # None
        PROVE  \E d \in Int : /\ reach = DaySpan(d) /\ a \in Interval
                              /\ a.start >= reach.start /\ a.end <= reach.end
    <3>1. day = DayOf(i.start) /\ ~EndsLater(i) /\ i \in Interval /\ i.start < i.end
      BY <1>2, <1>26, <1>27, <1>29, <2>3
    <3>2. i.start \in Int /\ i.end \in Int /\ day \in Int /\ day # None
      BY <1>9, <3>1, DayIsInt, NoNone DEF Interval
    <3>3. reach = DaySpan(day)
      BY <1>28, <3>2
    <3>4. i.start >= DaySpan(day).start /\ i.end <= DaySpan(day).end
      BY <3>1, <3>2, InOneDay
    <3> QED
      BY <2>3, <3>1, <3>2, <3>3, <3>4
  <2>4. DayClaim(a, claim, reach)
    BY <1>14, <1>17, <2>3 DEF DayClaim
  <2> HIDE DEF a
  <2> QED
    BY <1>22, <2>2, <2>4, MoversKeepDay
<1> QED
  BY <1>22, <1>23, <1>24, <1>25, <1>29 DEF i, expired

\* A plan for a day of a series, as if its copy were gone.
LEMMA SeriesDayPlanWell ==
  ASSUME NEW w, Shape(w), NEW s \in Series, NEW d \in Days, NEW t, t = <<s, d>>,
         w.task[t].state # "absent",
         now \in Int, NEW order, NEW plan, plan = SeriesDayPlan(w, t, order),
         plan.outcome = "seated"
  PROVE  \E all, rows, X, at :
           /\ PlanFor(w, t, s, all, rows, DaySpan(d))
           /\ Rearranged(plan.at, plan.moves, X, at, rows, DaySpan(d))
           /\ KeepsToDay(plan.moves, w, t)
<1> DEFINE i == Home(s, d)
           rows == Rows(w, {t}, order)
           windows == Within(HorizonWindows(None), DaySpan(d))
           all == CutToDay(rows, d, i)
           reach == DaySpan(d)
           dur == i.end - i.start
           claim == [task |-> s, recurring |-> TRUE, dur |-> dur, notBefore |-> now,
                     windows |-> windows, interval |-> i, near |-> None,
                     expired |-> FALSE, mustFit |-> TRUE, overResolved |-> TRUE, pack |-> TRUE]
<1>1. t \in Tasks /\ d \in Int
  BY TasksOf, AllDays
<1>2. /\ i \in Interval /\ i.start < i.end
      /\ i.start >= DaySpan(d).start /\ i.end <= DaySpan(d).end
  BY <1>1, HomesAre
<1>3. plan = PlanPlacement(claim, all)
  BY DEF SeriesDayPlan, DaySpan, Unseated
<1>4. RowsAre(rows, w, {t}, Horizon)
  BY RowsRead
<1>5. reach \in Interval
  BY <1>1, DaySpans
<1>6. WindowsIn(windows, reach) /\ DayWindows(windows)
  BY HorizonIsReach, HorizonDays, <1>5, WithinReach, CutDays DEF WindowsIn
<1>7. dur \in Nat \ {0}
  BY <1>2 DEF Interval
<1>17. \E e \in Int : /\ reach = DaySpan(e) /\ i \in Interval
                      /\ i.start >= reach.start /\ i.end <= reach.end
  BY <1>1, <1>2
<1> HIDE DEF i, rows
<1>8. RowsAre(all, w, {t}, reach)
  BY <1>1, <1>4, CutRows
<1> HIDE DEF windows, all, reach, dur
<1>9. /\ claim.task = s /\ claim.dur = dur /\ claim.notBefore = now /\ claim.windows = windows
      /\ claim.interval = i /\ claim.near = None
  OBVIOUS
<1>10. ClaimFields \subseteq DOMAIN claim
  BY DEF ClaimFields
<1> HIDE DEF claim
<1>11. ClaimOK(claim, reach)
  BY <1>2, <1>6, <1>7, <1>9, <1>10 DEF ClaimOK
<1>12. SeatsOK(all, reach)
  BY <1>8 DEF RowsAre
<1>13. SeatedWell(plan, claim, Others(all, s), reach)
  BY <1>11, <1>12, NoNone, PlanDisturbsNobody, <1>3, <1>9
<1>14. Arranged(plan.at, plan.moves, claim, Others(all, s), reach)
  BY <1>13 DEF SeatedWell
<1>15. PlanFor(w, t, s, all, Others(all, s), reach)
  BY <1>12, OthersOK, <1>1, <1>8 DEF PlanFor
<1>16. PICK X, at : /\ Rearranged(plan.at, plan.moves, X, at, Others(all, s), reach)
                    /\ AllAround(plan.at, at, claim, Others(all, s), reach)
  BY <1>14 DEF Arranged
<1>18. KeepsToDay(plan.moves, w, t)
  <2> DEFINE a == plan.at
             moves == plan.moves
  <2>1. DayClaim(a, claim, reach)
    BY <1>6, <1>9, <1>17 DEF DayClaim
  <2>2. /\ Rearranged(a, moves, X, at, Others(all, s), reach)
        /\ AllAround(a, at, claim, Others(all, s), reach)
    BY <1>16
  <2> HIDE DEF a, moves
  <2>3. KeepsToDay(moves, w, t)
    BY <1>15, <2>1, <2>2, MoversKeepDay
  <2> QED
    BY <2>3 DEF moves
<1> QED
  BY <1>15, <1>16, <1>18 DEF reach

-----------------------------------------------------------------------------
(* What a placement writes. *)

SameBeing(a, b) ==
  /\ a.state = "absent" <=> b.state = "absent"
  /\ a.state = "deleted" <=> b.state = "deleted"

LEMMA PutMade ==
  ASSUME NEW w, Shape(w), NEW t \in Tasks, NEW r, RowOK(r), SameBeing(r, w.task[t])
  PROVE  /\ Shape(Put(w, t, r)) /\ Put(w, t, r).task[t] = r
         /\ \A u \in Tasks \ {t} : Put(w, t, r).task[u] = w.task[u]
         /\ Put(w, t, r).held = w.held /\ Put(w, t, r).born = w.born
<1> DEFINE rows == [w.task EXCEPT ![t] = r]
           v == Put(w, t, r)
<1>1. /\ w \in Worlds /\ w.task \in [Tasks -> Row] /\ r \in Row
      /\ w.held \in [Series -> SUBSET Days] /\ w.born \in Seq(Tasks)
  BY DEF Shape, Worlds, RowOK
<1>2. /\ rows \in [Tasks -> Row] /\ rows[t] = r
      /\ \A u \in Tasks \ {t} : rows[u] = w.task[u]
  BY <1>1
<1>3. v = [w EXCEPT !.task = rows]
  BY DEF Put
<1> HIDE DEF rows
<1>4. v.task = rows /\ v.held = w.held /\ v.born = w.born /\ v \in Worlds
  BY <1>1, <1>2, <1>3 DEF Worlds
<1> HIDE DEF v
<1>5. \A u \in Tasks : RowOK(v.task[u])
  BY <1>2, <1>4 DEF Shape
<1>6. \A s \in Series, d \in Days : d \in v.held[s] <=> v.task[<<s, d>>].state = "absent"
  <2> TAKE s \in Series, d \in Days
  <2> DEFINE u == <<s, d>>
  <2>1. u \in Tasks /\ (d \in w.held[s] <=> w.task[u].state = "absent")
    BY TasksOf DEF Shape
  <2> HIDE DEF u
  <2>2. d \in v.held[s] <=> v.task[u].state = "absent"
    BY <1>2, <1>4, <2>1 DEF SameBeing
  <2> QED
    BY <2>2 DEF u
<1>7. IsInjective(v.born)
  BY <1>4 DEF Shape
<1>8. \A u \in Tasks : v.task[u].state \in {"absent", "deleted"} <=> w.task[u].state \in {"absent", "deleted"}
  BY <1>2, <1>4 DEF SameBeing
<1>9. ToSet(v.born) = { u \in Tasks : v.task[u].state \notin {"absent", "deleted"} }
  BY <1>4, <1>8 DEF Shape
<1>10. Shape(v)
  BY <1>4, <1>5, <1>6, <1>7, <1>9 DEF Shape
<1> QED
  BY <1>2, <1>4, <1>10 DEF v

LEMMA UnparkedOK ==
  ASSUME NEW r \in Row
  PROVE  /\ Unparked(r) \in Row /\ Unparked(r).state = "none" /\ Unparked(r).kind = r.kind
         /\ Unparked(r).status = r.status /\ Unparked(r).slot = r.slot
         /\ Unparked(r).clock = r.clock /\ Unparked(r).dur = r.dur
<1> DEFINE new == [r EXCEPT !.state = "none", !.parkedDay = None, !.was = None, !.asked = FALSE]
<1>1. new \in Row
  BY DEF Row
<1>2. /\ new.state = "none" /\ new.kind = r.kind /\ new.status = r.status /\ new.slot = r.slot
      /\ new.clock = r.clock /\ new.dur = r.dur
  BY DEF Row
<1>3. Unparked(r) = new
  BY DEF Unparked
<1> QED
  BY <1>1, <1>2, <1>3

\* A seat on the clock of its row, as long as the row asks.
AsAsked(r) ==
  r.state = "none" /\ r.slot # None => r.slot.start = r.clock /\ r.slot.end = r.clock + r.dur

\* The row of a task that is seated.
LEMMA SeatedRow ==
  ASSUME NEW r \in Row, NEW at \in Interval, at.start < at.end, NEW by \in Int \cup {None},
         NEW new, new = Settled(r, at, by)
  PROVE  RowOK(new) /\ new.state = "none" /\ new.slot = at /\ AsAsked(new)
<1> DEFINE q == Unparked(r)
           from == at.start
           len == at.end - at.start
<1>1. q \in Row /\ q.state = "none"
  BY UnparkedOK
<1>2. from \in Int /\ len \in Nat \ {0} /\ from # None
  BY InputAssumption DEF Interval
<1>3. new = [q EXCEPT !.clock = from, !.dur = len, !.by = by, !.slot = at]
  BY DEF Settled
<1>4. len = at.end - at.start
  OBVIOUS
<1> HIDE DEF q, from, len
<1>5. new \in Row
  BY <1>1, <1>2, <1>3 DEF Row
<1>6. new.state = "none" /\ new.slot = at /\ new.clock = from /\ new.dur = len
  BY <1>1, <1>3 DEF Row
<1>7. at.end - at.start <= len
  BY <1>2, <1>4
<1> HIDE <1>3
<1>8. RowOK(new)
  BY <1>2, <1>5, <1>6, <1>7 DEF RowOK
<1>9. AsAsked(new)
  BY <1>6 DEF Interval, from, len, AsAsked
<1> QED
  BY <1>6, <1>8, <1>9

LEMMA DeadlineIs ==
  ASSUME NEW by \in Int \cup {None}, NEW i \in Interval
  PROVE  DeadlineAfterDrop(by, i) \in Int \cup {None}
<1>1. CASE by = None \/ i.end <= by
  BY <1>1 DEF DeadlineAfterDrop
<1>2. CASE ~(by = None \/ i.end <= by)
  <2>1. by \in Int /\ i.start \in Int /\ i.end \in Int
    BY <1>2 DEF Interval
  <2> DEFINE a == DayOf(i.start)
             b == DayOf(by)
             c == (a - b) * DayLen
             e == by + c
  <2>2. a \in Int /\ b \in Int
    BY <2>1, DayIsInt
  <2> HIDE DEF a, b
  <2>3. a - b \in Int
    BY <2>2
  <2>4. c \in Int
    BY <2>3, DaySpans
  <2> HIDE DEF c
  <2>5. e \in Int
    BY <2>1, <2>4
  <2>6. DeadlineAfterDrop(by, i) = Max({e, i.end})
    BY <1>2 DEF DeadlineAfterDrop, a, b, c
  <2> HIDE DEF e
  <2> QED
    BY <2>1, <2>5, <2>6, MaxTwo
<1> QED
  BY <1>1, <1>2

\* What the calendar keeps from one placement to the next.
CalendarOK(w) == Shape(w) /\ TopsKnown(w) /\ Apart(w, {})

\* A task with a place: a slot, an inbox or the top of another; a copy
\* that is gone is in its series.
Housed(r) ==
  \/ r.state \in {"problematic", "unscheduled", "absent", "resolved"}
  \/ r.state = "none" /\ r.slot # None

\* What the placement of `t` leaves of `w`.
Leaves(v, w, t) ==
  /\ CalendarOK(v) /\ Housed(v.task[t])
  /\ \A u \in Tasks \ {t} : Displaced(w.task[u], v.task[u])

\* Nobody else leaves its day, unless the task goes overnight on a clock it asked for.
Courteous(v, w, t, hole) ==
  hole \/ ~Overnight(v.task[t]) => \A u \in Tasks \ {t} : OnItsDay(w.task[u], v.task[u])

LEMMA TopsStayKnown ==
  ASSUME NEW w, TopsKnown(w), NEW v, NEW t, v.task[t].state # "resolved",
         \A u \in Tasks \ {t} : Displaced(w.task[u], v.task[u])
  PROVE  TopsKnown(v)
BY DEF TopsKnown, Displaced

LEMMA PersistedSeated ==
  ASSUME NEW w, Shape(w), TopsKnown(w), NEW t \in Tasks, Apart(w, {t}),
         w.task[t].state \notin {"absent", "deleted"}, NEW o, OptionsOK(o),
         now \in Int, NEW order, NEW plan, plan = Planned(w, t, o, order),
         plan.outcome = "seated", ~Over(ClaimInterval(w.task[t], o)),
         NEW v, v = Persisted(w, t, o, plan)
  PROVE  /\ Leaves(v, w, t) /\ v.task[t].state = "none"
         /\ Courteous(v, w, t, o.hole) /\ AsAsked(v.task[t])
<1> DEFINE r == w.task[t]
           i == plan.at
           moves == plan.moves
           by == IF o.drag THEN DeadlineAfterDrop(r.by, i) ELSE r.by
           new == Settled(r, i, by)
           w0 == Put(w, t, new)
<1>1. PICK all, rows, reach, X, at :
           /\ PlanFor(w, t, t, all, rows, reach)
           /\ Rearranged(i, moves, X, at, rows, reach)
           /\ i \in Interval /\ i.start < i.end
  BY PlannedWell
<1>0. o.hole \/ ~EndsLater(i) => KeepsToDay(moves, w, t)
  BY PlannedWell DEF OptionsOK
<1>2. r \in Row /\ r.by \in Int \cup {None}
  BY DEF Shape, RowOK, Row
<1>3. v = AllMoved(w0, moves)
  BY DEF Persisted
<1>4. by \in Int \cup {None}
  BY <1>1, <1>2, DeadlineIs
<1> HIDE DEF i, moves, by
<1>5. RowOK(new) /\ new.state = "none" /\ new.slot = i /\ AsAsked(new)
  BY <1>1, <1>2, <1>4, SeatedRow
<1> HIDE DEF new
<1>6. /\ Shape(w0) /\ w0.task[t] = new /\ w0.held = w.held
      /\ \A u \in Tasks \ {t} : w0.task[u] = w.task[u]
  BY <1>5, PutMade DEF SameBeing
<1> HIDE DEF w0
<1>7. /\ Stays(t, moves) /\ Shape(v) /\ Obeys(v, w, t, moves) /\ v.task[t] = new
      /\ \A s \in Series, d \in Days :
           d \in v.held[s] <=> d \in w.held[s] /\ Stays(<<s, d>>, moves)
      /\ \A u \in Tasks \ {t} : Displaced(w.task[u], v.task[u])
  BY <1>6, <1>1, <1>3, AfterPlan
<1>8. TopsKnown(v)
  BY <1>5, <1>7, TopsStayKnown
<1>9. /\ \A u \in Tasks \ {t} : Firm(u, v.task[u]) => ~Overlaps(i, v.task[u].slot)
      /\ \A u, z \in Tasks \ {t} :
           u # z /\ Firm(u, v.task[u]) /\ Firm(z, v.task[z])
             => ~Overlaps(v.task[u].slot, v.task[z].slot)
      /\ \A s \in Series, d \in Days :
           s # t /\ d \in w.held[s] /\ Stays(<<s, d>>, moves) /\ Home(s, d).end > now =>
             /\ ~Overlaps(i, Home(s, d))
             /\ \A u \in Tasks \ {t} : Firm(u, v.task[u]) => ~Overlaps(v.task[u].slot, Home(s, d))
      /\ \A u \in Tasks \ {t} : ~Stays(u, moves) /\ v.task[u].slot # None =>
           v.task[u].slot.start >= reach.start /\ v.task[u].slot.end <= reach.end
  BY <1>1, <1>7, PlanKeepsApart
<1>10. v.task[t].slot = i /\ v.task[t].state = "none" /\ i # None
  BY <1>1, <1>5, <1>7, NoNone
<1>11. \A u, z \in Tasks :
         u # z /\ Firm(u, v.task[u]) /\ Firm(z, v.task[z])
           => ~Overlaps(v.task[u].slot, v.task[z].slot)
  BY <1>9, <1>10, OverlapsBoth
<1>12. \A s \in Series : s # t
  BY InputAssumption DEF Tasks, Copies
<1>13. \A u \in Tasks, s \in Series, d \in Days :
         Firm(u, v.task[u]) /\ d \in v.held[s] /\ Home(s, d).end > now
           => ~Overlaps(v.task[u].slot, Home(s, d))
  BY <1>7, <1>9, <1>10, <1>12
<1>14. Apart(v, {})
  BY <1>11, <1>13 DEF Apart
<1>15. Housed(v.task[t])
  BY <1>10 DEF Housed
<1>16. Courteous(v, w, t, o.hole)
  <2>1. MovesAre(moves, w)
    BY <1>1, PlanMoves
  <2> SUFFICES ASSUME o.hole \/ ~Overnight(v.task[t])
               PROVE  \A u \in Tasks \ {t} : OnItsDay(w.task[u], v.task[u])
    BY DEF Courteous
  <2>2. KeepsToDay(moves, w, t)
    BY <1>0, <1>10 DEF Overnight, EndsLater
  <2> QED
    BY <1>7, <2>1, <2>2, MovedOnItsDay
<1> QED
  BY <1>5, <1>7, <1>8, <1>10, <1>14, <1>15, <1>16 DEF Leaves, CalendarOK

\* A row with no slot is in nobody's way.
LEMMA PutAway ==
  ASSUME NEW w, Shape(w), TopsKnown(w), NEW t \in Tasks, Apart(w, {t}),
         w.task[t].state \notin {"absent", "deleted"},
         NEW r, RowOK(r), r.state \in {"none", "problematic", "unscheduled"}, r.slot = None
  PROVE  CalendarOK(Put(w, t, r))
<1> DEFINE v == Put(w, t, r)
<1>1. /\ Shape(v) /\ v.task[t] = r /\ v.held = w.held
      /\ \A u \in Tasks \ {t} : v.task[u] = w.task[u]
  BY PutMade DEF SameBeing
<1> HIDE DEF v
<1>2. TopsKnown(v)
  BY <1>1 DEF TopsKnown
<1>3. ~Firm(t, v.task[t])
  BY <1>1 DEF Firm, Open
<1>4. Apart(v, {})
  BY <1>1, <1>3 DEF Apart
<1> QED
  BY <1>1, <1>2, <1>4 DEF CalendarOK, v

LEMMA UnscheduledOK ==
  ASSUME NEW r, RowOK(r), NEW new, new = Unscheduled(r)
  PROVE  RowOK(new) /\ new.state = "unscheduled" /\ new.slot = None
<1> DEFINE q == Unparked(Park(r))
<1>1. RowOK(Park(r)) /\ Park(r).slot = None /\ Park(r).clock = None /\ Park(r) \in Row
  BY ParkOK DEF RowOK
<1>2. q \in Row /\ q.slot = None /\ q.clock = None
  BY <1>1, UnparkedOK
<1>3. new = [q EXCEPT !.state = "unscheduled"]
  BY DEF Unscheduled
<1> HIDE DEF q
<1>4. new \in Row /\ new.slot = None /\ new.clock = None /\ new.state = "unscheduled"
  BY <1>2, <1>3 DEF Row
<1> QED
  BY <1>4 DEF RowOK

\* persist
LEMMA PersistedLeaves ==
  ASSUME NEW w, Shape(w), TopsKnown(w), NEW t \in Tasks, Apart(w, {t}),
         w.task[t].state \notin {"absent", "deleted"}, NEW o, OptionsOK(o),
         now \in Int, NEW order, NEW plan, plan = Planned(w, t, o, order),
         Writes(w, t, o, plan), NEW v, v = Persisted(w, t, o, plan)
  PROVE  /\ Leaves(v, w, t) /\ Courteous(v, w, t, o.hole) /\ AsAsked(v.task[t])
         /\ plan.outcome = "seated" => v.task[t].state = "none"
<1> DEFINE r == w.task[t]
<1>1. ~Over(ClaimInterval(r, o)) /\ plan.outcome # "conflict" /\ RowOK(r)
  BY DEF Writes, Shape
<1>2. plan.outcome \in Outcomes
  BY <1>1, PlannedWell
<1>3. plan.outcome \in {"seated", "problematic", "unscheduled"}
  BY <1>1, <1>2 DEF Outcomes
<1>4. CASE plan.outcome = "seated"
  BY <1>1, <1>4, PersistedSeated
<1>5. CASE plan.outcome = "problematic"
  <2>1. v = Put(w, t, Park(r))
    BY <1>5 DEF Persisted
  <2>2. RowOK(Park(r)) /\ Park(r).slot = None /\ Park(r).state = "problematic"
    BY <1>1, ParkOK
  <2> DEFINE new == Park(r)
  <2>3. v = Put(w, t, new) /\ RowOK(new) /\ new.slot = None /\ new.state = "problematic"
    BY <2>1, <2>2
  <2> HIDE DEF new
  <2>4. CalendarOK(v)
    BY <2>3, PutAway
  <2>5. v.task[t] = new /\ \A u \in Tasks \ {t} : v.task[u] = w.task[u]
    BY <2>3, PutMade DEF SameBeing
  <2> QED
    BY <1>5, <2>3, <2>4, <2>5 DEF Leaves, Housed, Displaced, Courteous, OnItsDay, AsAsked
<1>6. CASE plan.outcome = "unscheduled"
  <2> DEFINE new == Unscheduled(r)
  <2>1. v = Put(w, t, new)
    BY <1>6 DEF Persisted
  <2>2. RowOK(new) /\ new.slot = None /\ new.state = "unscheduled"
    BY <1>1, UnscheduledOK
  <2> HIDE DEF new
  <2>4. CalendarOK(v)
    BY <2>1, <2>2, PutAway
  <2>5. v.task[t] = new /\ \A u \in Tasks \ {t} : v.task[u] = w.task[u]
    BY <2>1, <2>2, PutMade DEF SameBeing
  <2> QED
    BY <1>6, <2>2, <2>4, <2>5 DEF Leaves, Housed, Displaced, Courteous, OnItsDay, AsAsked
<1> QED
  BY <1>3, <1>4, <1>5, <1>6

-----------------------------------------------------------------------------
(* A copy that joins its series again. *)

\* The world without the copy, its day back in the series.
TakenBack(w, t) ==
  [task |-> [w.task EXCEPT ![t] = Absent], held |-> HeldAgain(w, t),
   born |-> Those(w.born, Tasks \ {t})]

LEMMA TakenBackIs ==
  ASSUME NEW w, Shape(w), NEW s \in Series, NEW d \in Days, NEW t, t = <<s, d>>,
         w.task[t].state \notin {"absent", "deleted"}
  PROVE  /\ Shape(TakenBack(w, t)) /\ TakenBack(w, t).task[t] = Absent
         /\ \A u \in Tasks \ {t} : TakenBack(w, t).task[u] = w.task[u]
         /\ \A r \in Series, e \in Days :
              e \in TakenBack(w, t).held[r] <=> e \in w.held[r] \/ <<r, e>> = t
<1> DEFINE rows == [w.task EXCEPT ![t] = Absent]
           held0 == HeldAgain(w, t)
           born0 == Those(w.born, Tasks \ {t})
           v == TakenBack(w, t)
<1>1. /\ w.task \in [Tasks -> Row] /\ w.held \in [Series -> SUBSET Days] /\ w.born \in Seq(Tasks)
      /\ \A u \in Tasks : RowOK(w.task[u])
  BY DEF Shape, Worlds
<1>2. t \in Tasks /\ t[1] = s /\ t[2] = d
  BY TasksOf
<1>3. rows \in [Tasks -> Row] /\ rows[t] = Absent /\ \A u \in Tasks \ {t} : rows[u] = w.task[u]
  BY <1>1, <1>2, AbsentIsRow
<1>4. /\ held0 \in [Series -> SUBSET Days]
      /\ held0[s] = w.held[s] \cup {d} /\ \A r \in Series \ {s} : held0[r] = w.held[r]
  BY <1>1, <1>2 DEF HeldAgain
<1>5. \A r \in Series, e \in Days : e \in held0[r] <=> e \in w.held[r] \/ <<r, e>> = t
  BY <1>4
<1>6. /\ born0 \in Seq(Tasks) /\ ToSet(born0) = ToSet(w.born) \cap (Tasks \ {t})
      /\ IsInjective(born0)
  <2> DEFINE others == Tasks \ {t}
  <2>1. IsInjective(w.born)
    BY DEF Shape
  <2> HIDE DEF others
  <2>2. /\ Those(w.born, others) \in Seq(Tasks)
        /\ ToSet(Those(w.born, others)) = ToSet(w.born) \cap others
        /\ IsInjective(Those(w.born, others))
    BY <1>1, <2>1, Picks
  <2> QED
    BY <2>2 DEF others
<1>7. v.task = rows /\ v.held = held0 /\ v.born = born0
  BY DEF TakenBack
<1>8. v \in Worlds
  <2> HIDE DEF rows, held0, born0
  <2>1. [task |-> rows, held |-> held0, born |-> born0] \in Worlds
    BY <1>3, <1>4, <1>6 DEF Worlds
  <2> QED
    BY <2>1 DEF TakenBack, rows, held0, born0
<1> HIDE DEF rows, held0, born0, v
<1>9. \A u \in Tasks : RowOK(v.task[u])
  BY <1>1, <1>3, <1>7, AbsentIsRow
<1>10. Absent.state = "absent"
  BY DEF Absent
<1>11. \A r \in Series, e \in Days : e \in v.held[r] <=> v.task[<<r, e>>].state = "absent"
  <2> TAKE r \in Series, e \in Days
  <2> DEFINE u == <<r, e>>
  <2>1. u \in Tasks /\ (e \in w.held[r] <=> w.task[u].state = "absent")
    BY TasksOf DEF Shape
  <2>2. e \in held0[r] <=> e \in w.held[r] \/ u = t
    BY <1>5
  <2> HIDE DEF u
  <2>3. e \in v.held[r] <=> v.task[u].state = "absent"
    BY <1>3, <1>7, <1>10, <2>1, <2>2
  <2> QED
    BY <2>3 DEF u
<1>12. ToSet(v.born) = { u \in Tasks : v.task[u].state \notin {"absent", "deleted"} }
  BY <1>6, <1>7, <1>3, <1>10 DEF Shape
<1>13. Shape(v)
  BY <1>6, <1>7, <1>8, <1>9, <1>11, <1>12 DEF Shape
<1> QED
  BY <1>3, <1>5, <1>7, <1>13 DEF v

\* The copy of a day.
CopyOf(t, s, d) == t = <<s, d>>

\* tryReMergeSeriesMember
LEMMA RejoinedLeaves ==
  ASSUME NEW w, CalendarOK(w), NEW s \in Series, NEW d \in Days, NEW t, CopyOf(t, s, d),
         w.task[t].state \notin {"absent", "deleted"},
         now \in Int, NEW order, NEW plan, plan = SeriesDayPlan(w, t, order),
         plan.outcome = "seated", plan.at = Home(s, d), NEW v, v = Rejoined(w, t, plan)
  PROVE  /\ Leaves(v, w, t)
         /\ \A u \in Tasks \ {t} : OnItsDay(w.task[u], v.task[u])
<1> DEFINE i == plan.at
           moves == plan.moves
           w0 == TakenBack(w, t)
           reach == DaySpan(d)
<1>c. t = <<s, d>>
  BY DEF CopyOf
<1>0. Shape(w) /\ TopsKnown(w) /\ Apart(w, {}) /\ Apart(w, {t}) /\ t \in Tasks
  BY <1>c, TasksOf DEF CalendarOK, Apart
<1>1. PICK all, rows, X, at :
           /\ PlanFor(w, t, s, all, rows, reach)
           /\ Rearranged(i, moves, X, at, rows, reach)
           /\ KeepsToDay(moves, w, t)
  BY <1>c, <1>0, SeriesDayPlanWell
<1>2. d \in Int
  BY AllDays
<1>3. i = Home(s, d) /\ i \in Interval /\ i.start < i.end
  BY <1>2, HomesAre
<1>4. v = AllMoved(w0, moves)
  BY DEF Rejoined, TakenBack
<1>5. /\ Shape(w0) /\ w0.task[t] = Absent
      /\ \A u \in Tasks \ {t} : w0.task[u] = w.task[u]
      /\ \A r \in Series, e \in Days : e \in w0.held[r] <=> e \in w.held[r] \/ <<r, e>> = t
  BY <1>c, <1>0, TakenBackIs
<1> HIDE DEF i, moves, w0, reach
<1>6. \A r \in Series : w.held[r] \subseteq w0.held[r]
  BY <1>0, <1>5 DEF Shape, Worlds
<1>7. /\ Stays(t, moves) /\ Shape(v) /\ Obeys(v, w, t, moves) /\ v.task[t] = w0.task[t]
      /\ \A r \in Series, e \in Days :
            e \in v.held[r] <=> e \in w0.held[r] /\ Stays(<<r, e>>, moves)
      /\ \A u \in Tasks \ {t} : Displaced(w.task[u], v.task[u])
  BY <1>5, <1>1, <1>4, <1>6, AfterPlan
<1>8. v.task[t].state = "absent" /\ ~Firm(t, v.task[t]) /\ Housed(v.task[t])
  BY <1>5, <1>7 DEF Absent, Firm, Open, Housed
<1>9. TopsKnown(v)
  BY <1>0, <1>7, <1>8, TopsStayKnown
<1>10. s \notin Tasks \ {t}
  BY InputAssumption DEF Tasks, Copies
<1>11. /\ \A u \in Tasks \ {t} : Firm(u, v.task[u]) => ~Overlaps(i, v.task[u].slot)
       /\ \A u, z \in Tasks \ {t} :
            u # z /\ Firm(u, v.task[u]) /\ Firm(z, v.task[z])
              => ~Overlaps(v.task[u].slot, v.task[z].slot)
       /\ \A r \in Series, e \in Days :
            r # s /\ e \in w.held[r] /\ Stays(<<r, e>>, moves) /\ Home(r, e).end > now =>
              /\ ~Overlaps(i, Home(r, e))
              /\ \A u \in Tasks \ {t} : Firm(u, v.task[u]) => ~Overlaps(v.task[u].slot, Home(r, e))
       /\ \A u \in Tasks \ {t} : ~Stays(u, moves) /\ v.task[u].slot # None =>
            v.task[u].slot.start >= reach.start /\ v.task[u].slot.end <= reach.end
  <2>1. Obeys(v, w, t, moves)
    BY <1>7
  <2>2. i \in Interval /\ i.start < i.end
    BY <1>3
  <2>3. TopsKnown(w) /\ Apart(w, {t})
    BY <1>0
  <2> QED
    BY <1>1, <1>10, <2>1, <2>2, <2>3, PlanKeepsApart
<1>12. ASSUME NEW u \in Tasks \ {t}, NEW e \in Days, e # d, e \in w.held[s], Home(s, e).end > now,
              Firm(u, v.task[u])
       PROVE  ~Overlaps(v.task[u].slot, Home(s, e))
  <2>1. CASE Stays(u, moves)
    BY <1>7, <2>1, <1>0, <1>12 DEF Obeys, Apart
  <2>2. CASE ~Stays(u, moves)
    <3> DEFINE q == v.task[u].slot
               h == Home(s, e)
    <3>1. e \in Int /\ q # None /\ RowOK(v.task[u])
      BY <1>7, <1>12, AllDays DEF Firm, Open, Shape
    <3>2. q \in Interval
      BY <3>1 DEF RowOK, Row
    <3>3. q.start >= reach.start /\ q.end <= reach.end
      BY <1>11, <2>2, <3>1
    <3>4. h \in Interval /\ h.start >= DaySpan(e).start /\ h.end <= DaySpan(e).end
      BY <3>1, HomesAre
    <3>5. DaySpan(e) \in Interval /\ reach \in Interval
      BY <1>2, <3>1, DaySpans DEF reach
    <3>6. e < d \/ d < e
      BY <1>2, <1>12, <3>1
    <3>7. DaySpan(e).end <= reach.start \/ reach.end <= DaySpan(e).start
      BY <1>2, <3>1, <3>6, DaysFollow DEF reach
    <3> HIDE DEF q, h
    <3>8. ~Overlaps(q, h)
      BY <3>2, <3>3, <3>4, <3>5, <3>7 DEF Overlaps, Interval
    <3> QED
      BY <3>8 DEF q, h
  <2> QED
    BY <2>1, <2>2
<1>13. ASSUME NEW u \in Tasks, NEW r \in Series, NEW e \in Days,
              Firm(u, v.task[u]), e \in v.held[r], Home(r, e).end > now
       PROVE  ~Overlaps(v.task[u].slot, Home(r, e))
  <2>1. u \in Tasks \ {t}
    BY <1>8, <1>13
  <2>2. (e \in w.held[r] \/ <<r, e>> = t) /\ Stays(<<r, e>>, moves)
    BY <1>5, <1>7, <1>13
  <2>3. CASE <<r, e>> = t
    BY <1>c, <2>3, <1>3, <1>11, <1>13, <2>1, OverlapsBoth
  <2>4. CASE <<r, e>> # t /\ r = s
    BY <1>c, <2>2, <2>4, <1>12, <1>13, <2>1
  <2>5. CASE r # s
    BY <1>c, <2>2, <2>5, <1>11, <1>13, <2>1
  <2> QED
    BY <2>3, <2>4, <2>5
<1>14. Apart(v, {})
  BY <1>8, <1>11, <1>13 DEF Apart
<1>15. \A u \in Tasks \ {t} : OnItsDay(w.task[u], v.task[u])
  BY <1>1, PlanMoves, <1>0, <1>7, MovedOnItsDay
<1> QED
  BY <1>7, <1>8, <1>9, <1>14, <1>15 DEF Leaves, CalendarOK

-----------------------------------------------------------------------------
(* One placement. *)

LEMMA DisplacedTwice ==
  ASSUME NEW a, NEW b, NEW c, Displaced(a, b), Displaced(b, c)
  PROVE  Displaced(a, c)
BY DEF Displaced, SameWish

\* A day of a series is not overnight.
LEMMA HomeInItsDay ==
  ASSUME NEW s \in Series, NEW d \in Days
  PROVE  DayOf(Home(s, d).start) = d /\ DayOf(Home(s, d).end - 1) = d
<1> DEFINE h == Home(s, d)
<1>1. d \in Int /\ DaySpan(d) \in Interval
  BY AllDays, DaySpans
<1>2. /\ h \in Interval /\ h.start < h.end
      /\ h.start >= DaySpan(d).start /\ h.end <= DaySpan(d).end
  BY <1>1, HomesAre
<1> HIDE DEF h
<1> DEFINE last == h.end - 1
<1>3. /\ h.start \in Int /\ last \in Int
      /\ h.start < DaySpan(d).end /\ last >= DaySpan(d).start /\ last < DaySpan(d).end
  BY <1>1, <1>2 DEF Interval
<1> HIDE DEF last
<1>4. DayOf(h.start) = d /\ DayOf(last) = d
  BY <1>1, <1>2, <1>3, DayOfIn
<1> QED
  BY <1>4 DEF h, last

LEMMA MergedLeaves ==
  ASSUME NEW w, NEW t \in Tasks, NEW v, Leaves(v, w, t), NEW plan, NEW order, now \in Int,
         NEW hole, Courteous(v, w, t, hole), AsAsked(v.task[t])
  PROVE  /\ Leaves(Merged(v, t, plan, order), w, t)
         /\ Courteous(Merged(v, t, plan, order), w, t, hole)
<1> DEFINE day == SeriesDayPlan(v, t, order)
           z == Merged(v, t, plan, order)
<1>1. z = v \/ (t \in Copies /\ Rejoins(v, t, day) /\ z = Rejoined(v, t, day))
  BY DEF Merged, BackInSeries
<1> HIDE DEF z
<1>2. CASE z = v
  BY <1>2 DEF z
<1>3. CASE t \in Copies /\ Rejoins(v, t, day) /\ z = Rejoined(v, t, day)
  <2>1. PICK s \in Series, d \in Days : t = <<s, d>>
    BY <1>3 DEF Copies
  <2>2. /\ v.task[t].state = "none" /\ day.outcome = "seated"
        /\ day.at = Home(t[1], t[2])
        /\ [start |-> v.task[t].clock, end |-> v.task[t].clock + v.task[t].dur] = Home(t[1], t[2])
    BY <1>3 DEF Rejoins
  <2>3. day.at = Home(s, d)
    BY <2>1, <2>2
  <2>4. CalendarOK(v) /\ \A u \in Tasks \ {t} : Displaced(w.task[u], v.task[u])
    BY DEF Leaves
  <2>5. day = SeriesDayPlan(v, t, order)
    OBVIOUS
  <2> HIDE DEF day
  <2>6. Leaves(z, v, t) /\ \A u \in Tasks \ {t} : OnItsDay(v.task[u], z.task[u])
    BY <1>3, <2>1, <2>2, <2>3, <2>4, <2>5, RejoinedLeaves DEF CopyOf
  <2>7. \A u \in Tasks \ {t} : Displaced(w.task[u], z.task[u])
    BY <2>4, <2>6, DisplacedTwice DEF Leaves
  <2>8. ~Overnight(v.task[t])
    <3> DEFINE h == Home(s, d)
    <3>1. h.start = v.task[t].clock /\ h.end = v.task[t].clock + v.task[t].dur
      BY <2>1, <2>2
    <3>2. v.task[t].slot.start = h.start /\ v.task[t].slot.end = h.end
      BY <2>2, <3>1 DEF Leaves, Housed, AsAsked
    <3> HIDE DEF h
    <3>3. DayOf(h.start) = d /\ DayOf(h.end - 1) = d
      BY HomeInItsDay DEF h
    <3> QED
      BY <3>2, <3>3 DEF Overnight
  <2>9. \A u \in Tasks \ {t} : OnItsDay(w.task[u], z.task[u])
    BY <2>8, <2>4, <2>6, OnItsDayTwice DEF Courteous, Leaves
  <2> QED
    BY <2>6, <2>7, <2>9 DEF Leaves, Courteous, z
<1> QED
  BY <1>1, <1>2, <1>3 DEF z

\* A task that may be placed in this world: nobody else is in another's way.
Placeable(w, t) ==
  /\ Shape(w) /\ TopsKnown(w) /\ Apart(w, {t}) /\ t \in Tasks
  /\ w.task[t].state \notin {"absent", "deleted"}

LEMMA WrittenLeaves ==
  ASSUME NEW w, NEW t, Placeable(w, t), NEW o, OptionsOK(o), now \in Int, NEW order,
         NEW plan, plan = Planned(w, t, o, order), NEW out, out = Written(w, t, o, plan, order)
  PROVE  /\ out.plan = plan
         /\ Writes(w, t, o, plan) => Leaves(out.world, w, t) /\ Courteous(out.world, w, t, o.hole)
         /\ ~Writes(w, t, o, plan) => out.world = w
<1>1. /\ out.plan = plan
      /\ out.world = IF Writes(w, t, o, plan)
                     THEN Merged(Persisted(w, t, o, plan), t, plan, order) ELSE w
  BY DEF Written
<1>2. ASSUME Writes(w, t, o, plan)
      PROVE  /\ Leaves(Merged(Persisted(w, t, o, plan), t, plan, order), w, t)
             /\ Courteous(Merged(Persisted(w, t, o, plan), t, plan, order), w, t, o.hole)
  <2> DEFINE v == Persisted(w, t, o, plan)
  <2>1. Leaves(v, w, t) /\ Courteous(v, w, t, o.hole) /\ AsAsked(v.task[t])
    BY <1>2, PersistedLeaves DEF Placeable
  <2> HIDE DEF v
  <2>2. /\ Leaves(Merged(v, t, plan, order), w, t)
        /\ Courteous(Merged(v, t, plan, order), w, t, o.hole)
    BY <2>1, MergedLeaves DEF Placeable
  <2> QED
    BY <2>2 DEF v
<1> QED
  BY <1>1, <1>2

\* A placement, and the options it came to.
Came(out, w, t, o, order) ==
  /\ out.plan = Planned(w, t, o, order)
  /\ Writes(w, t, o, out.plan) => Leaves(out.world, w, t) /\ Courteous(out.world, w, t, o.hole)
  /\ ~Writes(w, t, o, out.plan) => out.world = w

LEMMA HoleInsteadIs ==
  ASSUME NEW w, NEW t \in Tasks, Shape(w), NEW o, OptionsOK(o),
         NEW o2, o2 = HoleInstead(w, t, o), {"preferred", "dur", "day", "hole", "drag", "commit"} \subseteq DOMAIN o
  PROVE  OptionsOK(o2) /\ o2.hole /\ o2.commit = o.commit
<1> DEFINE wish == IF o.preferred # None THEN o.preferred ELSE w.task[t].clock
<1>1. w.task[t].clock \in Int \cup {None}
  BY DEF Shape, RowOK, Row
<1>2. wish \in Int \cup {None}
  BY <1>1 DEF OptionsOK
<1>3. o2 = [o EXCEPT !.hole = TRUE, !.preferred = wish]
  BY DEF HoleInstead
<1> HIDE DEF wish
<1>4. /\ o2.preferred = wish /\ o2.dur = o.dur /\ o2.day = o.day /\ o2.hole = TRUE
      /\ o2.drag = o.drag /\ o2.commit = o.commit
  BY <1>3
<1> QED
  BY <1>2, <1>4 DEF OptionsOK

OptionFields == {"preferred", "dur", "day", "hole", "drag", "commit"}

\* placeUnlocked for a task that is not on top of another.
LEMMA PlacedComes ==
  ASSUME NEW w, NEW t, Placeable(w, t), w.task[t].state # "resolved",
         NEW o, OptionsOK(o), OptionFields \subseteq DOMAIN o,
         now \in Int, NEW order, NEW out, out = Placed(w, t, o, order)
  PROVE  \E oo : /\ OptionsOK(oo) /\ oo.commit = o.commit /\ (oo = o \/ oo.hole)
                 /\ Came(out, w, t, oo, order)
<1> DEFINE first == Planned(w, t, o, order)
           o2 == HoleInstead(w, t, o)
           again == Planned(w, t, o2, order)
<1>1. \/ out = Written(w, t, o, first, order)
      \/ out = Written(w, t, o2, again, order)
  BY DEF Placed, Reconsidered
<1>2. OptionsOK(o2) /\ o2.hole /\ o2.commit = o.commit
  BY HoleInsteadIs DEF OptionFields, Placeable
<1>3. first = Planned(w, t, o, order) /\ again = Planned(w, t, o2, order)
  OBVIOUS
<1> HIDE DEF first, again, o2
<1>4. CASE out = Written(w, t, o, first, order)
  BY <1>3, <1>4, WrittenLeaves DEF Came
<1>5. CASE out = Written(w, t, o2, again, order)
  BY <1>2, <1>3, <1>5, WrittenLeaves DEF Came
<1> QED
  BY <1>1, <1>4, <1>5

\* A layer on top stays a layer, or is moved off; either way it is excused.
LEMMA ResolvedLeaves ==
  ASSUME NEW w, CalendarOK(w), NEW t \in Tasks, w.task[t].state = "resolved",
         NEW o, OptionsOK(o), NEW out, out = ResolvedPlaced(w, t, o)
  PROVE  /\ Leaves(out.world, w, t) /\ out.plan.outcome = "seated"
         /\ \A u \in Tasks \ {t} : out.world.task[u] = w.task[u]
<1> DEFINE r == w.task[t]
           at == IF o.preferred # None THEN o.preferred ELSE r.clock
           len == IF o.preferred # None THEN o.dur ELSE r.dur
           i == [start |-> at, end |-> at + len]
           same == i.start = r.clock /\ i.end = r.clock + r.dur
           lasts == i.end - i.start
           off == [Unparked(r) EXCEPT !.clock = at, !.dur = lasts]
           next == IF same THEN r ELSE off
           new == [next EXCEPT !.slot = i]
           v == Put(w, t, new)
<1>1. out = [world |-> v, plan |-> Seated(i, {})]
  BY Zenon DEF ResolvedPlaced
<1>2. RowOK(r) /\ r \in Row /\ r.slot # None /\ r.clock \in Int /\ r.dur \in Nat \ {0} /\ t \in layered
  BY DEF CalendarOK, Shape, TopsKnown, RowOK, Row
<1>3. at \in Int /\ len \in Nat \ {0}
  BY <1>2 DEF OptionsOK
<1> HIDE DEF at, len
<1>4. i \in Interval /\ i.start = at /\ i.end = at + len /\ i.start < i.end /\ lasts = len
  BY <1>3 DEF Interval
<1>5. Unparked(r) \in Row /\ Unparked(r).state = "none" /\ Unparked(r).kind = r.kind
  BY <1>2, UnparkedOK
<1> DEFINE q == Unparked(r)
<1> HIDE DEF i, lasts
<1>6. off \in Row /\ off.state = "none" /\ off.clock = at /\ off.dur = lasts
  <2>1. q \in Row /\ q.state = "none" /\ off = [q EXCEPT !.clock = at, !.dur = lasts]
    BY <1>5
  <2> HIDE DEF q, off
  <2> QED
    BY <1>3, <1>4, <2>1 DEF Row
<1> HIDE DEF off, q
<1>7. /\ next \in Row /\ next.clock \in Int /\ next.state \in {"none", "resolved"}
      /\ i.end - i.start <= next.dur
  BY <1>2, <1>3, <1>4, <1>6 DEF lasts
<1> HIDE DEF next
<1>8. /\ new \in Row /\ new.slot = i /\ new.clock = next.clock /\ new.state = next.state
      /\ new.dur = next.dur
  BY <1>4, <1>7 DEF Row
<1> HIDE DEF new
<1>9. RowOK(new) /\ new.slot # None
  BY <1>4, <1>7, <1>8, NoNone DEF RowOK
<1>10. /\ Shape(v) /\ v.task[t] = new /\ v.held = w.held
       /\ \A u \in Tasks \ {t} : v.task[u] = w.task[u]
  BY <1>7, <1>8, <1>9, PutMade DEF CalendarOK, SameBeing
<1> HIDE DEF v
<1>11. ~Firm(t, v.task[t]) /\ ~Firm(t, r)
  BY <1>2 DEF Firm, Excused
<1>12. TopsKnown(v)
  BY <1>2, <1>10 DEF CalendarOK, TopsKnown
<1>13. Apart(v, {})
  BY <1>10, <1>11 DEF CalendarOK, Apart
<1>14. Housed(v.task[t])
  BY <1>7, <1>8, <1>9, <1>10 DEF Housed
<1>15. \A u \in Tasks \ {t} : Displaced(w.task[u], v.task[u])
  BY <1>10 DEF Displaced
<1> QED
  BY <1>1, <1>10, <1>12, <1>13, <1>14, <1>15 DEF Leaves, CalendarOK, Seated

-----------------------------------------------------------------------------
(* The clock of a seated row. *)

\* A slot starts on the clock of its row, unless that clock has begun; a fixed
\* task has no deadline and sits on its clock.
OnClock(r) ==
  /\ r.slot # None /\ r.clock >= now => r.slot.start = r.clock
  /\ r.kind = "fixed" => /\ r.by = None
                         /\ r.slot # None => r.slot.start = r.clock /\ r.slot.end = r.clock + r.dur

\* A copy is flexible, and no job of a create is about it.
ClockedRow(t, r) == OnClock(r) /\ (t \in Copies => ~r.placing /\ r.kind = "flexible")

Clocked(w) == \A t \in Tasks : ClockedRow(t, w.task[t])

\* A slot that has started keeps a clock that has begun; a seated copy is new.
LEMMA MovedOnClock ==
  ASSUME now \in Int, NEW t, NEW a, RowOK(a), ClockedRow(t, a), NEW m, NEW b, MovedBy(m, t, a, b)
  PROVE  ClockedRow(t, b)
<1>0. a \in Row
  BY DEF RowOK
<1>1. CASE TaskMove(m, t, a) /\ m.to # None /\ b = Shifted(a, m)
  <2> DEFINE to == m.to
             clock == IF a.slot.start < now THEN a.clock ELSE to.start
  <2>1. /\ b = [a EXCEPT !.slot = to, !.clock = clock] /\ a.kind = "flexible" /\ a.slot # None
        /\ to \in Interval
    BY <1>1 DEF Shifted, TaskMove
  <2>2. clock >= now => to.start = clock
    BY <1>0, <2>1 DEF RowOK, Row, ClockedRow, OnClock, Interval
  <2> HIDE DEF to, clock
  <2>3. b.slot = to /\ b.clock = clock /\ b.kind = "flexible" /\ b.placing = a.placing
    BY <1>0, <2>1 DEF Row
  <2> QED
    BY <2>2, <2>3 DEF ClockedRow, OnClock
<1>2. CASE TaskMove(m, t, a) /\ m.to = None /\ b = Park(a)
  BY <1>0, <1>2 DEF Park, Row, ClockedRow, OnClock
<1>3. CASE b = DayCopy(m)
  BY <1>3 DEF DayCopy, Absent, ClockedRow, OnClock
<1> QED
  BY <1>1, <1>2, <1>3 DEF MovedBy

\* The moves of a plan leave every clock as it should be.
LEMMA ClockedByPlan ==
  ASSUME now \in Int, NEW w, NEW t, NEW who, NEW all, NEW rows, NEW reach,
         PlanFor(w, t, who, all, rows, reach),
         NEW i, NEW moves, NEW X, NEW at, Rearranged(i, moves, X, at, rows, reach),
         NEW v, Obeys(v, w, t, moves), Clocked(w), ClockedRow(t, v.task[t])
  PROVE  Clocked(v)
<1>1. Shape(w) /\ MovesAre(moves, w)
  BY PlanMoves DEF PlanFor
<1>2. ASSUME NEW u \in Tasks \ {t} PROVE ClockedRow(u, v.task[u])
  BY <1>1, ObeyedRow, MovedOnClock DEF Shape, Clocked
<1> QED
  BY <1>2 DEF Clocked

LEMMA PutClocked ==
  ASSUME NEW w, Shape(w), Clocked(w), NEW t \in Tasks, NEW r, ClockedRow(t, r)
  PROVE  Clocked(Put(w, t, r))
<1>1. w.task \in [Tasks -> Row]
  BY DEF Shape, Worlds
<1>2. Put(w, t, r).task = [w.task EXCEPT ![t] = r]
  BY DEF Shape, Worlds, Put
<1> QED
  BY <1>1, <1>2 DEF Clocked

LEMMA SettledOnClock ==
  ASSUME NEW t, NEW r \in Row, ClockedRow(t, r), NEW at \in Interval, NEW by,
         r.kind = "fixed" => by = None, NEW new, new = Settled(r, at, by)
  PROVE  ClockedRow(t, new)
<1> DEFINE q == Unparked(r)
           from == at.start
           len == at.end - at.start
<1>1. q \in Row /\ q.kind = r.kind /\ q.placing = r.placing
  BY DEF Unparked, Row
<1>2. new = [q EXCEPT !.clock = from, !.dur = len, !.by = by, !.slot = at]
  BY DEF Settled
<1>3. at.start = from /\ at.end = from + len
  BY DEF Interval
<1> HIDE DEF q, from, len
<1>4. /\ new.clock = from /\ new.dur = len /\ new.by = by /\ new.slot = at
      /\ new.kind = r.kind /\ new.placing = r.placing
  BY <1>1, <1>2 DEF Row
<1> QED
  BY <1>3, <1>4 DEF ClockedRow, OnClock

LEMMA PersistedClocked ==
  ASSUME NEW w, NEW t, Placeable(w, t), NEW o, OptionsOK(o), now \in Int, NEW order,
         NEW plan, plan = Planned(w, t, o, order), Writes(w, t, o, plan),
         NEW v, v = Persisted(w, t, o, plan), Clocked(w)
  PROVE  Clocked(v)
<1> DEFINE r == w.task[t]
<1>1. /\ Shape(w) /\ t \in Tasks /\ RowOK(r) /\ r \in Row /\ ClockedRow(t, r)
      /\ r.state \notin {"absent", "deleted"}
  BY DEF Placeable, Shape, Clocked, RowOK
<1>2. ~Over(ClaimInterval(r, o)) /\ plan.outcome # "conflict"
  BY DEF Writes
<1>3. plan.outcome \in Outcomes
  BY <1>1, <1>2, PlannedWell
<1>4. plan.outcome \in {"seated", "problematic", "unscheduled"}
  BY <1>2, <1>3 DEF Outcomes
<1>5. CASE plan.outcome = "seated"
  <2> DEFINE i == plan.at
             moves == plan.moves
             by == IF o.drag THEN DeadlineAfterDrop(r.by, i) ELSE r.by
             new == Settled(r, i, by)
             w0 == Put(w, t, new)
  <2>1. PICK all, rows, reach, X, at :
             /\ PlanFor(w, t, t, all, rows, reach)
             /\ Rearranged(i, moves, X, at, rows, reach)
             /\ i \in Interval /\ i.start < i.end
    BY <1>1, <1>2, <1>5, PlannedWell
  <2>2. v = AllMoved(w0, moves)
    BY <1>5 DEF Persisted
  <2>3. by \in Int \cup {None} /\ (r.kind = "fixed" => by = None)
    BY <1>1, <2>1, DeadlineIs DEF Row, ClockedRow, OnClock, DeadlineAfterDrop
  <2> HIDE DEF i, moves, by
  <2>4. RowOK(new) /\ new.state = "none" /\ ClockedRow(t, new)
    <3>1. new = Settled(r, i, by) /\ r \in Row /\ i \in Interval /\ i.start < i.end
      BY <1>1, <2>1
    <3> HIDE DEF new, r
    <3>2. RowOK(new) /\ new.state = "none"
      BY <2>3, <3>1, SeatedRow
    <3> QED
      BY <1>1, <2>3, <3>1, <3>2, SettledOnClock
  <2> HIDE DEF new
  <2>5. /\ Shape(w0) /\ w0.task[t] = new /\ w0.held = w.held
        /\ \A u \in Tasks \ {t} : w0.task[u] = w.task[u]
    BY <1>1, <2>4, PutMade DEF SameBeing
  <2> HIDE DEF w0
  <2>6. Obeys(v, w, t, moves) /\ v.task[t] = new
    BY <2>5, <2>1, <2>2, AfterPlan
  <2> QED
    BY <2>1, <2>4, <2>6, ClockedByPlan
<1>6. CASE plan.outcome = "problematic"
  <2>1. v = Put(w, t, Park(r))
    BY <1>6 DEF Persisted
  <2> DEFINE new == Park(r)
  <2>2. new.slot = None /\ new.kind = r.kind /\ new.by = r.by /\ new.placing = r.placing
    BY <1>1 DEF Park, Row
  <2> HIDE DEF new
  <2>3. ClockedRow(t, new)
    BY <1>1, <2>2 DEF ClockedRow, OnClock
  <2> QED
    BY <1>1, <2>1, <2>3, PutClocked DEF new
<1>7. CASE plan.outcome = "unscheduled"
  <2>1. v = Put(w, t, Unscheduled(r))
    BY <1>7 DEF Persisted
  <2> DEFINE p == Park(r)
             q == Unparked(p)
             new == Unscheduled(r)
  <2>2. p.slot = None /\ p.kind = r.kind /\ p.by = r.by /\ p.placing = r.placing /\ p \in Row
    <3>1. p \in Row
      BY <1>1, ParkOK DEF RowOK
    <3>2. p.slot = None /\ p.kind = r.kind /\ p.by = r.by /\ p.placing = r.placing
      BY <1>1 DEF Park, Row
    <3> QED
      BY <3>1, <3>2
  <2> HIDE DEF p
  <2>3. q.slot = None /\ q.kind = r.kind /\ q.by = r.by /\ q.placing = r.placing /\ q \in Row
    <3>1. q \in Row
      BY <2>2, UnparkedOK
    <3>2. q.slot = p.slot /\ q.kind = p.kind /\ q.by = p.by /\ q.placing = p.placing
      BY <2>2 DEF Unparked, Row
    <3> QED
      BY <2>2, <3>1, <3>2
  <2>4. new = [q EXCEPT !.state = "unscheduled"]
    BY DEF Unscheduled, p
  <2> HIDE DEF q
  <2>5. new.slot = None /\ new.kind = r.kind /\ new.by = r.by /\ new.placing = r.placing
    BY <2>3, <2>4 DEF Row
  <2> HIDE DEF new
  <2>6. ClockedRow(t, new)
    BY <1>1, <2>5 DEF ClockedRow, OnClock
  <2> QED
    BY <1>1, <2>1, <2>6, PutClocked DEF new
<1> QED
  BY <1>4, <1>5, <1>6, <1>7

LEMMA RejoinedClocked ==
  ASSUME NEW w, Shape(w), NEW s \in Series, NEW d \in Days, NEW t, CopyOf(t, s, d),
         w.task[t].state \notin {"absent", "deleted"},
         now \in Int, NEW order, NEW plan, plan = SeriesDayPlan(w, t, order),
         plan.outcome = "seated", NEW v, v = Rejoined(w, t, plan), Clocked(w)
  PROVE  Clocked(v)
<1> DEFINE i == plan.at
           moves == plan.moves
           w0 == TakenBack(w, t)
           reach == DaySpan(d)
<1>1. t = <<s, d>>
  BY DEF CopyOf
<1>2. PICK all, rows, X, at :
           /\ PlanFor(w, t, s, all, rows, reach)
           /\ Rearranged(i, moves, X, at, rows, reach)
  BY <1>1, SeriesDayPlanWell
<1>3. v = AllMoved(w0, moves)
  BY DEF Rejoined, TakenBack
<1>4. /\ Shape(w0) /\ w0.task[t] = Absent
      /\ \A u \in Tasks \ {t} : w0.task[u] = w.task[u]
      /\ \A r \in Series, e \in Days : e \in w0.held[r] <=> e \in w.held[r] \/ <<r, e>> = t
  BY <1>1, TakenBackIs
<1> HIDE DEF i, moves, w0, reach
<1>5. \A r \in Series : w.held[r] \subseteq w0.held[r]
  BY <1>4 DEF Shape, Worlds
<1>6. Obeys(v, w, t, moves) /\ v.task[t] = Absent
  BY <1>4, <1>2, <1>3, <1>5, AfterPlan
<1>7. ClockedRow(t, v.task[t])
  BY <1>6 DEF ClockedRow, OnClock, Absent
<1> QED
  BY <1>2, <1>6, <1>7, ClockedByPlan

LEMMA MergedClocked ==
  ASSUME NEW v, Shape(v), NEW t \in Tasks, NEW plan, NEW order, now \in Int, Clocked(v)
  PROVE  Clocked(Merged(v, t, plan, order))
<1> DEFINE day == SeriesDayPlan(v, t, order)
           z == Merged(v, t, plan, order)
<1>1. z = v \/ (t \in Copies /\ Rejoins(v, t, day) /\ z = Rejoined(v, t, day))
  BY DEF Merged, BackInSeries
<1> HIDE DEF z
<1>2. CASE z = v
  BY <1>2 DEF z
<1>3. CASE t \in Copies /\ Rejoins(v, t, day) /\ z = Rejoined(v, t, day)
  <2>1. PICK s \in Series, d \in Days : t = <<s, d>>
    BY <1>3 DEF Copies
  <2>2. v.task[t].state = "none" /\ day.outcome = "seated" /\ CopyOf(t, s, d)
    BY <1>3, <2>1 DEF Rejoins, CopyOf
  <2>3. day = SeriesDayPlan(v, t, order)
    OBVIOUS
  <2> HIDE DEF day
  <2>4. Clocked(z)
    BY <1>3, <2>2, <2>3, RejoinedClocked
  <2> QED
    BY <2>4 DEF z
<1> QED
  BY <1>1, <1>2, <1>3

LEMMA WrittenClocked ==
  ASSUME NEW w, NEW t, Placeable(w, t), NEW o, OptionsOK(o), now \in Int, NEW order,
         NEW plan, plan = Planned(w, t, o, order), NEW out, out = Written(w, t, o, plan, order),
         Clocked(w)
  PROVE  Clocked(out.world)
<1>1. out.world = IF Writes(w, t, o, plan)
                  THEN Merged(Persisted(w, t, o, plan), t, plan, order) ELSE w
  BY DEF Written
<1>2. ASSUME Writes(w, t, o, plan)
      PROVE  Clocked(Merged(Persisted(w, t, o, plan), t, plan, order))
  <2> DEFINE v == Persisted(w, t, o, plan)
  <2>1. Clocked(v)
    BY <1>2, PersistedClocked
  <2>2. Shape(v) /\ t \in Tasks
    BY <1>2, PersistedLeaves DEF Placeable, Leaves, CalendarOK
  <2> HIDE DEF v
  <2>3. Clocked(Merged(v, t, plan, order))
    BY <2>1, <2>2, MergedClocked
  <2> QED
    BY <2>3 DEF v
<1> QED
  BY <1>1, <1>2

LEMMA ResolvedClocked ==
  ASSUME NEW w, Shape(w), NEW t \in Tasks, w.task[t].state = "resolved",
         NEW o, OptionsOK(o), NEW out, out = ResolvedPlaced(w, t, o), Clocked(w)
  PROVE  Clocked(out.world)
<1> DEFINE r == w.task[t]
           at == IF o.preferred # None THEN o.preferred ELSE r.clock
           len == IF o.preferred # None THEN o.dur ELSE r.dur
           i == [start |-> at, end |-> at + len]
           same == i.start = r.clock /\ i.end = r.clock + r.dur
           lasts == i.end - i.start
           off == [Unparked(r) EXCEPT !.clock = at, !.dur = lasts]
           next == IF same THEN r ELSE off
           new == [next EXCEPT !.slot = i]
           v == Put(w, t, new)
<1>1. out.world = v
  <2>1. i = [start |-> at, end |-> at + IF o.preferred # None THEN o.dur ELSE r.dur]
    OBVIOUS
  <2>2. out = [world |-> v, plan |-> Seated(i, {})]
    BY <2>1, Zenon DEF ResolvedPlaced
  <2> QED
    BY <2>2
<1>2. r \in Row /\ r.clock \in Int /\ r.dur \in Nat \ {0} /\ ClockedRow(t, r)
  BY DEF Shape, Clocked, RowOK, Row
<1>3. at \in Int /\ len \in Nat \ {0}
  BY <1>2 DEF OptionsOK
<1> HIDE DEF at, len
<1>4. i.start = at /\ i.end = at + len /\ lasts = len
  BY <1>3
<1> DEFINE q == Unparked(r)
<1>5. q \in Row /\ q.kind = r.kind /\ q.by = r.by /\ q.placing = r.placing
  BY <1>2 DEF Unparked, Row
<1>6. off = [q EXCEPT !.clock = at, !.dur = lasts]
  OBVIOUS
<1> HIDE DEF i, lasts, q
<1>7. /\ off \in Row /\ off.clock = at /\ off.dur = len /\ off.kind = r.kind /\ off.by = r.by
      /\ off.placing = r.placing
  BY <1>3, <1>4, <1>5, <1>6 DEF Row
<1> HIDE DEF off
<1>8. /\ i.start = next.clock /\ i.end = next.clock + next.dur /\ next.kind = r.kind /\ next.by = r.by
      /\ next.placing = r.placing /\ next \in Row
  BY <1>2, <1>4, <1>7
<1> HIDE DEF next
<1>9. /\ new.slot = i /\ new.clock = next.clock /\ new.dur = next.dur /\ new.kind = r.kind
      /\ new.by = r.by /\ new.placing = r.placing
  BY <1>8 DEF Row
<1> HIDE DEF new
<1>10. ClockedRow(t, new)
  BY <1>2, <1>8, <1>9 DEF ClockedRow, OnClock
<1> QED
  BY <1>1, <1>10, PutClocked

\* placeUnlocked
LEMMA PlacedClocked ==
  ASSUME NEW w, Clocked(w), NEW t \in Tasks,
         IF w.task[t].state = "resolved" THEN Shape(w) ELSE Placeable(w, t),
         NEW o, OptionsOK(o), OptionFields \subseteq DOMAIN o,
         now \in Int, NEW order, NEW out, out = Placed(w, t, o, order)
  PROVE  Clocked(out.world)
<1>1. CASE w.task[t].state = "resolved"
  BY <1>1, ResolvedClocked DEF Placed
<1>2. CASE w.task[t].state # "resolved"
  <2> DEFINE first == Planned(w, t, o, order)
             o2 == HoleInstead(w, t, o)
             again == Planned(w, t, o2, order)
  <2>0. Placeable(w, t)
    BY <1>2
  <2>1. \/ out = Written(w, t, o, first, order)
        \/ out = Written(w, t, o2, again, order)
    BY <1>2 DEF Placed, Reconsidered
  <2>2. OptionsOK(o2)
    BY <2>0, HoleInsteadIs DEF OptionFields, Placeable
  <2>3. first = Planned(w, t, o, order) /\ again = Planned(w, t, o2, order)
    OBVIOUS
  <2> HIDE DEF first, again, o2
  <2> QED
    BY <2>0, <2>1, <2>2, <2>3, WrittenClocked
<1> QED
  BY <1>1, <1>2

-----------------------------------------------------------------------------
(* A pass over the inbox. *)

LEMMA AutoSeatOptionsOK ==
  ASSUME NEW r \in Row
  PROVE  /\ OptionsOK(AutoSeatOptions(r)) /\ OptionFields \subseteq DOMAIN AutoSeatOptions(r)
         /\ AutoSeatOptions(r).hole = TRUE
BY DEF AutoSeatOptions, Options, OptionsOK, OptionFields, Row

LEMMA OneHole ==
  ASSUME NEW w, CalendarOK(w), NEW t \in Tasks, SeatsItself(w.task[t]), now \in Int, NEW order,
         NEW v, v = Placed(w, t, AutoSeatOptions(w.task[t]), order).world
  PROVE  Leaves(v, w, t) /\ (Clocked(w) => Clocked(v))
<1> DEFINE r == w.task[t]
           o == AutoSeatOptions(r)
           out == Placed(w, t, o, order)
<1>1. r.state = "problematic" /\ r \in Row
  BY DEF SeatsItself, CalendarOK, Shape, RowOK
<1>2. Placeable(w, t)
  BY <1>1 DEF Placeable, CalendarOK, Apart
<1>3. OptionsOK(o) /\ OptionFields \subseteq DOMAIN o
  BY <1>1, AutoSeatOptionsOK
<1>4. v = out.world /\ out = Placed(w, t, o, order)
  OBVIOUS
<1> HIDE DEF o, out
<1>5. PICK oo : Came(out, w, t, oo, order)
  BY <1>1, <1>2, <1>3, <1>4, PlacedComes
<1>6. Leaves(v, w, t)
  BY <1>1, <1>4, <1>5 DEF Came, Leaves, Housed, Displaced
<1>7. Clocked(w) => Clocked(v)
  BY <1>1, <1>2, <1>3, <1>4, PlacedClocked
<1> QED
  BY <1>6, <1>7

\* A slot that is open, and a fixed task that waits for one.
OpenRow(r) ==
  r.state \in {"none", "resolved"} /\ r.status # "done" /\ r.slot # None /\ r.slot.end > now

WaitsFixed(r) == r.kind = "fixed" /\ r.state = "none" /\ r.status # "done" /\ r.clock # None

Meets(r, t, i) ==
  \/ OpenRow(r) /\ Overlaps(i, r.slot)
  \/ OpenRow(r) /\ t \in Copies
       /\ \E p \in PartsOf(r) : HomeClock(t, p) # None /\ Overlaps(i, HomeClock(t, p))
  \/ WaitsFixed(r) /\ Overlaps(i, [start |-> r.clock, end |-> r.clock + r.dur])

\* An interval that meets someone's time in a world, taken or reserved.
Hit(w, i) ==
  \/ \E t \in Tasks : Meets(w.task[t], t, i)
  \/ \E s \in Series : \E d \in w.held[s] : Home(s, d).end > now /\ Overlaps(i, Home(s, d))

\* The time of a seat that a search keeps free.
Touches(i, x) == Overlaps(i, x) \/ (x.home # None /\ Overlaps(i, x.home))

LEMMA ElapsedMeets ==
  ASSUME now \in Int, NEW t \in Tasks, NEW r, RowOK(r), HasSeat(r), IsBegun(r), NEW i \in Interval,
         i.start >= now, Touches(i, ElapsedSeat(t, r))
  PROVE  Meets(r, t, i)
<1> DEFINE p == [start |-> r.slot.start, end |-> now]
           x == ElapsedSeat(t, r)
<1>1. x.start = p.start /\ x.end = now /\ x.home = HomeClock(t, p)
  BY DEF ElapsedSeat, SeatOf
<1>2. OpenRow(r) /\ p \in PartsOf(r)
  BY DEF HasSeat, IsBegun, SlotIsOpen, OpenRow, PartsOf
<1> HIDE DEF x, p
<1>3. ~Overlaps(i, x)
  BY <1>1 DEF Overlaps, Interval
<1>4. HomeClock(t, p) # None /\ Overlaps(i, HomeClock(t, p))
  BY <1>1, <1>3 DEF Touches, x
<1>5. t \in Copies
  BY <1>4 DEF HomeClock
<1> QED
  BY <1>2, <1>4, <1>5 DEF Meets

LEMMA TaskMeets ==
  ASSUME now \in Int, NEW t \in Tasks, NEW r, RowOK(r), ClockedRow(t, r), HasSeat(r),
         NEW i \in Interval, i.start >= now, Touches(i, TaskSeat(t, r))
  PROVE  Meets(r, t, i)
<1> DEFINE windows == Clip(HorizonWindows(r.phase), now, Until(r.by))
           x == TaskSeat(t, r)
<1>1. x = CASE IsBegun(r) -> SeatOf(t, "slot", "flexible", [start |-> now, end |-> r.slot.end], windows)
            [] SlotIsOpen(r) /\ ~IsBegun(r) -> SeatOf(t, "slot", SlotRole(r), r.slot, windows)
            [] OTHER -> SeatOf(t, "peer", IF r.state = "resolved" THEN "resolved" ELSE "anchor",
                               [start |-> r.clock, end |-> r.clock + r.dur], {})
  BY DEF TaskSeat
<1>2. \A part, role, p, span : /\ SeatOf(t, part, role, p, span).start = p.start
                               /\ SeatOf(t, part, role, p, span).end = p.end
                               /\ SeatOf(t, part, role, p, span).home = HomeClock(t, p)
  BY DEF SeatOf
<1>3. \A p : HomeClock(t, p) # None => t \in Copies
  BY DEF HomeClock
<1>4. Touches(i, x)
  OBVIOUS
<1> HIDE DEF windows, x
<1>5. CASE SlotIsOpen(r)
  <2> DEFINE p == IF IsBegun(r) THEN [start |-> now, end |-> r.slot.end] ELSE r.slot
  <2>1. x.start = p.start /\ x.end = p.end /\ x.home = HomeClock(t, p)
    BY <1>1, <1>2, <1>5 DEF IsBegun
  <2>2. OpenRow(r) /\ p \in PartsOf(r)
    BY <1>5 DEF HasSeat, SlotIsOpen, OpenRow, PartsOf
  <2>3. r.slot \in Interval /\ p.end = r.slot.end /\ p.start >= r.slot.start /\ p.start \in Int
    BY <1>5 DEF RowOK, Row, SlotIsOpen, IsBegun, Interval
  <2> HIDE DEF p
  <2>4. CASE Overlaps(i, x)
    BY <2>1, <2>3, <2>4, <2>2 DEF Overlaps, Interval, Meets
  <2>5. CASE HomeClock(t, p) # None /\ Overlaps(i, HomeClock(t, p))
    BY <1>3, <2>2, <2>5 DEF Meets
  <2> QED
    BY <1>4, <2>1, <2>4, <2>5 DEF Touches
<1>6. CASE ~SlotIsOpen(r)
  <2> DEFINE p == [start |-> r.clock, end |-> r.clock + r.dur]
  <2>1. x.start = p.start /\ x.end = p.end /\ x.home = HomeClock(t, p)
    BY <1>1, <1>2, <1>6 DEF IsBegun
  <2>2. r.kind = "fixed" /\ r.clock # None /\ r.clock + r.dur > now /\ r.status # "done"
    BY <1>6 DEF HasSeat, IsPeer
  <2>3. t \notin Copies
    BY <2>2 DEF ClockedRow
  <2>4. r.state = "none"
    <3>1. r.state \in {"none", "problematic", "resolved", "unscheduled"}
      BY DEF RowOK, Row, HasSeat
    <3>2. r.state \notin {"problematic", "unscheduled"}
      BY <2>2 DEF RowOK
    <3>3. r.state # "resolved"
      <4> SUFFICES ASSUME r.state = "resolved" PROVE FALSE
        OBVIOUS
      <4>1. r.slot # None /\ r.slot.end = r.clock + r.dur
        BY <2>2 DEF RowOK, ClockedRow, OnClock
      <4> QED
        BY <1>6, <2>2, <4>1 DEF SlotIsOpen
    <3> QED
      BY <3>1, <3>2, <3>3
  <2>5. x.home = None
    BY <1>3, <2>1, <2>3
  <2>6. Overlaps(i, p)
    BY <1>4, <2>1, <2>5 DEF Touches, Overlaps
  <2> QED
    BY <2>2, <2>4, <2>6 DEF Meets, WaitsFixed
<1> QED
  BY <1>5, <1>6

\* Whatever a search from now on keeps free is the time of someone.
LEMMA RowsMeet ==
  ASSUME now \in Int, NEW w, Shape(w), Clocked(w), NEW gone, NEW x, IsRow(x, w, gone),
         NEW i \in Interval, i.start >= now, Touches(i, x)
  PROVE  Hit(w, i)
<1>1. ASSUME NEW t \in Tasks, HasSeat(w.task[t]), IsBegun(w.task[t]), x = ElapsedSeat(t, w.task[t])
      PROVE  Hit(w, i)
  BY <1>1, ElapsedMeets DEF Shape, Hit
<1>2. ASSUME NEW t \in Tasks, HasSeat(w.task[t]), x = TaskSeat(t, w.task[t])
      PROVE  Hit(w, i)
  BY <1>2, TaskMeets DEF Shape, Clocked, Hit
<1>3. ASSUME NEW s \in Series, NEW d \in w.held[s], Home(s, d).end > now, x = SeriesSeat(s, d)
      PROVE  Hit(w, i)
  BY <1>3 DEF SeriesSeat, Touches, Overlaps, Hit
<1> QED
  BY <1>1, <1>2, <1>3 DEF IsRow

SameTime(x, y) == y.task = x.task /\ y.start = x.start /\ y.end = x.end /\ y.home = x.home

\* Cutting moves nobody.
LEMMA CutMovesNobody ==
  ASSUME NEW w, NEW gone, NEW reach, NEW rows, RowsAre(rows, w, gone, reach), NEW d, NEW i,
         NEW R, R = CutToDay(rows, d, i)
  PROVE  /\ \A x \in ToSet(rows) : \E y \in ToSet(R) : SameTime(x, y)
         /\ \A y \in ToSet(R) : \E x \in ToSet(rows) : SameTime(x, y)
<1>1. \A k \in DOMAIN rows : rows[k] \in ToSet(rows)
  BY DEF ToSet
<1>2. DOMAIN R = DOMAIN rows /\ \A k \in DOMAIN rows : SameTime(rows[k], R[k])
  BY <1>1 DEF RowsAre, CutToDay, SeatFields, SameTime
<1>3. \A x \in ToSet(rows) : \E k \in DOMAIN rows : x = rows[k]
  BY DEF ToSet
<1>4. \A y \in ToSet(R) : \E k \in DOMAIN rows : y = R[k]
  BY <1>2 DEF ToSet
<1>5. \A k \in DOMAIN rows : R[k] \in ToSet(R)
  BY <1>2 DEF ToSet
<1> QED
  BY <1>1, <1>2, <1>3, <1>4, <1>5

\* No row is about the task whose place is sought, or about the series of a copy.
LEMMA RowsOfOthers ==
  ASSUME NEW w, NEW t \in Tasks, NEW x, IsRow(x, w, {t})
  PROVE  x.task # t
<1>1. ASSUME NEW u \in Tasks, x = ElapsedSeat(u, w.task[u]) PROVE x.task = u
  BY <1>1 DEF ElapsedSeat, SeatOf
<1>2. ASSUME NEW u \in Tasks, x = TaskSeat(u, w.task[u]) PROVE x.task = u
  BY <1>2 DEF TaskSeat, SeatOf
<1>3. ASSUME NEW s \in Series, NEW d, x = SeriesSeat(s, d) PROVE x.task = s /\ s # t
  BY <1>3, InputAssumption DEF SeriesSeat, Tasks, Copies
<1> QED
  BY <1>1, <1>2, <1>3 DEF IsRow

\* A place a parked task would take.
Room(h, r) ==
  /\ h \in Interval /\ h.end = h.start + r.dur /\ h.start % Step = 0
  /\ InTime(h, r)

\* A pass over the inbox seats a task beside everyone, or there is no room for it.
LEMMA InboxPlan ==
  ASSUME now \in Int, NEW w, Shape(w), NEW t \in Tasks, SeatsItself(w.task[t]),
         NEW order, NEW plan, plan = Planned(w, t, AutoSeatOptions(w.task[t]), order)
  PROVE  \/ plan = Unseated("unscheduled")
         \/ /\ plan.outcome = "seated" /\ plan.moves = {}
            /\ \A x : IsRow(x, w, {t}) => ~Overlaps(plan.at, x)
         \/ /\ plan = Unseated("problematic")
            /\ w.task[t].parkedDay = None =>
                 \A h : Room(h, w.task[t]) => \E x : IsRow(x, w, {t}) /\ Touches(h, x)
<1> DEFINE r == w.task[t]
           o == AutoSeatOptions(r)
           day == r.parkedDay
           rows == Rows(w, {t}, order)
           span == SearchSpan(r, o)
           open == HorizonWindows(r.phase)
           today == IF day = None THEN open ELSE Within(open, DaySpan(day))
           windows == IF span = None THEN today ELSE Clip(today, span.start, span.end)
           low == IF span = None THEN now ELSE span.start
           claim == [task |-> t, recurring |-> FALSE, dur |-> o.dur,
                     notBefore |-> low, windows |-> windows, interval |-> None,
                     near |-> IF o.hole THEN o.preferred ELSE None,
                     expired |-> ~o.drag /\ r.kind = "flexible" /\ r.by # None /\ r.by <= now,
                     mustFit |-> r.kind = "flexible",
                     overResolved |-> o.commit = "preferred", pack |-> ~o.raw]
           all == IF day = None THEN rows ELSE CutToDay(rows, day, None)
           soft == SoftBusy(Others(all, t))
           found == PlanHole(claim, Others(all, t), soft)
<1>1. r \in Row /\ RowOK(r) /\ r.clock = None /\ r.kind = "flexible"
  BY DEF Shape, RowOK, SeatsItself
<1>2. /\ o.preferred = (IF r.parkedDay = None THEN None ELSE r.was) /\ o.dur = r.dur
      /\ o.hole = TRUE /\ o.raw = TRUE /\ o.drag = FALSE /\ o.day = r.parkedDay
      /\ o.commit = "always"
  BY DEF AutoSeatOptions, Options
<1>3. OptionsOK(o) /\ plan = Planned(w, t, o, order)
  BY <1>1, AutoSeatOptionsOK
<1> HIDE DEF o
<1>4. ClaimInterval(r, o) = None
  BY <1>2 DEF ClaimInterval
<1>5. plan = PlanPlacement(claim, all)
  <2> DEFINE i == ClaimInterval(r, o)
             on == CASE o.day # None -> o.day
                     [] o.day = None /\ i # None -> DayOf(i.start)
                     [] OTHER -> IF o.preferred = None THEN None ELSE DayOf(o.preferred)
             wide == IF span = None \/ ~o.drag \/ i = None THEN span
                     ELSE [start |-> Min({span.start, i.start}), end |-> Max({span.end, i.end})]
             here == IF on = None THEN open ELSE Within(open, DaySpan(on))
             claimed == [task |-> t, recurring |-> FALSE, dur |-> o.dur,
                         notBefore |-> IF wide = None THEN now ELSE wide.start,
                         windows |-> IF wide = None THEN here ELSE Clip(here, wide.start, wide.end),
                         interval |-> i, near |-> IF o.hole THEN o.preferred ELSE None,
                         expired |-> ~o.drag /\ r.kind = "flexible" /\ r.by # None /\ r.by <= now,
                         mustFit |-> r.kind = "flexible",
                         overResolved |-> o.commit = "preferred", pack |-> ~o.raw]
  <2>1. plan = IF Over(i) THEN Seated(i, {})
               ELSE PlanPlacement(claimed, IF on = None THEN rows ELSE CutToDay(rows, on, i))
    BY <1>3 DEF Planned, DaySpan
  <2>2. i = None /\ ~Over(i)
    BY <1>4 DEF Over
  <2> HIDE DEF i
  <2>3. on = day /\ wide = span
    BY <1>2, <2>2
  <2> HIDE DEF on, wide, day, span, rows, open
  <2>4. here = today
    BY <2>3
  <2> HIDE DEF here, today
  <2>5. claimed = claim
    BY <2>2, <2>3, <2>4
  <2>6. (IF on = None THEN rows ELSE CutToDay(rows, on, i)) = all
    BY <2>2, <2>3
  <2> HIDE DEF claimed, claim, all
  <2> QED
    BY <2>1, <2>2, <2>5, <2>6
<1>6. /\ claim.task = t /\ ~claim.recurring /\ claim.dur = r.dur /\ claim.notBefore = low
      /\ claim.windows = windows /\ claim.interval = None /\ claim.near = o.preferred
      /\ ~claim.pack
  BY <1>2
<1>7. span = None \/ span \in Interval
  BY <1>1, <1>3, SearchSpanIs
<1>8. r.parkedDay = None => IF r.by = None THEN span = None ELSE span = [start |-> now, end |-> r.by]
  BY <1>1, <1>2 DEF SearchSpan
<1>9. r.phase \in Phases \cup {None} /\ day \in Int \cup {None} /\ r.dur \in Nat \ {0}
      /\ o.preferred \in Int \cup {None} /\ r.by \in Int \cup {None}
  BY <1>1, <1>3 DEF Row, OptionsOK
<1>10. WindowsIn(open, Horizon) /\ Horizon \in Interval
  BY <1>9, HorizonIsReach, AllDays
<1>11. plan = IF claim.expired THEN Unseated("unscheduled") ELSE found
  <2>1. claim.expired \in BOOLEAN
    BY <1>2
  <2> HIDE DEF all, rows, today, windows, low
  <2> QED
    BY <1>5, <1>6, <2>1 DEF PlanPlacement, Others
<1> HIDE DEF claim, span, rows, r
<1>12. WindowsIn(windows, Horizon)
  <2>1. WindowsIn(today, Horizon)
    BY <1>9, <1>10, DaySpans, WithinKeeps
  <2> HIDE DEF today
  <2>2. CASE span # None
    <3> DEFINE q == [start |-> span.start, end |-> span.end]
    <3>1. q \in Interval /\ windows = Within(today, q)
      BY <1>7, <2>2 DEF Interval, Clip
    <3> HIDE DEF q, windows
    <3> QED
      BY <1>10, <2>1, <3>1, WithinKeeps
  <2> QED
    BY <2>1, <2>2
<1>13. low \in Int
  BY <1>7 DEF Interval
<1>14. RowsAre(rows, w, {t}, Horizon) /\ \A x : x \in ToSet(rows) <=> IsRow(x, w, {t})
  BY RowsRead, RowsListed DEF rows
<1>15. RowsAre(all, w, {t}, IF day = None THEN Horizon ELSE DaySpan(day))
  BY <1>9, <1>14, CutRows
<1>16. ToSet(Others(all, t)) = { x \in ToSet(all) : x.task # t }
  BY <1>15, OthersOK DEF RowsAre
<1>17. /\ \A x \in ToSet(rows) : \E y \in ToSet(all) : SameTime(x, y)
       /\ \A y \in ToSet(all) : \E x \in ToSet(rows) : SameTime(x, y)
  <2>1. CASE day = None
    BY <2>1 DEF SameTime
  <2>2. CASE day # None
    <3>1. all = CutToDay(rows, day, None)
      BY <2>2
    <3> HIDE DEF all, day
    <3> QED
      BY <1>14, <3>1, CutMovesNobody
  <2> QED
    BY <2>1, <2>2
<1>18. RawClaim(claim, 0)
  BY <1>6, <1>12, <1>9, <1>13 DEF WindowsIn, Horizon, Searches, RawClaim
<1> HIDE DEF all, low, windows, today
<1>19. ASSUME found.outcome = "seated"
       PROVE  found.moves = {} /\ \A x : IsRow(x, w, {t}) => ~Overlaps(found.at, x)
  <2>1. found.moves = {} /\ \A x \in ToSet(Others(all, t)) : ~Overlaps(found.at, x)
    <3> HIDE DEF soft
    <3> QED
      BY <1>18, <1>19, RawPlacementDisturbsNobody
  <2> HIDE DEF found
  <2>2. ASSUME NEW x, IsRow(x, w, {t}) PROVE ~Overlaps(found.at, x)
    <3>1. PICK y \in ToSet(all) : SameTime(x, y)
      BY <1>14, <1>17, <2>2
    <3>2. y \in ToSet(Others(all, t))
      BY <1>16, <2>2, <3>1, RowsOfOthers DEF SameTime
    <3> QED
      BY <2>1, <3>1, <3>2 DEF SameTime, Overlaps
  <2> QED
    BY <2>1, <2>2
<1>20. found.outcome = "seated" \/ found = Unseated("problematic")
  <2>1. \A i : Seated(i, {}).outcome = "seated"
    BY DEF Seated
  <2> HIDE DEF soft
  <2> QED
    BY <1>18, <2>1, RawPlans
<1>21. ASSUME found = Unseated("problematic"), r.parkedDay = None, NEW h, Room(h, r)
       PROVE  \E x : IsRow(x, w, {t}) /\ Touches(h, x)
  <2>1. found.outcome # "seated"
    BY <1>21 DEF Unseated
  <2>2. ~IsHole(h, claim.dur, claim.notBefore, claim.windows, Taken(Others(all, t)))
    <3> HIDE DEF soft
    <3> QED
      BY <1>6, <1>18, <2>1, RawPlacementUsesTheRoom
  <2>3. FitsWindow(h, windows)
    <3>1. h \in Interval /\ h.start < h.end /\ FitsWindow(h, open) /\ open \subseteq Interval
      BY <1>9, <1>10, <1>21 DEF Room, InTime, WindowsIn, Interval
    <3>2. CASE r.by = None
      BY <1>8, <1>21, <3>1, <3>2 DEF windows, today
    <3>3. CASE r.by # None
      <4> DEFINE q == [start |-> now, end |-> r.by]
      <4>1. q \in Interval /\ q.start = now /\ q.end = r.by
        BY <1>9, <3>3 DEF Interval
      <4>2. windows = Within(open, q)
        BY <1>8, <1>21, <3>3, NoNone, <4>1 DEF windows, today, Clip
      <4>3. h.start >= q.start /\ h.end <= q.end
        BY <1>21, <3>3, <4>1 DEF Room, InTime
      <4> HIDE DEF q, open
      <4> QED
        BY <3>1, <4>1, <4>2, <4>3, WithinFits
    <3> QED
      BY <3>2, <3>3
  <2>4. h.start >= low
    BY <1>8, <1>21 DEF low, Room, InTime
  <2>5. PICK b \in Taken(Others(all, t)) : Overlaps(h, b)
    BY <1>6, <1>21, <2>2, <2>3, <2>4 DEF IsHole, Room
  <2>6. PICK y \in ToSet(all) : y.task # t /\ (b = Span(y) \/ (y.home # None /\ b = y.home))
    <3>1. PICK y \in ToSet(Others(all, t)) : b \in IF y.home = None THEN {Span(y)} ELSE {Span(y), y.home}
      BY DEF Taken
    <3> QED
      BY <1>16, <3>1
  <2>7. PICK x \in ToSet(rows) : SameTime(x, y)
    BY <1>17
  <2>8. Touches(h, x)
    BY <2>5, <2>6, <2>7 DEF Touches, SameTime, Span, Overlaps
  <2> QED
    BY <1>14, <2>7, <2>8
<1> HIDE DEF found
<1> QED
  BY <1>11, <1>19, <1>20, <1>21 DEF r

\* The task `t` has changed and nobody else has; days are at most given back.
Beside(v, w, t) ==
  /\ \A u \in Tasks \ {t} : v.task[u] = w.task[u]
  /\ \A s \in Series : w.held[s] \subseteq v.held[s]

LEMMA NobodyMoves ==
  ASSUME NEW w
  PROVE  /\ \A u \in Tasks : AllMoved(w, {}).task[u] = w.task[u]
         /\ \A s \in Series : AllMoved(w, {}).held[s] = w.held[s]
BY DEF AllMoved

LEMMA SameRows ==
  ASSUME NEW w, NEW v, NEW t, \A u \in Tasks \ {t} : v.task[u] = w.task[u],
         \A s \in Series : v.held[s] = w.held[s], NEW x
  PROVE  IsRow(x, v, {t}) <=> IsRow(x, w, {t})
BY DEF IsRow

LEMMA NoneOfThem ==
  ASSUME NEW A, NEW seq \in Seq(A), NEW S, ToSet(seq) \cap S = {}
  PROVE  Those(seq, S) = <<>>
<1> DEFINE u == Those(seq, S)
<1>1. u \in Seq(A) /\ ToSet(u) = {}
  BY Picks
<1> HIDE DEF u
<1>2. Len(u) \in Nat /\ DOMAIN u = 1 .. Len(u)
  BY <1>1, LenProperties
<1>3. ~(1 \in 1 .. Len(u))
  BY <1>1, <1>2 DEF ToSet
<1> QED
  BY <1>1, <1>2, <1>3, EmptySeq DEF u

\* A series takes back a clock nobody sits on without moving anyone.
LEMMA ReturnsAlone ==
  ASSUME now \in Int, NEW w, Shape(w), NEW t \in Copies, NEW order, NEW plan,
         plan = SeriesDayPlan(w, t, order), plan.outcome = "seated",
         \A x : IsRow(x, w, {t}) => ~Overlaps(Home(t[1], t[2]), x)
  PROVE  plan.moves = {}
<1> DEFINE i == Home(t[1], t[2])
           d == t[2]
           rows == Rows(w, {t}, order)
           windows == Within(HorizonWindows(None), DaySpan(d))
           all == CutToDay(rows, d, i)
           dur == i.end - i.start
           claim == [task |-> t[1], recurring |-> TRUE, dur |-> dur, notBefore |-> now,
                     windows |-> windows, interval |-> i, near |-> None,
                     expired |-> FALSE, mustFit |-> TRUE, overResolved |-> TRUE, pack |-> TRUE]
           others == Others(all, t[1])
           soft == SoftBusy(others)
<1>1. t[1] \in Series /\ d \in Days /\ d \in Int
  <2>1. t \in Series \X Days
    BY DEF Copies
  <2>2. t[1] \in Series /\ t[2] \in Days
    BY <2>1
  <2>3. Days \subseteq Int
    BY AllDays
  <2> QED
    BY <2>2, <2>3
<1>2. i \in Interval /\ i # None
  BY <1>1, HomesAre, NoNone
<1>3. plan = PlanPlacement(claim, all)
  BY DEF SeriesDayPlan, DaySpan, Unseated
<1>4. RowsAre(rows, w, {t}, Horizon) /\ \A x : x \in ToSet(rows) <=> IsRow(x, w, {t})
  BY RowsRead, RowsListed
<1>5. /\ claim.task = t[1] /\ claim.recurring = TRUE /\ claim.interval = i /\ claim.expired = FALSE
      /\ claim.mustFit = TRUE /\ claim.overResolved = TRUE
  OBVIOUS
<1>6. \A x : IsRow(x, w, {t}) => ~Overlaps(i, x)
  OBVIOUS
<1> HIDE DEF claim, rows, i, d
<1>7. RowsAre(all, w, {t}, DaySpan(d))
  BY <1>1, <1>4, CutRows
<1>8. SeatsOK(others, DaySpan(d)) /\ ToSet(others) = { x \in ToSet(all) : x.task # t[1] }
  BY <1>7, OthersOK DEF RowsAre
<1>9. \A y \in ToSet(others) : ~Overlaps(i, y) /\ ~Overlaps(y, i)
  <2> SUFFICES ASSUME NEW y \in ToSet(all) PROVE ~Overlaps(i, y) /\ ~Overlaps(y, i)
    BY <1>8
  <2>1. PICK x \in ToSet(rows) : SameTime(x, y)
    BY <1>4, CutMovesNobody
  <2>2. ~Overlaps(i, x)
    BY <1>4, <1>6
  <2> QED
    BY <2>1, <2>2 DEF SameTime, Overlaps
<1> HIDE DEF all
<1>10. PlanPlacement(claim, all)
         = IF ~FitsWindow(i, claim.windows) THEN Unseated("problematic")
           ELSE PlanSeriesDay(claim, others, soft)
  <2>1. \A roles : ~(\E s \in ToSet(others) : s.role \in roles /\ Overlaps(s, i))
    BY <1>9
  <2>2. others = Those(all, { r \in ToSet(all) : r.task # claim.task })
    BY <1>5 DEF Others
  <2> HIDE DEF others
  <2> QED
    BY <1>2, <1>5, <2>1, <2>2 DEF PlanPlacement
<1> HIDE DEF others, soft
<1>11. PlanSeriesDay(claim, others, soft) = Seated(i, {})
  <2> DEFINE S == { r \in ToSet(others) : r.role = "flexible" /\ Overlaps(r, i) }
             direct == Those(others, S)
  <2>1. S = {}
    BY <1>9
  <2>2. direct = <<>>
    <3>1. others \in Seq(ToSet(others)) /\ ToSet(others) \cap S = {}
      BY <1>8, <2>1 DEF SeatsOK
    <3> HIDE DEF S
    <3> QED
      BY <3>1, NoneOfThem
  <2>3. ~\E s \in ToSet(others) : s.role = "series" /\ Overlaps(s, i)
    BY <1>9
  <2>4. \A chained, alone, elsewhere :
          SeriesDayOver(claim, others, <<>>, chained, alone, elsewhere) = Seated(i, {})
    BY <1>5, <2>3 DEF SeriesDayOver
  <2>5. \E chained, alone, elsewhere :
          PlanSeriesDay(claim, others, soft)
            = SeriesDayOver(claim, others, direct, chained, alone, elsewhere)
    BY <1>5 DEF PlanSeriesDay
  <2> HIDE DEF direct
  <2> QED
    BY <2>2, <2>4, <2>5
<1>12. Unseated("problematic").outcome # "seated" /\ Seated(i, {}).moves = {}
  BY DEF Unseated, Seated
<1> QED
  BY <1>3, <1>10, <1>11, <1>12

\* No room for a parked task beside the others of a world.
Crowded(w, t, r) ==
  SeatsItself(r) /\ r.parkedDay = None => \A h : Room(h, r) => \E x : IsRow(x, w, {t}) /\ Touches(h, x)

\* The seat a pass over the inbox gives moves nobody else, and is kept if it is
\* one of a series.
LEMMA SeatedBeside ==
  ASSUME now \in Int, NEW w, CalendarOK(w), NEW t \in Tasks, SeatsItself(w.task[t]), NEW order,
         NEW o, OptionsOK(o), o.hole, ~o.drag, NEW plan, plan = Planned(w, t, o, order),
         plan.outcome = "seated", plan.moves = {},
         \A x : IsRow(x, w, {t}) => ~Overlaps(plan.at, x),
         NEW v, v = Merged(Persisted(w, t, o, plan), t, plan, order)
  PROVE  Beside(v, w, t) /\ v.task[t].state \in {"none", "absent"}
<1> DEFINE r == w.task[t]
           i == plan.at
           by == r.by
           new == Settled(r, i, by)
           w0 == Put(w, t, new)
           v1 == Persisted(w, t, o, plan)
           day == SeriesDayPlan(v1, t, order)
<1>1. r \in Row /\ r.state = "problematic" /\ by \in Int \cup {None} /\ Shape(w)
  BY DEF CalendarOK, Shape, RowOK, Row, SeatsItself
<1>2. ~Over(ClaimInterval(r, o))
  BY DEF ClaimInterval, Over
<1>3. i \in Interval /\ i.start < i.end
  BY <1>1, <1>2, PlannedWell
<1>4. v1 = AllMoved(w0, {})
  BY DEF Persisted
<1>5. v1 = Persisted(w, t, o, plan) /\ (v = v1 \/ (t \in Copies /\ Rejoins(v1, t, day) /\ v = Rejoined(v1, t, day)))
  BY DEF Merged, BackInSeries
<1>6. Shape(v1)
  BY <1>1, <1>2, <1>5, PersistedSeated DEF CalendarOK, Apart, Leaves
<1> HIDE DEF i, v1, by
<1>7. RowOK(new) /\ new.state = "none" /\ new.slot = i /\ AsAsked(new)
  BY <1>1, <1>3, SeatedRow
<1> HIDE DEF new
<1>8. /\ w0.task[t] = new /\ w0.held = w.held
      /\ \A u \in Tasks \ {t} : w0.task[u] = w.task[u]
  BY <1>1, <1>7, PutMade DEF SameBeing
<1> HIDE DEF w0
<1>9. /\ v1.task[t] = new /\ \A u \in Tasks \ {t} : v1.task[u] = w.task[u]
      /\ \A s \in Series : v1.held[s] = w.held[s]
  BY <1>4, <1>8, NobodyMoves
<1>10. CASE v = v1
  BY <1>7, <1>9, <1>10 DEF Beside
<1>11. CASE t \in Copies /\ Rejoins(v1, t, day) /\ v = Rejoined(v1, t, day)
  <2>1. PICK s \in Series, d \in Days : t = <<s, d>>
    BY <1>11 DEF Copies
  <2>2. /\ day.outcome = "seated"
        /\ [start |-> new.clock, end |-> new.clock + new.dur] = Home(t[1], t[2])
    BY <1>9, <1>11 DEF Rejoins
  <2>3. new.slot.start = new.clock /\ new.slot.end = new.clock + new.dur
    BY <1>3, <1>7, NoNone DEF AsAsked
  <2>4. Home(t[1], t[2]).start = i.start /\ Home(t[1], t[2]).end = i.end
    BY <1>7, <2>2, <2>3
  <2>5. \A x : IsRow(x, v1, {t}) => ~Overlaps(Home(t[1], t[2]), x)
    <3> SUFFICES ASSUME NEW x, IsRow(x, v1, {t}) PROVE ~Overlaps(Home(t[1], t[2]), x)
      OBVIOUS
    <3>1. IsRow(x, w, {t})
      BY <1>9, SameRows
    <3>2. ~Overlaps(i, x)
      BY <3>1 DEF i
    <3> QED
      BY <2>4, <3>2 DEF Overlaps
  <2>6. day.moves = {}
    <3>1. day = SeriesDayPlan(v1, t, order)
      OBVIOUS
    <3> HIDE DEF day
    <3> QED
      BY <1>6, <1>11, <2>2, <2>5, <3>1, ReturnsAlone
  <2> DEFINE back0 == TakenBack(v1, t)
  <2>7. v = AllMoved(back0, {})
    BY <1>11, <2>6 DEF Rejoined, TakenBack
  <2>8. /\ back0.task[t] = Absent /\ \A u \in Tasks \ {t} : back0.task[u] = v1.task[u]
        /\ \A q \in Series, e \in Days : e \in back0.held[q] <=> e \in v1.held[q] \/ <<q, e>> = t
    BY <1>7, <1>9, <1>6, <2>1, TakenBackIs
  <2> HIDE DEF back0
  <2>9. /\ v.task[t] = Absent /\ \A u \in Tasks \ {t} : v.task[u] = w.task[u]
    BY <1>9, <2>7, <2>8, NobodyMoves
  <2>10. \A q \in Series : w.held[q] \subseteq v.held[q]
    BY <1>1, <1>9, <2>7, <2>8, NobodyMoves DEF Shape, Worlds
  <2> QED
    BY <2>9, <2>10 DEF Beside, Absent
<1> QED
  BY <1>5, <1>10, <1>11

\* A pass over the inbox changes one parked task at a time, and leaves it parked
\* only if there is no room for it.
LEMMA OneHoleBeside ==
  ASSUME now \in Int, NEW w, CalendarOK(w), NEW t \in Tasks, SeatsItself(w.task[t]), NEW order,
         NEW v, v = Placed(w, t, AutoSeatOptions(w.task[t]), order).world
  PROVE  Beside(v, w, t) /\ Crowded(w, t, v.task[t])
<1> DEFINE r == w.task[t]
           o == AutoSeatOptions(r)
           plan == Planned(w, t, o, order)
<1>1. r \in Row /\ RowOK(r) /\ r.state = "problematic" /\ r.clock = None /\ Shape(w)
  BY DEF CalendarOK, Shape, RowOK, SeatsItself
<1>2. o.hole /\ ~o.drag /\ o.commit = "always" /\ OptionsOK(o)
  BY <1>1, AutoSeatOptionsOK DEF AutoSeatOptions, Options
<1>3. \/ plan = Unseated("unscheduled")
      \/ /\ plan.outcome = "seated" /\ plan.moves = {}
         /\ \A x : IsRow(x, w, {t}) => ~Overlaps(plan.at, x)
      \/ plan = Unseated("problematic") /\ Crowded(w, t, r)
  BY <1>1, InboxPlan DEF Crowded
<1>4. plan = Planned(w, t, o, order) /\ v = Placed(w, t, o, order).world
  OBVIOUS
<1> HIDE DEF o, plan
<1>5. v = IF Writes(w, t, o, plan) THEN Merged(Persisted(w, t, o, plan), t, plan, order) ELSE w
  BY <1>2, <1>1, <1>4 DEF MissedClock, Placed, Reconsidered, Written
<1>6. ~Over(ClaimInterval(r, o))
  BY <1>2 DEF ClaimInterval, Over
<1>7. CASE plan = Unseated("unscheduled")
  <2> DEFINE new == Unscheduled(r)
  <2>1. plan.outcome = "unscheduled"
    BY <1>7 DEF Unseated
  <2>2. Writes(w, t, o, plan)
    BY <1>2, <1>6, <2>1 DEF Writes
  <2>3. v = Put(w, t, new)
    BY <1>5, <2>1, <2>2 DEF Merged, Persisted
  <2>4. RowOK(new) /\ new.state = "unscheduled"
    BY <1>1, UnscheduledOK
  <2> HIDE DEF new
  <2>5. /\ v.task[t] = new /\ v.held = w.held
        /\ \A u \in Tasks \ {t} : v.task[u] = w.task[u]
    BY <1>1, <2>3, <2>4, PutMade DEF SameBeing
  <2> QED
    BY <2>4, <2>5 DEF Beside, Crowded, SeatsItself
<1>8. CASE plan = Unseated("problematic") /\ Crowded(w, t, r)
  BY <1>8, <1>1, <1>2, <1>5 DEF Unseated, Writes, Beside
<1>9. CASE /\ plan.outcome = "seated" /\ plan.moves = {}
           /\ \A x : IsRow(x, w, {t}) => ~Overlaps(plan.at, x)
  BY <1>2, <1>6, <1>9, <1>5, <1>4, SeatedBeside DEF Writes, Crowded, SeatsItself
<1> QED
  BY <1>3, <1>7, <1>8, <1>9

\* What meets someone's time still does when a parked task is seated.
LEMMA HitStays ==
  ASSUME NEW w, NEW v, NEW t, Beside(v, w, t), w.task[t].state = "problematic", NEW i, Hit(w, i)
  PROVE  Hit(v, i)
<1>1. ~Meets(w.task[t], t, i)
  BY DEF Meets, OpenRow, WaitsFixed
<1> QED
  BY <1>1 DEF Hit, Beside

\* Everyone is left alone or has a place.
Kept(v, w) == \A u \in Tasks : v.task[u] = w.task[u] \/ Housed(v.task[u])

\* A task that waits for a seat has no room.
NoRoom(v, r) == SeatsItself(r) /\ r.parkedDay = None => \A h : Room(h, r) => Hit(v, h)

LEMMA HolesFilled ==
  ASSUME NEW w, CalendarOK(w), now \in Int, NEW order
  PROVE  /\ CalendarOK(FilledHoles(w, order)) /\ Kept(FilledHoles(w, order), w)
         /\ Clocked(w) => /\ Clocked(FilledHoles(w, order))
                          /\ \A u \in Tasks : NoRoom(FilledHoles(w, order), FilledHoles(w, order).task[u])
         /\ \A u \in Tasks : ~SeatsItself(w.task[u]) => FilledHoles(w, order).task[u] = w.task[u]
<1> DEFINE S == { t \in Tasks : SeatsItself(w.task[t]) }
           queue == Those(w.born, S)
           N == Len(queue)
           Seat(v, t) == Placed(v, t, AutoSeatOptions(v.task[t]), order).world
           Is(f) == f = [n \in 0 .. N |-> IF n = 0 THEN w ELSE Seat(f[n - 1], queue[n])]
           pass == CHOOSE f : Is(f)
           Later(n) == { queue[k] : k \in { j \in 1 .. N : j > n } }
           Good(v, n) == /\ CalendarOK(v) /\ Kept(v, w)
                         /\ Clocked(w) => /\ Clocked(v)
                                          /\ \A u \in Tasks \ Later(n) : NoRoom(v, v.task[u])
                         /\ \A u \in Tasks : u \in Later(n) \/ ~SeatsItself(w.task[u])
                                               => v.task[u] = w.task[u]
           D == { v \in Worlds : CalendarOK(v) }
           F == [p \in D \X (1 .. N) |->
                   IF Seat(p[1], queue[p[2]]) \in D THEN Seat(p[1], queue[p[2]]) ELSE p[1]]
<1>1. FilledHoles(w, order) = pass[N]
  BY DEF FilledHoles
<1>2. /\ queue \in Seq(Tasks) /\ IsInjective(queue)
      /\ ToSet(queue) = S
  <2>1. w.born \in Seq(Tasks) /\ IsInjective(w.born) /\ S \subseteq ToSet(w.born)
    BY DEF CalendarOK, Shape, Worlds, SeatsItself
  <2> DEFINE born0 == w.born
  <2>2. queue = Those(born0, S)
    OBVIOUS
  <2> HIDE DEF S, queue, born0
  <2>3. /\ queue \in Seq(Tasks) /\ IsInjective(queue)
        /\ ToSet(queue) = ToSet(born0) \cap S
    BY <2>1, <2>2, Picks DEF born0
  <2> QED
    BY <2>1, <2>3 DEF born0
<1>3. N \in Nat /\ DOMAIN queue = 1 .. N
  BY <1>2, LenProperties
<1>4. /\ \A k \in 1 .. N : queue[k] \in Tasks /\ SeatsItself(w.task[queue[k]])
      /\ \A k, n \in 1 .. N : queue[k] = queue[n] => k = n
  <2>1. \A k \in 1 .. N : queue[k] \in S
    <3> HIDE DEF queue, N, S
    <3> QED
      BY <1>2, <1>3 DEF ToSet
  <2>2. \A k, n \in 1 .. N : queue[k] = queue[n] => k = n
    <3> HIDE DEF queue, N
    <3> QED
      BY <1>2, <1>3 DEF IsInjective
  <2> QED
    BY <2>1, <2>2
<1>5. w \in D /\ Good(w, 0)
  <2>1. Later(0) = S
    <3> HIDE DEF queue, N, S
    <3> QED
      BY <1>2, <1>3 DEF ToSet
  <2>2. \A u \in Tasks \ Later(0) : NoRoom(w, w.task[u])
    BY <2>1 DEF NoRoom
  <2> HIDE DEF Later
  <2> QED
    BY <2>2 DEF CalendarOK, Shape, Kept
<1> HIDE DEF queue, N, S
<1>6. ASSUME NEW n \in 1 .. N, NEW v, Good(v, n - 1)
      PROVE  Good(Seat(v, queue[n]), n)
  <2> DEFINE t == queue[n]
             z == Seat(v, t)
  <2>1. t \in Tasks /\ t \in Later(n - 1) /\ SeatsItself(w.task[t]) /\ n \in Int
    BY <1>3, <1>4
  <2>2. /\ CalendarOK(v) /\ Kept(v, w) /\ (Clocked(w) => Clocked(v))
        /\ v.task[t] = w.task[t] /\ SeatsItself(v.task[t])
    BY <1>6, <2>1
  <2>3. /\ Leaves(z, v, t) /\ (Clocked(v) => Clocked(z))
        /\ Beside(z, v, t) /\ Crowded(v, t, z.task[t])
    <3> HIDE DEF Good, D, F
    <3>1. z = Placed(v, t, AutoSeatOptions(v.task[t]), order).world
      OBVIOUS
    <3> HIDE DEF z, t
    <3> QED
      BY <2>1, <2>2, <3>1, OneHole, OneHoleBeside
  <2> HIDE DEF z
  <2>4. \A u \in Tasks : u \in Later(n) \/ ~SeatsItself(w.task[u]) => u # t
    BY <1>4, <2>1
  <2>5. \A u \in Tasks : u \in Later(n - 1) => u \in Later(n) \/ u = t
    BY <2>1
  <2>6. Later(n) \subseteq Later(n - 1)
    BY <2>1
  <2>7. CalendarOK(z) /\ Kept(z, w)
    BY <2>2, <2>3 DEF Kept, Leaves, Beside
  <2> HIDE DEF t, Later
  <2>8. \A u \in Tasks : u \in Later(n) \/ ~SeatsItself(w.task[u]) => z.task[u] = w.task[u]
    BY <1>6, <2>3, <2>4, <2>6 DEF Beside
  <2>10. ASSUME Clocked(w), NEW u \in Tasks \ Later(n) PROVE NoRoom(z, z.task[u])
    <3> SUFFICES ASSUME SeatsItself(z.task[u]), z.task[u].parkedDay = None, NEW h, Room(h, z.task[u])
                 PROVE  Hit(z, h)
      BY DEF NoRoom
    <3>1. Hit(v, h)
      <4>1. CASE u = t
        <5>1. PICK x : IsRow(x, v, {t}) /\ Touches(h, x)
          BY <2>3, <4>1 DEF Crowded
        <5>2. h \in Interval /\ h.start >= now
          BY DEF Room, InTime
        <5> QED
          BY <2>2, <2>10, <5>1, <5>2, RowsMeet DEF CalendarOK
      <4>2. CASE u # t
        BY <2>3, <2>5, <4>2, <1>6, <2>10 DEF Beside, NoRoom
      <4> QED
        BY <4>1, <4>2
    <3> QED
      BY <2>2, <2>3, <3>1, HitStays DEF SeatsItself
  <2>9. Good(z, n)
    BY <2>2, <2>3, <2>7, <2>8, <2>10
  <2>11. z = Seat(v, queue[n])
    BY DEF z, t
  <2> HIDE DEF Good
  <2> QED
    BY <2>9, <2>11
<1> HIDE DEF Seat
<1>7. \A v, n : Good(v, n) => v \in D
  BY DEF CalendarOK, Shape
<1>8. \E f : Is(f)
  <2>1. F \in [D \X (1 .. N) -> D]
    <3> HIDE DEF D
    <3> QED
      OBVIOUS
  <2>2. PICK f \in [0 .. N -> D] : Iterated(f, w, F, N)
    <3> HIDE DEF F, D
    <3> QED
      BY <1>3, <1>5, <2>1, Iterates
  <2>3. \A n \in 0 .. N : f[n] = IF n = 0 THEN w ELSE F[<<f[n - 1], n>>]
    <3> HIDE DEF F, D
    <3> QED
      BY <2>2 DEF Iterated
  <2> DEFINE G == { n \in Nat : n <= N => Good(f[n], n) }
  <2>4. 0 \in G
    <3>1. 0 \in 0 .. N
      BY <1>3
    <3>2. f[0] = w
      <4> HIDE DEF F, D, Good, G
      <4> QED
        BY <2>3, <3>1
    <3> HIDE DEF Good
    <3> QED
      BY <1>3, <1>5, <3>2
  <2>5. ASSUME NEW n \in 0 .. (N - 1), n \in G
        PROVE  n + 1 \in G /\ f[n + 1] = Seat(f[n], queue[n + 1])
    <3>1. n + 1 \in 1 .. N /\ (n + 1) - 1 = n /\ n <= N /\ n \in 0 .. N /\ n + 1 \in Nat
      BY <1>3
    <3>2. Good(f[n], n)
      BY <2>5, <3>1
    <3>3. Good(Seat(f[n], queue[n + 1]), n + 1)
      BY <1>6, <3>1, <3>2
    <3>4. f[n] \in D /\ Seat(f[n], queue[n + 1]) \in D
      BY <1>7, <3>2, <3>3
    <3>5. f[n + 1] = F[<<f[n], n + 1>>]
      <4> HIDE DEF F
      <4> QED
        BY <1>3, <2>3, <3>1
    <3>6. f[n + 1] = Seat(f[n], queue[n + 1])
      <4> HIDE DEF D
      <4> QED
        BY <3>1, <3>4, <3>5
    <3> HIDE DEF Good
    <3> QED
      BY <3>1, <3>3, <3>6
  <2>6. \A n \in 0 .. N : n \in G
    <3> HIDE DEF G
    <3> QED
      BY <1>3, <2>4, <2>5, UpTo
  <2>7. \A n \in 0 .. N : f[n] = IF n = 0 THEN w ELSE Seat(f[n - 1], queue[n])
    <3> TAKE n \in 0 .. N
    <3>1. CASE n = 0
      <4> HIDE DEF F
      <4> QED
        BY <2>3, <3>1
    <3>2. CASE n # 0
      <4>1. n - 1 \in 0 .. (N - 1) /\ (n - 1) + 1 = n /\ n - 1 \in 0 .. N
        BY <1>3, <3>2
      <4> HIDE DEF G
      <4> QED
        BY <2>5, <2>6, <3>2, <4>1
    <3> QED
      BY <3>1, <3>2
  <2>8. Is(f)
    <3> HIDE DEF D
    <3> QED
      BY <2>7
  <2> QED
    BY <2>8
<1>9. Is(pass)
  <2> HIDE DEF Is
  <2> QED
    BY <1>8
<1> HIDE DEF pass
<1>10. \A n \in 0 .. N : pass[n] = IF n = 0 THEN w ELSE Seat(pass[n - 1], queue[n])
  BY <1>9
<1> DEFINE H == { n \in Nat : Good(pass[n], n) }
<1>11. 0 \in H
  BY <1>3, <1>5, <1>10
<1>12. ASSUME NEW n \in 0 .. (N - 1), n \in H PROVE n + 1 \in H
  <2>1. n + 1 \in 1 .. N /\ (n + 1) - 1 = n /\ n + 1 \in Nat /\ n + 1 \in 0 .. N /\ n + 1 # 0
    BY <1>3
  <2>2. Good(Seat(pass[n], queue[n + 1]), n + 1)
    <3>1. Good(pass[n], n)
      BY <1>12
    <3> HIDE DEF Good
    <3> QED
      BY <1>6, <2>1, <3>1
  <2>3. pass[n + 1] = Seat(pass[n], queue[n + 1])
    BY <1>10, <2>1
  <2> HIDE DEF Good
  <2> QED
    BY <2>1, <2>2, <2>3
<1>13. N \in H
  <2>1. \A n \in 0 .. N : n \in H
    <3> HIDE DEF H
    <3> QED
      BY <1>3, <1>11, <1>12, UpTo
  <2> HIDE DEF H
  <2> QED
    BY <1>3, <2>1
<1>14. Later(N) = {}
  BY <1>3
<1> HIDE DEF Later
<1> QED
  BY <1>1, <1>13, <1>14

-----------------------------------------------------------------------------
(* The inductive invariant. *)

Inv == now \in Nat /\ CalendarOK(World) /\ NobodyLost

\* What an open task is owed.
NotLost(t, r) ==
  r.state = "none" /\ r.status # "done" /\ ~r.placing /\ t \notin back =>
    \/ r.slot # None \/ r.asked
    \/ r.clock # None /\ r.clock + r.dur <= now

LEMMA WorldIs ==
  /\ World.task = task /\ World.held = held /\ World.born = born
  /\ World'.task = task' /\ World'.held = held' /\ World'.born = born'
BY DEF World

LEMMA LostIs == NobodyLost <=> \A t \in Tasks : NotLost(t, task[t])
BY DEF NobodyLost, NotLost

LEMMA Became ==
  ASSUME NEW v \in Worlds, Becomes(v)
  PROVE  World' = v
<1>1. v = [task |-> v.task, held |-> v.held, born |-> v.born]
  BY DEF Worlds
<1>2. World' = [task |-> task', held |-> held', born |-> born']
  BY DEF World
<1> QED
  BY <1>1, <1>2 DEF Becomes

\* The calendar of the next state.
LEMMA NextCalendar ==
  ASSUME NEW v, CalendarOK(v), World' = v, now' = now, layered' = layered, back' = back
  PROVE  CalendarOK(World)'
<1>1. Shape(World)'
  BY DEF CalendarOK
<1>2. TopsKnown(World)'
  BY DEF CalendarOK, TopsKnown
<1>3. Apart(World, {})'
  BY DEF CalendarOK, Apart, Firm, Open, Excused
<1> QED
  BY <1>1, <1>2, <1>3 DEF CalendarOK

\* Quiet changes of one row: of its marks, its phase, or what closes its slot.
LEMMA PutQuiet ==
  ASSUME NEW w, CalendarOK(w), NEW t \in Tasks, NEW r, RowOK(r), SameBeing(r, w.task[t]),
         r.state = "resolved" => w.task[t].state = "resolved",
         Firm(t, r) => Firm(t, w.task[t]) /\ r.slot = w.task[t].slot
  PROVE  CalendarOK(Put(w, t, r))
<1> DEFINE v == Put(w, t, r)
<1>1. /\ Shape(v) /\ v.task[t] = r /\ v.held = w.held
      /\ \A u \in Tasks \ {t} : v.task[u] = w.task[u]
  BY PutMade DEF CalendarOK
<1> HIDE DEF v
<1>2. TopsKnown(v)
  BY <1>1 DEF CalendarOK, TopsKnown
<1>3. \A u \in Tasks : Firm(u, v.task[u]) => Firm(u, w.task[u]) /\ v.task[u].slot = w.task[u].slot
  BY <1>1
<1>4. Apart(v, {})
  BY <1>1, <1>3 DEF CalendarOK, Apart
<1> QED
  BY <1>1, <1>2, <1>4 DEF CalendarOK, v

LEMMA InitInv == Init => Inv
<1> SUFFICES ASSUME Init PROVE Inv
  OBVIOUS
<1>1. /\ now = 0 /\ task = [t \in Tasks |-> Absent] /\ held = [s \in Series |-> Days]
      /\ born = <<>>
  BY DEF Init
<1>2. World \in Worlds
  BY EmptySeq, AbsentIsRow, <1>1 DEF Worlds, World
<1>3. Absent.state = "absent" /\ RowOK(Absent)
  BY AbsentIsRow DEF Absent
<1>4. IsInjective(born) /\ ToSet(born) = {}
  BY <1>1 DEF IsInjective, ToSet
<1>5. \A t \in Tasks : World.task[t] = Absent
  BY <1>1, WorldIs
<1>6. \A s \in Series, d \in Days : d \in World.held[s] <=> World.task[<<s, d>>].state = "absent"
  BY <1>1, <1>3, <1>5, WorldIs, TasksOf
<1>7. Shape(World)
  BY <1>2, <1>3, <1>4, <1>5, <1>6, WorldIs DEF Shape
<1>8. TopsKnown(World) /\ Apart(World, {})
  BY <1>3, <1>5 DEF TopsKnown, Apart, Firm, Open
<1>9. NobodyLost
  BY <1>1, <1>3 DEF NobodyLost
<1> QED
  BY <1>1, <1>7, <1>8, <1>9 DEF Inv, CalendarOK

LEMMA TickInv == Inv /\ Tick => Inv'
<1> SUFFICES ASSUME Inv, Tick PROVE Inv'
  OBVIOUS
<1>1. now' > now /\ now' \in Nat /\ now \in Nat /\ layered' = layered /\ back' = back
  BY InputAssumption DEF Tick, Inv
<1>2. World' = World /\ task' = task
  BY DEF Tick, World
<1>3. CalendarOK(World)
  BY DEF Inv
<1>4. Shape(World)'
  BY <1>2, <1>3 DEF CalendarOK
<1>5. TopsKnown(World)'
  BY <1>1, <1>2, <1>3 DEF CalendarOK, TopsKnown
<1>6. \A t \in Tasks : RowOK(task[t])
  BY <1>3, WorldIs DEF CalendarOK, Shape
<1>7. Apart(World, {})'
  <2>1. ASSUME NEW t \in Tasks, Firm(t, task[t])' PROVE Firm(t, task[t])
    BY <1>6, <1>1, <1>2, <2>1 DEF RowOK, Row, Interval, Firm, Open, Excused
  <2>2. \A s \in Series, d \in Days : Home(s, d).end > now' => Home(s, d).end > now
    <3> TAKE s \in Series, d \in Days
    <3>1. Home(s, d).end \in Int
      BY AllDays, HomesAre DEF Interval
    <3> QED
      BY <1>1, <3>1
  <2>3. Apart(World, {}) /\ \A t \in Tasks : World.task[t] = task[t]
    BY <1>3, WorldIs DEF CalendarOK
  <2>5. \A t, u \in Tasks :
          t # u /\ Firm(t, task[t])' /\ Firm(u, task[u])' => ~Overlaps(task[t].slot, task[u].slot)
    BY <2>1, <2>3 DEF Apart
  <2>6. \A t \in Tasks, s \in Series, d \in Days :
          Firm(t, task[t])' /\ d \in World.held[s] /\ Home(s, d).end > now'
            => ~Overlaps(task[t].slot, Home(s, d))
    BY <2>1, <2>2, <2>3 DEF Apart
  <2> QED
    BY <1>2, <2>3, <2>5, <2>6 DEF Apart
<1>8. NobodyLost'
  BY <1>6, <1>1, <1>2 DEF RowOK, Row, Inv, NobodyLost
<1> QED
  BY <1>1, <1>4, <1>5, <1>7, <1>8 DEF Inv, CalendarOK

-----------------------------------------------------------------------------
(* The steps that place nobody, and the pass over the inbox. *)

\* A step that writes one row, quietly.
LEMMA QuietStep ==
  ASSUME Inv, NEW t \in Tasks, NEW r, RowOK(r), SameBeing(r, task[t]),
         r.state = "resolved" => task[t].state = "resolved",
         Firm(t, r) => Firm(t, task[t]) /\ r.slot = task[t].slot,
         task' = [task EXCEPT ![t] = r], NotLost(t, r),
         UNCHANGED <<now, held, born, layered, back>>
  PROVE  Inv'
<1> DEFINE v == Put(World, t, r)
<1>1. CalendarOK(World) /\ World.task[t] = task[t]
  BY WorldIs DEF Inv
<1>2. CalendarOK(v)
  BY <1>1, PutQuiet
<1>3. World' = v
  BY WorldIs DEF Put, World
<1> HIDE DEF v
<1>4. CalendarOK(World)'
  BY <1>2, <1>3, NextCalendar
<1>5. task \in [Tasks -> Row]
  BY <1>1, WorldIs DEF CalendarOK, Shape, Worlds
<1>6. NobodyLost'
  BY <1>5, LostIs DEF Inv, NobodyLost, NotLost
<1> QED
  BY <1>4, <1>6 DEF Inv

LEMMA RowsSound ==
  ASSUME Inv
  PROVE  /\ CalendarOK(World) /\ Shape(World) /\ task \in [Tasks -> Row]
         /\ \A t \in Tasks : RowOK(task[t])
         /\ now \in Int
BY WorldIs DEF Inv, CalendarOK, Shape, Worlds

LEMMA BeginInv ==
  ASSUME Inv, NEW t \in Tasks, Begin(t)
  PROVE  Inv'
<1> DEFINE r == [task[t] EXCEPT !.status = "doing"]
<1>1. RowOK(task[t]) /\ task[t] \in Row /\ task \in [Tasks -> Row]
  BY RowsSound DEF RowOK
<1>2. /\ r \in Row /\ r.state = task[t].state /\ r.slot = task[t].slot /\ r.status = "doing"
      /\ r.clock = task[t].clock /\ r.kind = task[t].kind /\ r.dur = task[t].dur
      /\ r.asked = task[t].asked
  BY <1>1 DEF Row
<1>3. task' = [task EXCEPT ![t] = r]
  BY <1>1 DEF Begin
<1>4. task[t].state = "none" /\ task[t].status = "todo" /\ task[t].slot # None
      /\ UNCHANGED <<now, held, born, layered, back>>
  BY DEF Begin
<1> HIDE DEF r
<1>5. RowOK(r) /\ SameBeing(r, task[t]) /\ NotLost(t, r)
  BY <1>1, <1>2, <1>4 DEF RowOK, SameBeing, NotLost
<1>6. Firm(t, r) => Firm(t, task[t])
  BY <1>2, <1>4 DEF Firm, Open, Excused
<1> QED
  BY <1>2, <1>3, <1>4, <1>5, <1>6, QuietStep

LEMMA DoneInv ==
  ASSUME Inv, NEW t \in Tasks, Done(t)
  PROVE  Inv'
<1> DEFINE r == [task[t] EXCEPT !.status = "done"]
<1>1. RowOK(task[t]) /\ task[t] \in Row /\ task \in [Tasks -> Row]
  BY RowsSound DEF RowOK
<1>2. /\ r \in Row /\ r.state = task[t].state /\ r.slot = task[t].slot /\ r.status = "done"
      /\ r.clock = task[t].clock /\ r.kind = task[t].kind /\ r.dur = task[t].dur
      /\ r.asked = task[t].asked
  BY <1>1 DEF Row
<1>3. task' = [task EXCEPT ![t] = r] /\ UNCHANGED <<now, held, born, layered, back>>
  BY <1>1 DEF Done
<1> HIDE DEF r
<1>4. RowOK(r) /\ SameBeing(r, task[t]) /\ NotLost(t, r)
  BY <1>1, <1>2 DEF RowOK, SameBeing, NotLost
<1>5. ~Firm(t, r)
  BY <1>2 DEF Firm, Open
<1> QED
  BY <1>2, <1>3, <1>4, <1>5, QuietStep

LEMMA LeaveParkedInv ==
  ASSUME Inv, NEW t \in Tasks, LeaveParked(t)
  PROVE  Inv'
<1> DEFINE was == task[t].clock
           q == Park(task[t])
           r == [q EXCEPT !.asked = TRUE, !.was = was]
<1>1. RowOK(task[t]) /\ task[t] \in Row /\ task \in [Tasks -> Row] /\ was \in Int \cup {None}
  BY RowsSound DEF RowOK, Row
<1>2. RowOK(q) /\ q \in Row /\ q.state = "problematic" /\ q.slot = None /\ q.clock = None
  BY <1>1, ParkOK DEF RowOK
<1>3. /\ task' = [task EXCEPT ![t] = r] /\ UNCHANGED <<now, held, born, layered, back>>
      /\ task[t].state = "none"
  BY DEF LeaveParked
<1> HIDE DEF q, was
<1>4. r \in Row /\ r.state = "problematic" /\ r.slot = None /\ r.clock = None
  <2>1. r.state = q.state /\ r.slot = q.slot /\ r.clock = q.clock
    BY <1>2 DEF Row
  <2>2. r \in Row
    <3>1. q \in Row /\ was \in Int \cup {None} /\ TRUE \in BOOLEAN
      BY <1>1, <1>2
    <3> QED
      BY <3>1, ZenonT(30) DEF Row
  <2> QED
    BY <1>2, <2>1, <2>2
<1> HIDE DEF r
<1>5. RowOK(r) /\ SameBeing(r, task[t]) /\ NotLost(t, r) /\ ~Firm(t, r)
  BY <1>3, <1>4 DEF RowOK, SameBeing, NotLost, Firm, Open
<1> QED
  BY <1>3, <1>4, <1>5, QuietStep

LEMMA PutOnTopInv ==
  ASSUME Inv, NEW t \in Tasks, PutOnTop(t)
  PROVE  Inv'
<1> DEFINE o == task[t]
           slot == [start |-> o.clock, end |-> o.clock + o.dur]
           r == [o EXCEPT !.state = "resolved", !.asked = FALSE, !.was = o.clock, !.slot = slot]
           v == Put(World, t, r)
<1>1. RowOK(o) /\ o \in Row /\ task \in [Tasks -> Row] /\ CalendarOK(World) /\ Shape(World)
      /\ World.task[t] = o
  BY RowsSound, WorldIs DEF RowOK
<1>2. /\ o.state = "none" /\ o.asked /\ o.slot = None
      /\ layered' = layered \cup {t} /\ UNCHANGED <<now, held, born, back>>
  BY DEF PutOnTop
<1>3. task' = [task EXCEPT ![t] = r]
  BY <1>1 DEF PutOnTop
<1>4. o.clock \in Int /\ o.dur \in Nat \ {0}
  BY <1>1, <1>2 DEF RowOK, Row
<1>5. slot \in Interval /\ slot.start < slot.end /\ slot.end - slot.start = o.dur /\ slot # None
  BY <1>4, NoNone DEF Interval
<1> HIDE DEF slot
<1>6. /\ r \in Row /\ r.state = "resolved" /\ r.slot = slot /\ r.clock = o.clock /\ r.dur = o.dur
      /\ r.kind = o.kind
  BY <1>1, <1>4, <1>5 DEF Row
<1>8. v = [World EXCEPT !.task = [task EXCEPT ![t] = r]]
  BY WorldIs DEF Put
<1> HIDE DEF r
<1>7. RowOK(r) /\ SameBeing(r, o)
  BY <1>4, <1>5, <1>6, NoNone, <1>2 DEF RowOK, SameBeing
<1>9. World' = v
  BY <1>2, <1>3, <1>8 DEF World
<1>10. /\ Shape(v) /\ v.task[t] = r /\ v.held = held
       /\ \A u \in Tasks \ {t} : v.task[u] = task[u]
  BY <1>1, <1>7, PutMade, WorldIs
<1> HIDE DEF v
<1>11. Shape(World)'
  BY <1>9, <1>10
<1>12. TopsKnown(World)'
  BY <1>1, <1>2, <1>9, <1>10, WorldIs DEF CalendarOK, TopsKnown
<1>13. Apart(World, {})'
  BY <1>2, <1>9, <1>10, <1>1, WorldIs DEF Firm, Open, Excused, CalendarOK, Apart
<1>14. NobodyLost'
  BY <1>1, <1>2, <1>3, <1>6, LostIs DEF Inv, NobodyLost, NotLost
<1>15. now' \in Nat
  BY <1>2 DEF Inv
<1> QED
  BY <1>11, <1>12, <1>13, <1>14, <1>15 DEF Inv, CalendarOK

LEMMA SeatOpenHolesInv ==
  ASSUME Inv, SeatOpenHoles
  PROVE  Inv'
<1>1. UNCHANGED <<now, layered, back>>
  BY DEF SeatOpenHoles
<1>2. PICK order \in RowOrders : Becomes(FilledHoles(World, order))
  BY DEF SeatOpenHoles
<1> DEFINE v == FilledHoles(World, order)
<1>3. CalendarOK(World) /\ now \in Int
  BY RowsSound
<1>4. CalendarOK(v) /\ Kept(v, World)
  BY <1>3, HolesFilled
<1>5. Becomes(v)
  BY <1>2
<1> HIDE DEF v
<1>6. World' = v
  BY <1>4, <1>5, Became DEF CalendarOK, Shape
<1>7. CalendarOK(World)'
  BY <1>1, <1>4, <1>6, NextCalendar
<1>8. NobodyLost'
  BY <1>4, <1>6, WorldIs, <1>1, LostIs DEF Kept, Inv, NobodyLost, NotLost, Housed
<1> QED
  BY <1>1, <1>7, <1>8 DEF Inv

-----------------------------------------------------------------------------
(* A task that is saved, and one that is deleted. *)

\* A step that writes the row of a task that is not in anyone's way.
LEMMA RowStep ==
  ASSUME Inv, NEW t \in Tasks, NEW r, RowOK(r), r.state # "resolved", ~Firm(t, r), NotLost(t, r),
         t \in Copies => (r.state = "absent" <=> task[t].state = "absent"),
         task' = [task EXCEPT ![t] = r], born' \in Seq(Tasks), IsInjective(born'),
         ToSet(born') = { u \in Tasks : task'[u].state \notin {"absent", "deleted"} },
         UNCHANGED <<now, held, layered, back>>
  PROVE  Inv'
<1> DEFINE v == [task |-> task', held |-> held', born |-> born']
<1>1. /\ CalendarOK(World) /\ Shape(World) /\ task \in [Tasks -> Row]
      /\ \A u \in Tasks : RowOK(task[u])
  BY RowsSound
<1>2. /\ task' \in [Tasks -> Row] /\ task'[t] = r /\ \A u \in Tasks \ {t} : task'[u] = task[u]
      /\ held' = held /\ held \in [Series -> SUBSET Days]
  BY <1>1, WorldIs DEF RowOK, Shape, Worlds
<1>3. v.task = task' /\ v.held = held /\ v.born = born' /\ v \in Worlds
  BY <1>2 DEF Worlds
<1>4. World' = v
  BY DEF World
<1> HIDE DEF v
<1>5. \A s \in Series, d \in Days : d \in v.held[s] <=> v.task[<<s, d>>].state = "absent"
  <2> TAKE s \in Series, d \in Days
  <2> DEFINE u == <<s, d>>
  <2>1. u \in Tasks /\ u \in Copies /\ (d \in held[s] <=> task[u].state = "absent")
    BY <1>1, TasksOf, WorldIs DEF Shape
  <2> HIDE DEF u
  <2>2. d \in v.held[s] <=> v.task[u].state = "absent"
    BY <1>2, <1>3, <2>1
  <2> QED
    BY <2>2 DEF u
<1>6. Shape(v)
  BY <1>1, <1>2, <1>3, <1>5 DEF Shape
<1>7. TopsKnown(v)
  BY <1>1, <1>2, <1>3, WorldIs DEF CalendarOK, TopsKnown
<1>8. \A u \in Tasks : Firm(u, v.task[u]) => Firm(u, task[u]) /\ v.task[u].slot = task[u].slot
  BY <1>2, <1>3
<1>9. Apart(World, {})
  BY <1>1 DEF CalendarOK
<1>10. Apart(v, {})
  BY <1>3, <1>8, <1>9, WorldIs DEF Apart
<1>11. CalendarOK(World)'
  BY <1>4, <1>6, <1>7, <1>10, NextCalendar DEF CalendarOK
<1>12. NobodyLost'
  BY <1>2, LostIs DEF Inv, NobodyLost, NotLost
<1> QED
  BY <1>11, <1>12 DEF Inv

LEMMA SaveInv ==
  ASSUME Inv, NEW t \in OneOffs, Save(t)
  PROVE  Inv'
<1>1. PICK kind \in Kinds, dur \in Durs, clock \in Clocks \cup {None},
           by \in Deadlines \cup {None}, phase \in Phases \cup {None} :
        task' = [task EXCEPT ![t] = NewRow(kind, dur, clock, by, phase)]
  BY DEF Save
<1> DEFINE r == NewRow(kind, dur, clock, by, phase)
<1>2. /\ t \in Tasks /\ t \notin Copies /\ kind \in {"flexible", "fixed"} /\ dur \in Nat \ {0}
      /\ clock \in Int \cup {None} /\ by \in Int \cup {None} /\ phase \in Phases \cup {None}
  BY InputAssumption DEF Tasks, Copies
<1>3. r \in Row
  <2>1. Absent \in Row /\ TRUE \in BOOLEAN /\ "none" \in {"absent", "none", "problematic", "resolved", "unscheduled", "deleted"}
    BY AbsentIsRow
  <2> HIDE DEF Absent
  <2> QED
    BY <1>2, <2>1 DEF Row, NewRow
<1>4. r.state = "none" /\ r.slot = None /\ r.asked = FALSE /\ r.placing = TRUE
  BY DEF Absent, NewRow
<1>5. /\ task' = [task EXCEPT ![t] = r] /\ task[t].state = "absent" /\ born' = Append(born, t)
      /\ UNCHANGED <<now, held, layered, back>>
  BY <1>1 DEF Save
<1> HIDE DEF r
<1>6. RowOK(r) /\ r.state # "resolved" /\ ~Firm(t, r) /\ NotLost(t, r)
  BY <1>3, <1>4 DEF RowOK, Firm, Open, NotLost
<1>7. /\ task \in [Tasks -> Row] /\ born \in Seq(Tasks) /\ IsInjective(born)
      /\ ToSet(born) = { u \in Tasks : task[u].state \notin {"absent", "deleted"} }
  BY RowsSound, WorldIs DEF Shape, Worlds
<1>8. /\ born' \in Seq(Tasks) /\ IsInjective(born') /\ ToSet(born') = ToSet(born) \cup {t}
  BY <1>5, <1>7, <1>2, AppendedSet
<1>9. ToSet(born') = { u \in Tasks : task'[u].state \notin {"absent", "deleted"} }
  BY <1>2, <1>4, <1>5, <1>7, <1>8
<1> QED
  BY <1>2, <1>5, <1>6, <1>8, <1>9, RowStep

LEMMA DeleteInv ==
  ASSUME Inv, NEW t \in Tasks, Delete(t)
  PROVE  Inv'
<1> DEFINE r == [Absent EXCEPT !.state = "deleted"]
           others == Tasks \ {t}
<1>1. r \in Row /\ r.state = "deleted" /\ r.slot = None
  BY AbsentIsRow DEF Row, Absent
<1>2. /\ task' = [task EXCEPT ![t] = r] /\ task[t].state \notin {"absent", "deleted"}
      /\ born' = Those(born, others) /\ UNCHANGED <<now, held, layered, back>>
  BY DEF Delete, Exists
<1> HIDE DEF r, others
<1>3. RowOK(r) /\ r.state # "resolved" /\ ~Firm(t, r) /\ NotLost(t, r)
  BY <1>1 DEF RowOK, Firm, Open, NotLost
<1>4. /\ task \in [Tasks -> Row] /\ born \in Seq(Tasks) /\ IsInjective(born)
      /\ ToSet(born) = { u \in Tasks : task[u].state \notin {"absent", "deleted"} }
  BY RowsSound, WorldIs DEF Shape, Worlds
<1>5. born' \in Seq(Tasks) /\ IsInjective(born') /\ ToSet(born') = ToSet(born) \cap others
  BY <1>2, <1>4, Picks
<1>6. ToSet(born') = { u \in Tasks : task'[u].state \notin {"absent", "deleted"} }
  BY <1>2, <1>4, <1>1, <1>5 DEF others
<1> QED
  BY <1>1, <1>2, <1>3, <1>5, <1>6, RowStep

-----------------------------------------------------------------------------
(* The job of a create. *)

LEMMA CreateOptionsOK ==
  ASSUME NEW r \in Row
  PROVE  /\ OptionsOK(CreateOptions(r)) /\ OptionFields \subseteq DOMAIN CreateOptions(r)
         /\ CreateOptions(r).commit = "always" /\ CreateOptions(r).dur = r.dur
         /\ CreateOptions(r).preferred \in {r.clock, None}
BY DEF CreateOptions, Options, OptionsOK, OptionFields, Row

LEMMA CreateClaimIs ==
  ASSUME NEW r \in Row, NEW oo, OptionsOK(oo), oo = CreateOptions(r) \/ oo.hole,
         NEW i, i = ClaimInterval(r, oo), i # None
  PROVE  i.start = r.clock /\ i.end = r.clock + r.dur /\ r.clock \in Int
<1>1. i \in Interval /\ ~oo.hole /\ i.start \in {r.clock, oo.preferred}
      /\ i.end - i.start = IF r.kind = "fixed" THEN r.dur ELSE oo.dur
  BY ClaimIntervalIs
<1>2. oo.dur = r.dur /\ oo.preferred \in {r.clock, None}
  BY <1>1, CreateOptionsOK
<1>3. i.start \in Int /\ i.end \in Int /\ i.end - i.start = r.dur /\ r.dur \in Int
  BY <1>1, <1>2 DEF Interval, Row
<1>4. i.start = r.clock
  BY <1>1, <1>2, <1>3, NoNone
<1> QED
  BY <1>3, <1>4

\* The marks a job leaves on a row.
Marked(q, again, asks) == [q EXCEPT !.placing = again, !.asked = asks]

LEMMA MarkedOK ==
  ASSUME NEW q, RowOK(q), NEW again \in BOOLEAN, NEW asks \in BOOLEAN,
         q.state = "none" /\ asks => q.clock # None,
         NEW r, r = Marked(q, again, asks)
  PROVE  /\ RowOK(r) /\ SameBeing(r, q) /\ r.state = q.state /\ r.slot = q.slot
         /\ r.status = q.status /\ r.clock = q.clock /\ r.dur = q.dur /\ r.kind = q.kind
         /\ r.placing = again /\ r.asked = asks
<1>1. q \in Row
  BY DEF RowOK
<1>2. r \in Row /\ r.state = q.state /\ r.slot = q.slot /\ r.status = q.status /\ r.clock = q.clock
      /\ r.dur = q.dur /\ r.kind = q.kind /\ r.placing = again /\ r.asked = asks
  BY <1>1 DEF Row, Marked
<1>3. RowOK(r)
  BY <1>2 DEF RowOK
<1> QED
  BY <1>2, <1>3 DEF SameBeing

LEMMA PlaceSavedInv ==
  ASSUME Inv, NEW t \in Tasks, PlaceSaved(t)
  PROVE  Inv'
<1> DEFINE r == task[t]
           o == CreateOptions(r)
<1>1. /\ CalendarOK(World) /\ Shape(World) /\ RowOK(r) /\ r \in Row /\ now \in Int
      /\ World.task = task
  BY RowsSound, WorldIs DEF RowOK
<1>2. PICK order \in RowOrders, again \in BOOLEAN :
        LET out == Placed(World, t, o, order)
            w == IF CanPlace(r) THEN out.world ELSE World
            asks == CanPlace(r) /\ out.plan.outcome = "conflict"
        IN Becomes(Put(w, t, [w.task[t] EXCEPT !.placing = again,
                                !.asked = IF CanPlace(r) THEN asks ELSE @]))
  BY DEF PlaceSaved
<1> DEFINE out == Placed(World, t, o, order)
           w == IF CanPlace(r) THEN out.world ELSE World
           asks == CanPlace(r) /\ out.plan.outcome = "conflict"
           q == w.task[t]
           mark == IF CanPlace(r) THEN asks ELSE q.asked
           new == Marked(q, again, mark)
           v == Put(w, t, new)
<1>3. Becomes(v)
  BY <1>2 DEF Marked
<1>4. UNCHANGED <<now, layered, back>>
  BY DEF PlaceSaved
<1>5. OptionsOK(o) /\ OptionFields \subseteq DOMAIN o /\ o.commit = "always"
  BY <1>1, CreateOptionsOK
<1>6. out = Placed(World, t, o, order)
  OBVIOUS
<1> HIDE DEF out
\* The calendar before the marks, and what the task is owed.
<1>7. /\ CalendarOK(w) /\ \A u \in Tasks \ {t} : Displaced(task[u], w.task[u])
      /\ q.state = "none" /\ asks => q.clock # None
      /\ CanPlace(r) => \/ Housed(q)
                        \/ q = r /\ (asks \/ (r.clock # None /\ r.clock + r.dur <= now))
  <2>1. CASE ~CanPlace(r)
    BY <1>1, <2>1 DEF Displaced
  <2>2. CASE CanPlace(r)
    <3>1. r.state = "none" /\ World.task[t] = r
      BY <1>1, <2>2 DEF CanPlace
    <3>2. Placeable(World, t)
      BY <1>1, <3>1 DEF Placeable, CalendarOK, Apart
    <3>3. World.task[t].state # "resolved"
      BY <3>1
    <3> HIDE DEF o
    <3>4. PICK oo : /\ OptionsOK(oo) /\ oo.commit = o.commit /\ (oo = o \/ oo.hole)
                    /\ Came(out, World, t, oo, order)
      BY <1>1, <1>5, <1>6, <3>2, <3>3, PlacedComes
    <3> DEFINE i == ClaimInterval(r, oo)
    <3>5. i # None => i.start = r.clock /\ i.end = r.clock + r.dur /\ r.clock \in Int
      BY <1>1, <3>4, CreateClaimIs DEF o
    <3>6. out.plan.outcome = "conflict" => r.clock # None
      <4>1. SUFFICES ASSUME out.plan.outcome = "conflict" PROVE i # None
        BY <3>5, NoNone
      <4>2. out.plan = Planned(World, t, oo, order)
        BY <3>4 DEF Came
      <4>3. CASE Over(i)
        BY <4>3 DEF Over
      <4>4. CASE ~Over(i)
        BY <1>1, <3>1, <3>4, <4>4, <4>2, PlannedWell, <4>1
      <4> QED
        BY <4>3, <4>4
    <3>7. CASE Writes(World, t, oo, out.plan)
      BY <2>2, <3>4, <3>7, <1>1 DEF Came, Writes, Leaves
    <3>8. CASE ~Writes(World, t, oo, out.plan)
      <4>1. w = World
        BY <2>2, <3>4, <3>8 DEF Came
      <4>2. asks \/ Over(i)
        BY <1>1, <1>5, <2>2, <3>1, <3>4, <3>8 DEF Writes
      <4>3. Over(i) => r.clock # None /\ r.clock + r.dur <= now
        BY <3>5, NoNone DEF Over
      <4>4. asks => r.clock # None
        BY <3>6
      <4> HIDE DEF w, asks
      <4>5. q = r /\ CalendarOK(w) /\ \A u \in Tasks : w.task[u] = task[u]
        BY <1>1, <4>1
      <4> QED
        BY <3>1, <4>2, <4>3, <4>4, <4>5 DEF Displaced
    <3> QED
      BY <3>7, <3>8
  <2> QED
    BY <2>1, <2>2
<1> HIDE DEF w, o
<1>8. RowOK(q) /\ q \in Row
  BY <1>7 DEF CalendarOK, Shape, RowOK
<1>9. mark \in BOOLEAN /\ (q.state = "none" /\ mark => q.clock # None)
  BY <1>8, <1>7 DEF RowOK, Row
<1>10. CanPlace(r) => mark = asks
  OBVIOUS
<1> HIDE DEF mark, asks
<1>11. /\ RowOK(new) /\ SameBeing(new, q) /\ new.state = q.state /\ new.slot = q.slot
       /\ new.status = q.status /\ new.clock = q.clock /\ new.dur = q.dur /\ new.kind = q.kind
       /\ new.placing = again /\ new.asked = mark
  BY <1>8, <1>9, MarkedOK
<1> HIDE DEF new
<1>12. Firm(t, new) => Firm(t, q) /\ new.slot = q.slot
  BY <1>11 DEF Firm, Open, Excused
<1>13. CalendarOK(v)
  BY <1>7, <1>11, <1>12, PutQuiet
<1>14. v.task[t] = new /\ \A u \in Tasks \ {t} : v.task[u] = w.task[u]
  BY <1>7, <1>11, PutMade DEF CalendarOK
<1> HIDE DEF v
<1>15. World' = v
  BY <1>3, <1>13, Became DEF CalendarOK, Shape
<1>16. CalendarOK(World)'
  BY <1>4, <1>13, <1>15, NextCalendar
<1>17. NotLost(t, new)
  BY <1>1, <1>11, <1>7, <1>10 DEF w, NotLost, CanPlace, Housed
<1>18. \A u \in Tasks \ {t} : NotLost(u, v.task[u])
  BY <1>7, <1>14, LostIs DEF Inv, NotLost, Displaced
<1>19. \A u \in Tasks : NotLost(u, task'[u])
  BY <1>14, <1>15, <1>17, <1>18, WorldIs
<1>20. NobodyLost'
  BY <1>4, <1>19 DEF NobodyLost, NotLost
<1> QED
  BY <1>4, <1>16, <1>20 DEF Inv

-----------------------------------------------------------------------------
(* A drag. *)

\* A step that leaves a sound calendar in which nobody is lost.
LEMMA LeavesStep ==
  ASSUME Inv, NEW t \in Tasks, NEW v, CalendarOK(v), World' = v, NotLost(t, v.task[t]),
         \A u \in Tasks \ {t} : Displaced(task[u], v.task[u]), UNCHANGED <<now, layered, back>>
  PROVE  Inv'
<1>1. CalendarOK(World)'
  BY NextCalendar
<1>2. \A u \in Tasks \ {t} : NotLost(u, v.task[u])
  BY LostIs DEF Inv, NotLost, Displaced
<1>3. \A u \in Tasks : NotLost(u, task'[u])
  BY <1>2, WorldIs
<1>4. NobodyLost'
  BY <1>3 DEF NobodyLost, NotLost
<1> QED
  BY <1>1, <1>4 DEF Inv

LEMMA PhaseIs ==
  ASSUME NEW at
  PROVE  PhaseAt(at) \in Phases \cup {None}
<1> DEFINE here == { p \in Phases : \E d \in Days :
                       OnDay(p, d).start <= at /\ at < OnDay(p, d).end }
           S == { p.end - p.start : p \in here }
<1>1. here \subseteq Phases /\ \A p \in Phases : p.start \in 0 .. DayLen /\ p.end \in 0 .. DayLen
  BY CalendarAssumption
<1>2. PhaseAt(at) = IF here = {} THEN None
                    ELSE CHOOSE p \in here : \A q \in here : p.end - p.start <= q.end - q.start
  BY DEF PhaseAt
<1> HIDE DEF here
<1>3. CASE here = {}
  BY <1>2, <1>3
<1>4. CASE here # {}
  <2>1. DayLen \in Nat
    BY PlacementAssumption
  <2>2. S \subseteq Int /\ S # {} /\ (0 - DayLen) \in Int /\ \A n \in S : n >= 0 - DayLen
    BY <1>1, <1>4, <2>1
  <2>3. \E n \in S : \A o \in S : n <= o
    <3> HIDE DEF S
    <3> QED
      BY <2>2, LeastInt
  <2>4. \E p \in here : \A q \in here : p.end - p.start <= q.end - q.start
    BY <2>3
  <2>5. PhaseAt(at) \in here
    BY <1>2, <1>4, <2>4
  <2> QED
    BY <1>1, <2>5
<1> QED
  BY <1>3, <1>4

DragOptions(at, dur) == Options(at, dur, FALSE, FALSE, "preferred", TRUE, None)

LEMMA DragInv ==
  ASSUME Inv, NEW t \in Tasks, Drag(t)
  PROVE  Inv'
<1> DEFINE r == task[t]
<1>1. /\ CalendarOK(World) /\ Shape(World) /\ RowOK(r) /\ r \in Row /\ now \in Int
      /\ World.task = task /\ World.task[t] = r
  BY RowsSound, WorldIs DEF RowOK
<1>2. /\ r.kind = "flexible" /\ r.status # "done" /\ r.slot # None /\ r.state \in {"none", "resolved"}
      /\ UNCHANGED <<now, layered, back>>
  BY DEF Drag
<1>3. PICK at \in Drops, dur \in Durs, order \in RowOrders :
        LET w == Put(World, t, [r EXCEPT !.phase = PhaseAt(at)])
            out == Placed(w, t, DragOptions(at, dur), order)
        IN IF DropRefused(out.plan, at) THEN Becomes(World) ELSE Becomes(out.world)
  BY DEF Drag, DragOptions
<1> DEFINE phase == PhaseAt(at)
           new == [r EXCEPT !.phase = phase]
           w == Put(World, t, new)
           o == DragOptions(at, dur)
           out == Placed(w, t, o, order)
<1>4. IF DropRefused(out.plan, at) THEN Becomes(World) ELSE Becomes(out.world)
  BY <1>3
<1>5. phase \in Phases \cup {None}
  BY PhaseIs
<1> HIDE DEF phase
<1>6. /\ new \in Row /\ new.state = r.state /\ new.slot = r.slot /\ new.status = r.status
      /\ new.clock = r.clock /\ new.dur = r.dur /\ new.kind = r.kind /\ new.asked = r.asked
  BY <1>1, <1>5 DEF Row
<1> HIDE DEF new
<1>7. RowOK(new) /\ SameBeing(new, r)
  BY <1>1, <1>6 DEF RowOK, SameBeing
<1>8. Firm(t, new) => Firm(t, r) /\ new.slot = r.slot
  BY <1>6 DEF Firm, Open, Excused
<1>9. CalendarOK(w)
  BY <1>1, <1>6, <1>7, <1>8, PutQuiet
<1>10. w.task[t] = new /\ \A u \in Tasks \ {t} : w.task[u] = task[u]
  BY <1>1, <1>7, PutMade
<1>11. at \in Int /\ dur \in Nat \ {0}
  BY InputAssumption
<1>12. OptionsOK(o) /\ OptionFields \subseteq DOMAIN o
  BY <1>11 DEF DragOptions, Options, OptionsOK, OptionFields
<1>13. out = Placed(w, t, o, order)
  OBVIOUS
<1> HIDE DEF w, o, out
<1>14. CASE DropRefused(out.plan, at)
  BY <1>1, <1>4, <1>14, Became, LostIs, <1>2, LeavesStep DEF Shape, Inv, Displaced
<1>15. CASE ~DropRefused(out.plan, at)
  <2> DEFINE v == out.world
  <2>1. CalendarOK(v) /\ NotLost(t, v.task[t]) /\ \A u \in Tasks \ {t} : Displaced(w.task[u], v.task[u])
    <3>1. CASE new.state = "resolved"
      BY <1>10, <1>13, <3>1, <1>9, <1>12, ResolvedLeaves DEF Placed, Leaves, NotLost, Housed
    <3>2. CASE new.state # "resolved"
      <4>1. new.state = "none"
        BY <1>2, <1>6, <3>2
      <4>2. Placeable(w, t) /\ w.task[t].state # "resolved"
        BY <1>9, <1>10, <4>1 DEF Placeable, CalendarOK, Apart
      <4>3. PICK oo : Came(out, w, t, oo, order)
        BY <1>1, <1>12, <1>13, <4>2, PlacedComes
      <4>4. CASE Writes(w, t, oo, out.plan)
        BY <4>3, <4>4 DEF Came, Leaves, NotLost, Housed
      <4>5. CASE ~Writes(w, t, oo, out.plan)
        <5>1. v = w
          BY <4>3, <4>5 DEF Came
        <5> HIDE DEF v
        <5> QED
          BY <1>2, <1>6, <1>9, <1>10, <5>1 DEF NotLost, Displaced
      <4> QED
        BY <4>4, <4>5
    <3> QED
      BY <3>1, <3>2
  <2>2. Becomes(v)
    BY <1>4, <1>15
  <2> HIDE DEF v
  <2>3. World' = v
    BY <2>1, <2>2, Became DEF CalendarOK, Shape
  <2>4. \A u \in Tasks \ {t} : Displaced(task[u], v.task[u])
    BY <1>10, <2>1
  <2> QED
    BY <1>2, <2>1, <2>3, <2>4, LeavesStep
<1> QED
  BY <1>14, <1>15

-----------------------------------------------------------------------------
(* A task that comes back from done. *)

\* Back on the clock of its row and not excused: only then is it in the way.
Returns(t, q) == Open(q) /\ t \notin layered /\ q.kind # "fixed" /\ q.slot.start = q.clock

InNoOnesWay(v, t) ==
  /\ \A u \in Tasks \ {t} : Firm(u, v.task[u]) => ~Overlaps(v.task[t].slot, v.task[u].slot)
  /\ \A s \in Series, d \in Days :
       d \in v.held[s] /\ Home(s, d).end > now => ~Overlaps(v.task[t].slot, Home(s, d))

LEMMA ReturnStep ==
  ASSUME Inv, NEW t \in Tasks, NEW v, Shape(v), TopsKnown(v), Apart(v, {t}), World' = v,
         Returns(t, v.task[t]) => InNoOnesWay(v, t),
         \A u \in Tasks \ {t} : Displaced(task[u], v.task[u]),
         back' = back \cup {t}, UNCHANGED <<now, layered>>
  PROVE  Inv'
<1>1. Shape(World)'
  BY DEF CalendarOK
<1>2. TopsKnown(World)'
  BY DEF TopsKnown
<1>3. World'.task = v.task /\ World'.held = v.held
  OBVIOUS
<1>4. \A u \in Tasks \ {t} : Firm(u, World.task[u])' => Firm(u, v.task[u])
  BY <1>3 DEF Firm, Open, Excused
<1>5. Firm(t, World.task[t])' => Returns(t, v.task[t])
  BY <1>3 DEF Firm, Open, Excused, Returns
<1>6. Apart(World, {})'
  <2>1. \A u \in Tasks \ {t}, z \in Tasks \ {t} :
          u # z /\ Firm(u, World.task[u])' /\ Firm(z, World.task[z])'
            => ~Overlaps(v.task[u].slot, v.task[z].slot)
    BY <1>4 DEF Apart
  <2>2. \A u \in Tasks \ {t} : Firm(u, World.task[u])' /\ Firm(t, World.task[t])'
          => /\ ~Overlaps(v.task[u].slot, v.task[t].slot)
             /\ ~Overlaps(v.task[t].slot, v.task[u].slot)
    BY <1>4, <1>5 DEF InNoOnesWay, Overlaps
  <2>3. \A u, z \in Tasks : u # z /\ Firm(u, World.task[u])' /\ Firm(z, World.task[z])'
            => ~Overlaps(v.task[u].slot, v.task[z].slot)
    BY <2>1, <2>2
  <2>4. \A u \in Tasks, s \in Series, d \in Days :
          Firm(u, World.task[u])' /\ d \in v.held[s] /\ Home(s, d).end > now
            => ~Overlaps(v.task[u].slot, Home(s, d))
    <3> TAKE u \in Tasks, s \in Series, d \in Days
    <3>1. CASE u = t
      BY <1>5, <3>1 DEF InNoOnesWay
    <3>2. CASE u # t
      BY <1>4, <3>2 DEF Apart
    <3> QED
      BY <3>1, <3>2
  <2> QED
    BY <1>3, <2>3, <2>4 DEF Apart
<1>7. \A u \in Tasks \ {t} : NotLost(u, v.task[u])
  BY LostIs DEF Inv, NotLost, Displaced
<1>8. NobodyLost'
  BY <1>7, WorldIs DEF NobodyLost, NotLost
<1> QED
  BY <1>1, <1>2, <1>6, <1>8 DEF Inv, CalendarOK

LEMMA KeepOptionsOK ==
  ASSUME NEW r \in Row
  PROVE  /\ OptionsOK(KeepOptions(r)) /\ OptionFields \subseteq DOMAIN KeepOptions(r)
         /\ KeepOptions(r).commit = "keep" /\ KeepOptions(r).dur = r.dur
         /\ KeepOptions(r).preferred = None /\ KeepOptions(r).drag = FALSE
BY DEF KeepOptions, Options, OptionsOK, OptionFields, Row

\* The claim of a task that keeps its clock.
LEMMA KeepClaimIs ==
  ASSUME NEW r \in Row, r.clock # None
  PROVE  LET i == ClaimInterval(r, KeepOptions(r))
         IN i \in Interval /\ i.start = r.clock /\ i.end = r.clock + r.dur /\ i.start < i.end
<1>1. r.clock \in Int /\ r.dur \in Nat \ {0}
  BY DEF Row
<1>2. ClaimInterval(r, KeepOptions(r)) = [start |-> r.clock, end |-> r.clock + r.dur]
  BY DEF ClaimInterval, KeepOptions, Options
<1> QED
  BY <1>1, <1>2 DEF Interval

\* A slot that starts on the clock ends by the end of the claim.
LEMMA SlotInClaim ==
  ASSUME NEW r, RowOK(r), r.slot # None, r.kind # "fixed", r.slot.start = r.clock
  PROVE  r.slot \in Interval /\ r.slot.start < r.slot.end /\ r.slot.end <= r.clock + r.dur
<1>1. r \in Row /\ r.slot.start < r.slot.end /\ r.slot.end - r.slot.start <= r.dur
  BY DEF RowOK, Row
<1>2. r.slot \in Interval /\ r.slot.start \in Int /\ r.slot.end \in Int /\ r.dur \in Nat
  BY <1>1 DEF Row, Interval
<1> QED
  BY <1>1, <1>2

\* A kept clock that is free of seated tasks.
LEMMA KeptIsClear ==
  ASSUME NEW w, Shape(w), TopsKnown(w), NEW t \in Tasks, NEW order \in RowOrders,
         w.task[t].clock # None, KeepsClock(w, t, order), Returns(t, w.task[t]), now \in Int
  PROVE  InNoOnesWay(w, t)
<1> DEFINE r == w.task[t]
           i == ClaimInterval(r, KeepOptions(r))
           rows == Rows(w, {t}, order)
           slot == r.slot
<1>1. RowOK(r) /\ r \in Row /\ r.slot # None /\ r.kind # "fixed" /\ r.slot.start = r.clock
  BY DEF Shape, RowOK, Returns, Open
<1>2. i \in Interval /\ i.start = r.clock /\ i.end = r.clock + r.dur /\ i.start < i.end
  BY <1>1, KeepClaimIs
<1>3. /\ slot \in Interval /\ slot.start < slot.end /\ slot.start = i.start /\ slot.end <= i.end
  BY <1>1, <1>2, SlotInClaim
<1>4. \A x \in ToSet(rows) : x.role # "resolved" => ~Overlaps(x, i)
  BY <1>1 DEF KeepsClock
<1>5. RowsAre(rows, w, {t}, Horizon)
  BY RowsRead
<1> HIDE DEF rows, i, slot
<1>6. ASSUME NEW u \in Tasks \ {t}, Firm(u, w.task[u]) PROVE ~Overlaps(slot, w.task[u].slot)
  <2> DEFINE q == w.task[u]
  <2>1. RowOK(q) /\ q.state # "resolved" /\ SlotIsOpen(q) /\ HasSeat(q)
    BY <1>6 DEF Shape, TopsKnown, Firm, Open, Excused, SlotIsOpen, HasSeat
  <2>2. q.slot \in Interval /\ q.slot.start \in Int /\ q.slot.end \in Int
    BY <2>1 DEF RowOK, Row, Interval, SlotIsOpen
  <2>3. SlotRole(q) # "resolved"
    BY <2>1, SlotRoles
  <2>4. PICK x \in ToSet(rows) : SlotSeat(x, u, q)
    BY <1>5, <2>1 DEF RowsAre
  <2>5. ~Overlaps(i, x)
    BY <1>4, <2>3, <2>4 DEF SlotSeat, Overlaps
  <2>6. IsBegun(q) => \E y \in ToSet(rows) : ElapsedPart(y, u, q) /\ ~Overlaps(i, y)
    <3>1. SUFFICES ASSUME IsBegun(q) PROVE \E y \in ToSet(rows) : ElapsedPart(y, u, q) /\ ~Overlaps(i, y)
      OBVIOUS
    <3>2. PICK y \in ToSet(rows) : ElapsedPart(y, u, q)
      BY <1>5, <2>1, <3>1 DEF RowsAre
    <3> QED
      BY <1>4, <3>2 DEF ElapsedPart, Overlaps
  <2>7. ~Overlaps(i, q.slot)
    <3> HIDE DEF q
    <3> QED
      BY <1>2, <2>1, <2>4, <2>5, <2>6, SlotCovered
  <2> QED
    BY <1>2, <1>3, <2>2, <2>7 DEF Overlaps, Interval
<1>7. ASSUME NEW s \in Series, NEW d \in Days, d \in w.held[s], Home(s, d).end > now
      PROVE  ~Overlaps(slot, Home(s, d))
  <2>1. PICK x \in ToSet(rows) : DaySeat(x, s, d)
    BY <1>5, <1>7 DEF RowsAre
  <2>2. ~Overlaps(Home(s, d), i)
    BY <1>4, <2>1 DEF DaySeat, Overlaps
  <2>3. Home(s, d).start \in Int /\ Home(s, d).end \in Int
    BY AllDays, HomesAre DEF Interval
  <2> QED
    BY <1>2, <1>3, <2>2, <2>3 DEF Overlaps, Interval
<1> QED
  BY <1>6, <1>7 DEF InNoOnesWay, slot

\* A hole of the day the task was on.
DayHole(r) == [KeepOptions(r) EXCEPT !.hole = TRUE, !.day = DayOf(r.clock)]

\* A clock that is not kept is not in the way: its placement is written, or it
\* is over, or it is the kept clock of a fixed task.
LEMMA BackIsClear ==
  ASSUME NEW w, NEW t, Placeable(w, t), w.task[t].state = "none", w.task[t].clock # None,
         NEW order, now \in Int, NEW o, NEW r, r = w.task[t],
         (o = KeepOptions(r) /\ r.by # None /\ r.by <= now) \/ o = DayHole(r),
         NEW v, v = Placed(w, t, o, order).world
  PROVE  Leaves(v, w, t) \/ (v = w /\ ~Returns(t, r))
<1> DEFINE out == Placed(w, t, o, order)
<1>1. t \in Tasks /\ Shape(w) /\ RowOK(r) /\ r \in Row /\ r.clock \in Int /\ r.state = "none"
  BY DEF Placeable, Shape, RowOK, Row
<1>2. OptionsOK(o) /\ OptionFields \subseteq DOMAIN o /\ o.commit = "keep" /\ o.drag = FALSE
      /\ (o.hole \/ (o = KeepOptions(r) /\ r.by # None /\ r.by <= now))
  <2>1. DayOf(r.clock) \in Int
    BY <1>1, DayIsInt
  <2>2. r.dur \in Nat \ {0}
    BY <1>1 DEF Row
  <2>3. CASE o = KeepOptions(r) /\ r.by # None /\ r.by <= now
    BY <1>1, <2>3, KeepOptionsOK
  <2>4. CASE o = DayHole(r)
    BY <2>1, <2>2, <2>4 DEF DayHole, KeepOptions, Options, OptionsOK, OptionFields
  <2> QED
    BY <2>3, <2>4
<1>3. out = Placed(w, t, o, order) /\ v = out.world
  OBVIOUS
<1> HIDE DEF out
<1>4. PICK oo : /\ OptionsOK(oo) /\ oo.commit = o.commit /\ (oo = o \/ oo.hole)
                /\ Came(out, w, t, oo, order)
  BY <1>1, <1>2, <1>3, PlacedComes
<1>5. CASE Writes(w, t, oo, out.plan)
  BY <1>3, <1>4, <1>5 DEF Came
<1>6. CASE ~Writes(w, t, oo, out.plan)
  <2> DEFINE i == ClaimInterval(r, oo)
  <2>1. v = w /\ out.plan = Planned(w, t, oo, order)
    BY <1>3, <1>4, <1>6 DEF Came
  <2>2. Over(i) \/ (~Over(i) /\ out.plan.outcome = "conflict")
    BY <1>1, <1>2, <1>4, <1>6 DEF Writes
  <2>3. i # None => o = KeepOptions(r) /\ oo = o /\ r.by # None /\ r.by <= now
    BY <1>1, <1>2, <1>4, ClaimIntervalIs
  <2>4. CASE Over(i)
    <3>1. i.end = r.clock + r.dur /\ i.end <= now
      BY <1>1, <2>3, <2>4, KeepClaimIs DEF Over
    <3>2. ~Returns(t, r)
      <4>1. SUFFICES ASSUME Returns(t, r) PROVE FALSE
        OBVIOUS
      <4>2. r.slot # None /\ r.slot.end > now /\ r.kind # "fixed" /\ r.slot.start = r.clock
        BY <4>1 DEF Returns, Open
      <4>3. r.slot \in Interval /\ r.slot.end <= r.clock + r.dur
        BY <1>1, <4>2, SlotInClaim
      <4>4. r.slot.end \in Int /\ r.clock + r.dur \in Int
        BY <1>1, <4>3 DEF Interval, Row
      <4> QED
        BY <3>1, <4>2, <4>3, <4>4
    <3> QED
      BY <2>1, <3>2
  <2>5. CASE ~Over(i) /\ out.plan.outcome = "conflict"
    BY <1>1, <1>4, <2>1, <2>5, PlannedWell, <1>2, <2>3 DEF Row, Returns
  <2> QED
    BY <2>2, <2>4, <2>5
<1> QED
  BY <1>5, <1>6

LEMMA ReopenInv ==
  ASSUME Inv, NEW t \in Tasks, Reopen(t)
  PROVE  Inv'
<1> DEFINE r == task[t]
           new == [r EXCEPT !.status = "todo"]
           w == Put(World, t, new)
<1>1. /\ CalendarOK(World) /\ Shape(World) /\ RowOK(r) /\ r \in Row /\ now \in Int
      /\ World.task = task /\ World.task[t] = r
  BY RowsSound, WorldIs DEF RowOK
<1>2. /\ r.state \notin {"absent", "deleted"} /\ r.status = "done" /\ back' = back \cup {t}
      /\ UNCHANGED <<now, layered>>
  BY DEF Reopen, Exists
<1>3. PICK order \in RowOrders :
        Becomes(IF w.task[t].clock # None /\ CanPlace(w.task[t]) THEN BackInPlace(w, t, order) ELSE w)
  BY DEF Reopen
<1> DEFINE v == IF w.task[t].clock # None /\ CanPlace(w.task[t]) THEN BackInPlace(w, t, order) ELSE w
<1>4. Becomes(v)
  BY <1>3
<1>5. /\ new \in Row /\ new.state = r.state /\ new.slot = r.slot /\ new.status = "todo"
      /\ new.clock = r.clock /\ new.dur = r.dur /\ new.kind = r.kind /\ new.asked = r.asked
  BY <1>1 DEF Row
<1> HIDE DEF new
<1>6. RowOK(new) /\ SameBeing(new, r)
  BY <1>1, <1>5 DEF RowOK, SameBeing
<1>7. /\ Shape(w) /\ w.task[t] = new /\ w.held = World.held
      /\ \A u \in Tasks \ {t} : w.task[u] = World.task[u]
  BY <1>1, <1>6, PutMade
<1> HIDE DEF w
<1>8. TopsKnown(w)
  BY <1>1, <1>5, <1>7 DEF CalendarOK, TopsKnown
<1>9. Apart(w, {t})
  BY <1>1, <1>7 DEF CalendarOK, Apart
<1>10. Placeable(w, t)
  BY <1>2, <1>5, <1>7, <1>8, <1>9 DEF Placeable
\* Either a placement was written, or the calendar is `w` and the task is clear.
<1>11. Leaves(v, w, t) \/ (v = w /\ (Returns(t, new) => InNoOnesWay(w, t)))
  <2>1. CASE ~(new.clock # None /\ CanPlace(new))
    <3>1. v = w
      BY <1>7, <2>1
    <3>2. ~Returns(t, new)
      BY <1>5, <1>6, <2>1, <1>7, <1>8 DEF RowOK, CanPlace, TopsKnown, Returns, Open
    <3> HIDE DEF v
    <3> QED
      BY <3>1, <3>2
  <2>2. CASE new.clock # None /\ CanPlace(new) /\ KeepsClock(w, t, order)
    <3>1. v = w
      BY <1>7, <2>2 DEF BackInPlace
    <3>2. Returns(t, new) => InNoOnesWay(w, t)
      BY <1>1, <1>7, <1>8, <2>2, KeptIsClear
    <3> HIDE DEF v
    <3> QED
      BY <3>1, <3>2
  <2>3. CASE new.clock # None /\ CanPlace(new) /\ ~KeepsClock(w, t, order)
    <3> DEFINE q == w.task[t]
               keep == KeepOptions(q)
               hole == [keep EXCEPT !.hole = TRUE, !.day = DayOf(q.clock)]
               expired == q.by # None /\ q.by <= now
               o == IF expired THEN keep ELSE hole
    <3>1. v = Placed(w, t, o, order).world
      <4>1. v = BackInPlace(w, t, order)
        BY <1>7, <2>3
      <4>2. BackInPlace(w, t, order) = IF KeepsClock(w, t, order) THEN w
                                       ELSE Placed(w, t, IF expired THEN keep ELSE hole, order).world
        BY DEF BackInPlace
      <4>3. BackInPlace(w, t, order) = Placed(w, t, IF expired THEN keep ELSE hole, order).world
        <5> HIDE DEF expired, keep, hole
        <5> QED
          BY <2>3, <4>2
      <4> QED
        BY <4>1, <4>3
    <3>2. (o = KeepOptions(q) /\ q.by # None /\ q.by <= now) \/ o = DayHole(q)
      BY DEF DayHole
    <3>3. q.state = "none" /\ q.clock # None /\ q = new
      BY <1>7, <2>3 DEF CanPlace
    <3> HIDE DEF o, v
    <3>4. Leaves(v, w, t) \/ (v = w /\ ~Returns(t, q))
      <4>1. now \in Int /\ q.state = "none" /\ q.clock # None /\ q = w.task[t]
        BY <1>1, <3>3
      <4> HIDE DEF q
      <4> QED
        BY <1>10, <3>1, <3>2, <4>1, BackIsClear
    <3> QED
      BY <3>3, <3>4
  <2> QED
    BY <2>1, <2>2, <2>3
<1> HIDE DEF v
<1>12. /\ Shape(v) /\ TopsKnown(v) /\ Apart(v, {t})
       /\ Returns(t, v.task[t]) => InNoOnesWay(v, t)
       /\ \A u \in Tasks \ {t} : Displaced(task[u], v.task[u])
  <2>1. CASE Leaves(v, w, t)
    BY <1>1, <1>7, <2>1 DEF Leaves, CalendarOK, Apart, Returns, Firm, Excused, InNoOnesWay
  <2>2. CASE v = w /\ (Returns(t, new) => InNoOnesWay(w, t))
    BY <1>1, <1>7, <1>8, <1>9, <2>2 DEF Displaced
  <2> QED
    BY <1>11, <2>1, <2>2
<1>13. World' = v
  BY <1>4, <1>12, Became DEF Shape
<1> QED
  BY <1>2, <1>12, <1>13, ReturnStep

-----------------------------------------------------------------------------
(* What the calendar keeps. *)

LEMMA StepInv == Inv /\ [Next]_vars => Inv'
<1> SUFFICES ASSUME Inv, [Next]_vars PROVE Inv'
  OBVIOUS
<1>1. ASSUME NEW t \in OneOffs, Save(t) PROVE Inv'
  BY <1>1, SaveInv
<1>2. ASSUME NEW t \in Tasks, PlaceSaved(t) PROVE Inv'
  BY <1>2, PlaceSavedInv
<1>3. ASSUME NEW t \in Tasks, Drag(t) PROVE Inv'
  BY <1>3, DragInv
<1>4. ASSUME NEW t \in Tasks, PutOnTop(t) PROVE Inv'
  BY <1>4, PutOnTopInv
<1>5. ASSUME NEW t \in Tasks, LeaveParked(t) PROVE Inv'
  BY <1>5, LeaveParkedInv
<1>6. ASSUME NEW t \in Tasks, Begin(t) PROVE Inv'
  BY <1>6, BeginInv
<1>7. ASSUME NEW t \in Tasks, Done(t) PROVE Inv'
  BY <1>7, DoneInv
<1>8. ASSUME NEW t \in Tasks, Reopen(t) PROVE Inv'
  BY <1>8, ReopenInv
<1>9. ASSUME NEW t \in Tasks, Delete(t) PROVE Inv'
  BY <1>9, DeleteInv
<1>10. CASE SeatOpenHoles
  BY <1>10, SeatOpenHolesInv
<1>11. CASE Tick
  BY <1>11, TickInv
<1>12. CASE UNCHANGED vars
  BY <1>12 DEF vars, Inv, CalendarOK, Shape, TopsKnown, Apart, Firm, Open, Excused, World, NobodyLost
<1> QED
  BY <1>1, <1>2, <1>3, <1>4, <1>5, <1>6, <1>7, <1>8, <1>9, <1>10, <1>11, <1>12 DEF Next

-----------------------------------------------------------------------------
(* A seat that is asked for again. *)

NoTop(w) == \A t \in Tasks : w.task[t].state # "resolved"

NoTopRow(rows) == \A x \in ToSet(rows) : x.role # "resolved"

LEMMA RowsWithoutTops ==
  ASSUME NEW w, Shape(w), NoTop(w), NEW gone, NEW order
  PROVE  NoTopRow(Rows(w, gone, order))
<1> SUFFICES ASSUME NEW x, IsRow(x, w, gone) PROVE x.role # "resolved"
  BY RowsListed DEF NoTopRow
<1>1. ASSUME NEW t \in Tasks, x = ElapsedSeat(t, w.task[t]) PROVE x.role # "resolved"
  BY <1>1 DEF ElapsedSeat, SeatOf
<1>2. ASSUME NEW t \in Tasks, x = TaskSeat(t, w.task[t]) PROVE x.role # "resolved"
  <2> DEFINE r == w.task[t]
             windows == Clip(HorizonWindows(r.phase), now, Until(r.by))
  <2>1. RowOK(r) /\ r.state # "resolved"
    BY DEF Shape, NoTop
  <2>2. \A part, role, i, span : SeatOf(t, part, role, i, span).role = role
    BY DEF SeatOf
  <2>3. SlotIsOpen(r) => SlotRole(r) # "resolved"
    BY <2>1, SlotRoles
  <2>4. x = CASE IsBegun(r) -> SeatOf(t, "slot", "flexible", [start |-> now, end |-> r.slot.end], windows)
              [] SlotIsOpen(r) /\ ~IsBegun(r) -> SeatOf(t, "slot", SlotRole(r), r.slot, windows)
              [] OTHER -> SeatOf(t, "peer", IF r.state = "resolved" THEN "resolved" ELSE "anchor",
                                 [start |-> r.clock, end |-> r.clock + r.dur], {})
    BY <1>2 DEF TaskSeat
  <2> HIDE DEF r, windows
  <2> QED
    BY <2>1, <2>2, <2>3, <2>4 DEF IsBegun
<1>3. ASSUME NEW s, NEW d, x = SeriesSeat(s, d) PROVE x.role # "resolved"
  BY <1>3 DEF SeriesSeat
<1> QED
  BY <1>1, <1>2, <1>3 DEF IsRow

LEMMA CutWithoutTops ==
  ASSUME NEW w, NEW gone, NEW reach, NEW rows, RowsAre(rows, w, gone, reach), NoTopRow(rows),
         NEW d, NEW i
  PROVE  NoTopRow(CutToDay(rows, d, i))
<1> DEFINE R == CutToDay(rows, d, i)
<1>1. \A k \in DOMAIN rows : rows[k] \in ToSet(rows)
  BY DEF ToSet
<1>2. DOMAIN R = DOMAIN rows /\ \A k \in DOMAIN rows : R[k].role = rows[k].role
  BY <1>1 DEF RowsAre, CutToDay, SeatFields
<1> HIDE DEF R
<1>3. \A x \in ToSet(R) : \E k \in DOMAIN rows : x = R[k]
  BY <1>2 DEF ToSet
<1> QED
  BY <1>1, <1>2, <1>3 DEF NoTopRow, R

LEMMA IntervalIsGiven ==
  ASSUME NEW claim, NEW rows, NEW soft
  PROVE  /\ PlanInterval(claim, rows, soft).outcome = "seated"
         /\ PlanInterval(claim, rows, soft).at = claim.interval
<1>1. \A moves : /\ Seated(claim.interval, moves).outcome = "seated"
                  /\ Seated(claim.interval, moves).at = claim.interval
  BY DEF Seated
<1>2. \A direct, chained, alone :
        /\ IntervalOver(claim, rows, direct, chained, alone).outcome = "seated"
        /\ IntervalOver(claim, rows, direct, chained, alone).at = claim.interval
  BY <1>1 DEF IntervalOver
<1> QED
  BY <1>2 DEF PlanInterval

\* Nobody on top: an interval that fits is refused or given as it is.
LEMMA AskedIsGiven ==
  ASSUME NEW claim, NEW all, NEW reach, SeatsOK(all, reach), NoTopRow(all),
         claim.interval # None, ~claim.expired, ~claim.recurring,
         claim.mustFit => FitsWindow(claim.interval, claim.windows),
         NEW plan, plan = PlanPlacement(claim, all)
  PROVE  \/ plan.outcome = "conflict"
         \/ plan.outcome = "seated" /\ plan.at = claim.interval
<1> DEFINE rows == Those(all, { r \in ToSet(all) : r.task # claim.task })
           soft == SoftBusy(rows)
           i == claim.interval
           Hits(roles) == \E s \in ToSet(rows) : s.role \in roles /\ Overlaps(s, i)
           given == PlanInterval(claim, rows, soft)
<1>1. rows = Others(all, claim.task)
  BY DEF Others
<1>2. ~Hits({"resolved"})
  <2>1. ToSet(rows) = { r \in ToSet(all) : r.task # claim.task }
    BY <1>1, OthersOK
  <2> HIDE DEF rows
  <2> QED
    BY <2>1 DEF NoTopRow
<1>3. given.outcome = "seated" /\ given.at = i
  BY IntervalIsGiven
<1>4. CASE Hits({"anchor", "elapsed"})
  BY <1>4 DEF PlanPlacement, Unseated
<1>5. CASE ~Hits({"anchor", "elapsed"})
  <2>1. plan = given
    BY <1>2, <1>5 DEF PlanPlacement
  <2> HIDE DEF given
  <2> QED
    BY <1>3, <2>1
<1> QED
  BY <1>4, <1>5

\* A seat on the clock of its row, ahead of the clock of the wall.
OnClockAhead(r) == RowOK(r) /\ r.slot # None /\ OnItsClock(r) /\ r.slot.start = r.clock

LEMMA SeatIsAsked ==
  ASSUME now \in Int, NEW r, OnClockAhead(r), NEW o, o = CreateOptions(r)
  PROVE  /\ r.slot \in Interval /\ r.slot.start < r.slot.end /\ r.slot.start >= now
         /\ ClaimInterval(r, o) = r.slot /\ ~Over(r.slot)
<1>1. r \in Row /\ r.slot \in Interval /\ r.slot.start < r.slot.end
  BY DEF OnClockAhead, RowOK, Row
<1>2. r.clock # None /\ r.clock >= now /\ r.slot.end = r.slot.start + r.dur /\ r.slot.start = r.clock
  BY DEF OnClockAhead, OnItsClock
<1>3. r.slot.start \in Int /\ r.slot.end \in Int /\ r.slot = [start |-> r.slot.start, end |-> r.slot.end]
  BY <1>1 DEF Interval
<1>4. /\ o.hole = (r.kind = "flexible" /\ r.clock = None) /\ o.dur = r.dur
      /\ o.preferred = IF r.kind = "flexible" THEN r.clock ELSE None
  BY DEF CreateOptions, Options
<1>5. r.kind \in {"flexible", "fixed"}
  BY <1>1 DEF Row
<1> DEFINE at == IF r.kind = "fixed" THEN IF r.clock # None THEN r.clock ELSE o.preferred
                 ELSE IF o.preferred # None THEN o.preferred ELSE r.clock
           len == IF r.kind = "fixed" THEN r.dur ELSE o.dur
<1>6. ClaimInterval(r, o) = IF o.hole \/ at = None THEN None ELSE [start |-> at, end |-> at + len]
  BY DEF ClaimInterval
<1>7. ~o.hole /\ at = r.clock /\ len = r.dur
  BY <1>2, <1>4, <1>5
<1> HIDE DEF at, len
<1>8. ClaimInterval(r, o) = [start |-> r.clock, end |-> r.clock + r.dur]
  BY <1>2, <1>6, <1>7
<1>9. ClaimInterval(r, o) = r.slot
  BY <1>2, <1>3, <1>8
<1>10. r.slot.end > now /\ r.slot.start >= now
  BY <1>1, <1>2, <1>3
<1> QED
  BY <1>1, <1>3, <1>9, <1>10 DEF Over

\* A seat a placement may give again is in the windows it searches.
LEMMA SeatFitsAgain ==
  ASSUME now \in Int, NEW r, OnClockAhead(r), MayHave(r), r.kind = "flexible",
         NEW o, o = CreateOptions(r), NEW span, span = SearchSpan(r, o),
         NEW today, today = Within(HorizonWindows(r.phase), DaySpan(DayOf(r.slot.start)))
  PROVE  /\ span # None
         /\ FitsWindow(r.slot, Clip(today, span.start, span.end))
         /\ r.by # None => r.by > now
<1> DEFINE i == r.slot
           d == DayOf(i.start)
           until == IF r.by # None THEN r.by ELSE DayBounds(d).end
<1>1. r \in Row /\ i \in Interval /\ i.start < i.end /\ i.start >= now /\ i.start = r.clock
  BY SeatIsAsked DEF OnClockAhead, RowOK
<1>2. /\ FitsWindow(i, HorizonWindows(r.phase)) /\ (r.by # None => i.end <= r.by)
      /\ r.by = None => i.end <= DayBounds(d).end
  BY DEF MayHave, InItsTime
<1>3. r.phase \in Phases \cup {None} /\ r.by \in Int \cup {None} /\ i.start \in Int /\ i.end \in Int
  BY <1>1 DEF Row, Interval
<1> HIDE DEF i
<1>4. d \in Int /\ i.start >= DaySpan(d).start /\ i.end <= DaySpan(d).end
  BY <1>1, <1>2, <1>3, FitsItsDay
<1>5. DaySpan(d) \in Interval /\ HorizonWindows(r.phase) \subseteq Interval
  BY <1>3, <1>4, DaySpans, HorizonIsReach DEF WindowsIn
<1>6. FitsWindow(i, today) /\ today \subseteq Interval
  BY <1>1, <1>2, <1>4, <1>5, WithinFits, WithinReach DEF WindowsIn, i
<1>7. DayBounds(d).end \in Int
  <2> DEFINE a == d * DayLen
  <2>1. a \in Int /\ Awake \in Int
    BY <1>4, DaySpans, PlacementAssumption
  <2>2. DayBounds(d).end = a + Awake
    BY DEF DayBounds, OnDay, WholeDay
  <2> HIDE DEF a
  <2> QED
    BY <2>1, <2>2
<1>8. span = [start |-> i.start, end |-> until]
  <2>1. o.preferred = r.clock /\ r.clock # None
    BY <1>1, <1>3, NoNone DEF CreateOptions, Options
  <2>2. span = [start |-> Max({now, r.clock}), end |-> until]
    BY <1>1, <2>1 DEF SearchSpan
  <2>3. Max({now, r.clock}) = r.clock
    BY <1>1, <1>3, OneOfTwo, MaxTwo
  <2> HIDE DEF until
  <2> QED
    BY <1>1, <2>2, <2>3
<1>9. until \in Int /\ i.end <= until
  BY <1>2, <1>3, <1>7
<1> HIDE DEF until, d
<1> DEFINE cut == [start |-> i.start, end |-> until]
<1>10. cut \in Interval /\ cut.start = i.start /\ cut.end = until
  BY <1>3, <1>9 DEF Interval
<1> HIDE DEF cut
<1>11. FitsWindow(i, Within(today, cut))
  BY <1>3, <1>9, <1>10, <1>1, <1>6, WithinFits
<1>12. Clip(today, span.start, span.end) = Within(today, cut) /\ span # None
  BY <1>8, <1>10, NoNone DEF cut, Clip
<1>13. r.by # None => r.by > now
  BY <1>1, <1>2, <1>3
<1> QED
  BY <1>11, <1>12, <1>13 DEF i

\* A create job that runs again asks for the seat its task has, and gets no other.
LEMMA PlannedAgain ==
  ASSUME now \in Int, NEW w, Shape(w), NoTop(w), NEW t \in Tasks, OnClockAhead(w.task[t]),
         MayHave(w.task[t]), NEW order, NEW o, o = CreateOptions(w.task[t]),
         NEW plan, plan = Planned(w, t, o, order)
  PROVE  \/ plan.outcome = "conflict"
         \/ plan.outcome = "seated" /\ plan.at = w.task[t].slot
<1> DEFINE r == w.task[t]
           i == ClaimInterval(r, o)
           day == CASE o.day # None -> o.day
                    [] o.day = None /\ i # None -> DayOf(i.start)
                    [] OTHER -> IF o.preferred = None THEN None ELSE DayOf(o.preferred)
           rows == Rows(w, {t}, order)
           span == SearchSpan(r, o)
           wide == IF span = None \/ ~o.drag \/ i = None THEN span
                   ELSE [start |-> Min({span.start, i.start}), end |-> Max({span.end, i.end})]
           open == HorizonWindows(r.phase)
           today == IF day = None THEN open ELSE Within(open, DaySpan(day))
           windows == IF wide = None THEN today ELSE Clip(today, wide.start, wide.end)
           low == IF wide = None THEN now ELSE wide.start
           near == IF o.hole THEN o.preferred ELSE None
           expired == ~o.drag /\ r.kind = "flexible" /\ r.by # None /\ r.by <= now
           claim == [task |-> t, recurring |-> FALSE, dur |-> o.dur,
                     notBefore |-> low, windows |-> windows, interval |-> i, near |-> near,
                     expired |-> expired,
                     mustFit |-> r.kind = "flexible",
                     overResolved |-> o.commit = "preferred", pack |-> ~o.raw]
           all == IF day = None THEN rows ELSE CutToDay(rows, day, i)
<1>1. /\ r.slot \in Interval /\ r.slot.start < r.slot.end /\ i = r.slot /\ ~Over(r.slot)
  BY SeatIsAsked
<1>2. plan = IF Over(i) THEN Seated(i, {}) ELSE PlanPlacement(claim, all)
  BY Zenon DEF Planned, DaySpan
<1>3. plan = PlanPlacement(claim, all)
  BY <1>1, <1>2, Zenon
<1>4. RowsAre(rows, w, {t}, Horizon) /\ NoTopRow(rows)
  BY RowsRead, RowsWithoutTops
<1>5. o.day = None /\ o.drag = FALSE
  BY DEF CreateOptions, Options
<1>6. r.slot # None /\ DayOf(r.slot.start) \in Int
  BY <1>1, NoNone, DayIsInt DEF Interval
<1>7. day = DayOf(r.slot.start) /\ day # None
  BY <1>1, <1>5, <1>6, NoNone
<1> HIDE DEF i, rows, span, open, day
<1>8. /\ all = CutToDay(rows, day, i) /\ today = Within(open, DaySpan(day))
      /\ wide = span
  BY <1>5, <1>7
<1> HIDE DEF all, today, wide
<1>9. SeatsOK(all, DaySpan(day)) /\ NoTopRow(all)
  <2>1. RowsAre(CutToDay(rows, day, i), w, {t}, DaySpan(day))
    BY <1>4, <1>6, <1>7, CutRows
  <2>2. NoTopRow(CutToDay(rows, day, i))
    BY <1>4, CutWithoutTops
  <2> QED
    BY <1>8, <2>1, <2>2 DEF RowsAre
<1>10. r.kind = "flexible" =>
         span # None /\ FitsWindow(r.slot, Clip(today, span.start, span.end)) /\ (r.by # None => r.by > now)
  <2>1. today = Within(HorizonWindows(r.phase), DaySpan(DayOf(r.slot.start)))
    BY <1>7, <1>8 DEF open
  <2>2. span = SearchSpan(r, o)
    BY DEF span
  <2> HIDE DEF r
  <2> QED
    BY <2>1, <2>2, SeatFitsAgain DEF r
<1>11. r.kind = "flexible" => ~expired /\ FitsWindow(r.slot, windows)
  BY <1>8, <1>10 DEF OnClockAhead, RowOK, Row
<1>12. ~expired
  BY <1>11
<1> HIDE DEF windows, low, near, expired
<1>13. /\ claim.interval = i /\ claim.expired = expired /\ claim.recurring = FALSE
       /\ claim.mustFit = (r.kind = "flexible") /\ claim.windows = windows
  OBVIOUS
<1> HIDE DEF claim
<1>14. /\ claim.interval # None /\ ~claim.expired /\ ~claim.recurring
       /\ claim.mustFit => FitsWindow(claim.interval, claim.windows)
  BY <1>1, <1>6, <1>11, <1>12, <1>13
<1>15. plan.outcome = "conflict" \/ (plan.outcome = "seated" /\ plan.at = claim.interval)
  BY <1>3, <1>9, <1>14, AskedIsGiven
<1> QED
  BY <1>1, <1>13, <1>15

\* A fixed task is refused or given its clock, whoever is on top of it.
LEMMA FixedIsGiven ==
  ASSUME NEW claim, NEW all, claim.interval # None, ~claim.expired, ~claim.mustFit,
         NEW plan, plan = PlanPlacement(claim, all)
  PROVE  \/ plan.outcome = "conflict"
         \/ plan.outcome = "seated" /\ plan.at = claim.interval
<1> DEFINE rows == Those(all, { r \in ToSet(all) : r.task # claim.task })
           Hits(roles) == \E s \in ToSet(rows) : s.role \in roles /\ Overlaps(s, claim.interval)
           given == PlanInterval(claim, rows, SoftBusy(rows))
<1>1. plan = Unseated("conflict") \/ plan = given
  BY DEF PlanPlacement
<1>2. given.outcome = "seated" /\ given.at = claim.interval
  BY IntervalIsGiven
<1> HIDE DEF given
<1> QED
  BY <1>1, <1>2 DEF Unseated

LEMMA FixedPlan ==
  ASSUME NEW w, NEW t, w.task[t].kind = "fixed", NEW o, ClaimInterval(w.task[t], o) # None,
         NEW order, NEW plan, plan = Planned(w, t, o, order)
  PROVE  \/ plan.outcome = "conflict"
         \/ plan.outcome = "seated" /\ plan.at = ClaimInterval(w.task[t], o)
<1> DEFINE r == w.task[t]
           i == ClaimInterval(r, o)
           day == CASE o.day # None -> o.day
                    [] o.day = None /\ i # None -> DayOf(i.start)
                    [] OTHER -> IF o.preferred = None THEN None ELSE DayOf(o.preferred)
           rows == Rows(w, {t}, order)
           span == SearchSpan(r, o)
           wide == IF span = None \/ ~o.drag \/ i = None THEN span
                   ELSE [start |-> Min({span.start, i.start}), end |-> Max({span.end, i.end})]
           open == HorizonWindows(r.phase)
           today == IF day = None THEN open ELSE Within(open, DaySpan(day))
           windows == IF wide = None THEN today ELSE Clip(today, wide.start, wide.end)
           low == IF wide = None THEN now ELSE wide.start
           near == IF o.hole THEN o.preferred ELSE None
           expired == ~o.drag /\ r.kind = "flexible" /\ r.by # None /\ r.by <= now
           claim == [task |-> t, recurring |-> FALSE, dur |-> o.dur,
                     notBefore |-> low, windows |-> windows, interval |-> i, near |-> near,
                     expired |-> expired,
                     mustFit |-> r.kind = "flexible",
                     overResolved |-> o.commit = "preferred", pack |-> ~o.raw]
           all == IF day = None THEN rows ELSE CutToDay(rows, day, i)
<1>1. plan = IF Over(i) THEN Seated(i, {}) ELSE PlanPlacement(claim, all)
  BY DEF Planned, DaySpan
<1>2. Seated(i, {}).outcome = "seated" /\ Seated(i, {}).at = i
  BY DEF Seated
<1>3. ~expired
  OBVIOUS
<1> HIDE DEF i, rows, span, open, day, all, windows, low, near, expired
<1>4. claim.interval = i /\ ~claim.expired /\ ~claim.mustFit
  BY <1>3
<1> HIDE DEF claim
<1>5. plan.outcome = "conflict" \/ (plan.outcome = "seated" /\ plan.at = i)
  BY <1>1, <1>2, <1>4, FixedIsGiven DEF i
<1> QED
  BY <1>5 DEF i

\* A plan that is written seats its task where it says.
LEMMA WrittenSeat ==
  ASSUME NEW w, NEW t, Placeable(w, t), t \notin Copies, NEW o, OptionsOK(o), now \in Int,
         NEW order, NEW plan, plan = Planned(w, t, o, order), plan.outcome = "seated",
         Writes(w, t, o, plan), NEW out, out = Written(w, t, o, plan, order)
  PROVE  out.world.task[t].slot = plan.at
<1> DEFINE r == w.task[t]
           i == plan.at
           moves == plan.moves
           by == IF o.drag THEN DeadlineAfterDrop(r.by, i) ELSE r.by
           new == Settled(r, i, by)
           w0 == Put(w, t, new)
           v == AllMoved(w0, moves)
<1>1. /\ Shape(w) /\ t \in Tasks /\ RowOK(r) /\ r \in Row /\ r.state \notin {"absent", "deleted"}
      /\ ~Over(ClaimInterval(r, o))
  BY DEF Placeable, Shape, RowOK, Writes
<1>2. out.world = Merged(Persisted(w, t, o, plan), t, plan, order)
  BY DEF Written
<1>3. Merged(Persisted(w, t, o, plan), t, plan, order) = Persisted(w, t, o, plan)
  BY DEF Merged
<1>4. Persisted(w, t, o, plan) = v
  BY DEF Persisted
<1>5. PICK all, rows, reach, X, at :
           /\ PlanFor(w, t, t, all, rows, reach)
           /\ Rearranged(i, moves, X, at, rows, reach)
           /\ i \in Interval /\ i.start < i.end
  BY <1>1, PlannedWell
<1>6. by \in Int \cup {None}
  BY <1>1, <1>5, DeadlineIs DEF Row
<1> HIDE DEF i, moves, by
<1>7. RowOK(new) /\ new.state = "none" /\ new.slot = i
  BY <1>1, <1>5, <1>6, SeatedRow
<1> HIDE DEF new
<1>8. /\ Shape(w0) /\ w0.task[t] = new /\ w0.held = w.held
      /\ \A u \in Tasks \ {t} : w0.task[u] = w.task[u]
  BY <1>1, <1>7, PutMade DEF SameBeing
<1> HIDE DEF w0
<1>9. v.task[t] = new
  <2>1. \A s \in Series : w.held[s] \subseteq w0.held[s]
    BY <1>8
  <2>2. v = AllMoved(w0, moves)
    OBVIOUS
  <2> HIDE DEF v
  <2>3. v.task[t] = w0.task[t]
    BY <1>5, <1>8, <2>1, <2>2, AfterPlan
  <2> QED
    BY <1>8, <2>3
<1> HIDE DEF v
<1> QED
  BY <1>2, <1>3, <1>4, <1>7, <1>9 DEF i

\* A refused claim, or one for the seat there is.
AsksAgain(plan, slot) ==
  plan.outcome = "conflict" \/ (plan.outcome = "seated" /\ plan.at = slot)

\* The job of a create that asks for the seat there is leaves it.
LEMMA SeatKept ==
  ASSUME Inv, Clocked(World), NEW t \in Tasks, PlaceSaved(t), task[t].slot # None,
         \A order : AsksAgain(Planned(World, t, CreateOptions(task[t]), order), task[t].slot)
  PROVE  task'[t].slot = task[t].slot
<1> DEFINE r == task[t]
           o == CreateOptions(r)
<1>1. /\ CalendarOK(World) /\ Shape(World) /\ RowOK(r) /\ r \in Row /\ now \in Int
      /\ World.task = task /\ ClockedRow(t, r) /\ r.placing
  BY RowsSound, WorldIs DEF RowOK, Clocked, PlaceSaved
<1>2. PICK order \in RowOrders, again \in BOOLEAN :
        LET out == Placed(World, t, o, order)
            w == IF CanPlace(r) THEN out.world ELSE World
            asks == CanPlace(r) /\ out.plan.outcome = "conflict"
        IN Becomes(Put(w, t, [w.task[t] EXCEPT !.placing = again,
                                !.asked = IF CanPlace(r) THEN asks ELSE @]))
  BY DEF PlaceSaved
<1> DEFINE out == Placed(World, t, o, order)
           w == IF CanPlace(r) THEN out.world ELSE World
           asks == CanPlace(r) /\ out.plan.outcome = "conflict"
           q == w.task[t]
           mark == IF CanPlace(r) THEN asks ELSE q.asked
           new == Marked(q, again, mark)
           v == Put(w, t, new)
<1>3. Becomes(v)
  BY <1>2 DEF Marked
<1>4. t \notin Copies
  BY <1>1 DEF ClockedRow
<1>5. OptionsOK(o) /\ OptionFields \subseteq DOMAIN o /\ o = CreateOptions(r)
  BY <1>1, CreateOptionsOK
<1>6. out = Placed(World, t, o, order)
  OBVIOUS
<1> HIDE DEF o, out
<1>7. q.slot = r.slot /\ Shape(w)
  <2>1. CASE ~CanPlace(r)
    BY <1>1, <2>1
  <2>2. CASE CanPlace(r)
    <3> DEFINE plan == Planned(World, t, o, order)
    <3>1. World.task[t] = r /\ r.state = "none" /\ Placeable(World, t)
      BY <1>1, <2>2 DEF Placeable, CalendarOK, Apart, CanPlace
    <3>3. plan = Planned(World, t, o, order) /\ AsksAgain(plan, r.slot)
      BY <1>5
    <3> HIDE DEF plan
    <3>4. plan.outcome = "conflict" \/ (plan.outcome = "seated" /\ plan.at = r.slot)
      BY <3>3 DEF AsksAgain
    <3>5. out = Written(World, t, o, plan, order)
      BY <3>4, <1>6, <3>1, <3>3 DEF MissedClock, Placed, Reconsidered
    <3>6. Shape(out.world)
      BY <1>1, <1>5, <3>1, <3>3, <3>5, WrittenLeaves DEF Leaves, CalendarOK
    <3>7. CASE Writes(World, t, o, plan)
      <4>1. plan.outcome = "seated" /\ plan.at = r.slot
        BY <3>4, <3>7 DEF Writes
      <4>2. out.world.task[t].slot = plan.at
        BY <1>1, <1>4, <1>5, <3>1, <3>3, <3>5, <3>7, <4>1, WrittenSeat
      <4> QED
        BY <2>2, <3>6, <4>1, <4>2
    <3>8. CASE ~Writes(World, t, o, plan)
      BY <3>5, <3>8, <1>1, <2>2, <3>1 DEF Written
    <3> QED
      BY <3>7, <3>8
  <2> QED
    BY <2>1, <2>2
<1> HIDE DEF w
<1>8. q \in Row /\ w.task \in [Tasks -> Row]
  BY <1>7 DEF Shape, Worlds
<1> HIDE DEF q, mark
<1>9. new.slot = q.slot
  BY <1>8 DEF Row, Marked
<1> HIDE DEF new
<1>10. v.task[t] = new
  BY <1>7, <1>8 DEF Shape, Worlds, Put
<1>11. task' = v.task
  BY <1>3 DEF Becomes
<1> HIDE DEF v
<1> QED
  BY <1>7, <1>9, <1>10, <1>11

LEMMA RetriedSeat ==
  ASSUME Inv, Clocked(World), NEW t \in Tasks, PlaceSaved(t), layered = {},
         task[t].slot # None, OnItsClock(task[t]), MayHave(task[t])
  PROVE  task'[t].slot = task[t].slot
<1> DEFINE r == task[t]
<1>1. Shape(World) /\ RowOK(r) /\ now \in Int /\ World.task[t] = r /\ ClockedRow(t, r)
  BY RowsSound, WorldIs DEF Clocked
<1>2. NoTop(World)
  BY RowsSound DEF CalendarOK, TopsKnown, NoTop
<1>3. OnClockAhead(r)
  BY <1>1 DEF OnClockAhead, OnItsClock, ClockedRow, OnClock
<1>4. ASSUME NEW order PROVE AsksAgain(Planned(World, t, CreateOptions(r), order), r.slot)
  <2> DEFINE o == CreateOptions(r)
             plan == Planned(World, t, o, order)
  <2>1. OnClockAhead(World.task[t]) /\ MayHave(World.task[t]) /\ o = CreateOptions(World.task[t])
    BY <1>1, <1>3
  <2>2. plan = Planned(World, t, o, order)
    OBVIOUS
  <2> HIDE DEF o, plan
  <2>3. plan.outcome = "conflict" \/ (plan.outcome = "seated" /\ plan.at = World.task[t].slot)
    BY <1>1, <1>2, <2>1, <2>2, PlannedAgain
  <2> QED
    BY <1>1, <2>3 DEF AsksAgain, o, plan
<1> QED
  BY <1>4, SeatKept

\* A fixed task with a slot asks for it again.
LEMMA FixedSeatKept ==
  ASSUME Inv, Clocked(World), NEW t \in Tasks, PlaceSaved(t), task[t].slot # None,
         task[t].kind = "fixed"
  PROVE  task'[t].slot = task[t].slot
<1> DEFINE r == task[t]
           o == CreateOptions(r)
           i == ClaimInterval(r, o)
<1>1. RowOK(r) /\ r \in Row /\ World.task[t] = r /\ ClockedRow(t, r)
  BY RowsSound, WorldIs DEF Clocked, RowOK
<1>2. r.clock # None /\ r.slot.start = r.clock /\ r.slot.end = r.clock + r.dur /\ r.slot \in Interval
  BY <1>1 DEF RowOK, Row, ClockedRow, OnClock
<1>3. i = r.slot
  <2>1. o.hole = FALSE
    BY DEF CreateOptions, Options
  <2> HIDE DEF o
  <2>2. i = [start |-> r.clock, end |-> r.clock + r.dur]
    BY <1>2, <2>1 DEF ClaimInterval
  <2> QED
    BY <1>2, <2>2 DEF Interval
<1>4. ASSUME NEW order PROVE AsksAgain(Planned(World, t, o, order), r.slot)
  <2> DEFINE plan == Planned(World, t, o, order)
  <2>1. ClaimInterval(World.task[t], o) = r.slot /\ World.task[t].kind = "fixed"
    BY <1>1, <1>3
  <2>2. plan = Planned(World, t, o, order)
    OBVIOUS
  <2> HIDE DEF o, plan
  <2>3. AsksAgain(plan, r.slot)
    BY <2>1, <2>2, FixedPlan DEF AsksAgain
  <2> QED
    BY <2>3 DEF plan
<1> QED
  BY <1>4, SeatKept

\* What a create job that runs again does, step by step.
KeepsSeat ==
  did'.op = "place" /\ layered = {} =>
    \A t \in Tasks :
      LET r == task[t]
      IN did'.task = t /\ r.slot # None /\ OnItsClock(r) /\ MayHave(r)
         => task'[t].slot = r.slot

LEMMA StepKeepsSeat == Inv /\ Clocked(World) /\ Next => KeepsSeat
<1> SUFFICES ASSUME Inv, Clocked(World), Next, did'.op = "place", layered = {},
                    NEW t \in Tasks, did'.task = t, task[t].slot # None, OnItsClock(task[t]),
                    MayHave(task[t])
             PROVE  task'[t].slot = task[t].slot
  BY DEF KeepsSeat
<1>1. \A op, u : UserDoes(op, u) => did'.op = op
  BY DEF UserDoes
<1>2. ASSUME NEW u, Save(u) \/ Drag(u) \/ PutOnTop(u) \/ LeaveParked(u) \/ Begin(u) \/ Done(u)
                    \/ Reopen(u) \/ Delete(u)
      PROVE  FALSE
  <2>1. Save(u) => UserDoes("save", u)
    BY DEF Save
  <2>2. Drag(u) => UserDoes("drag", u)
    BY DEF Drag
  <2>3. PutOnTop(u) => UserDoes("on top", u)
    BY DEF PutOnTop
  <2>4. LeaveParked(u) => UserDoes("leave", u)
    BY DEF LeaveParked
  <2>5. Begin(u) => UserDoes("begin", u)
    BY DEF Begin
  <2>6. Done(u) => UserDoes("done", u)
    BY DEF Done
  <2>7. Reopen(u) => UserDoes("reopen", u)
    BY DEF Reopen
  <2>8. Delete(u) => UserDoes("delete", u)
    BY DEF Delete
  <2> QED
    BY <1>1, <1>2, <2>1, <2>2, <2>3, <2>4, <2>5, <2>6, <2>7, <2>8
<1>3. PICK u \in Tasks : PlaceSaved(u)
  <2>1. ~SeatOpenHoles /\ ~Tick
    BY DEF SeatOpenHoles, Tick
  <2> QED
    BY <1>2, <2>1 DEF Next
<1>4. u = t
  BY <1>3 DEF PlaceSaved
<1> QED
  BY <1>3, <1>4, RetriedSeat

-----------------------------------------------------------------------------
(* Who is pushed aside. *)

\* Whoever is not the task of the step is displaced at most, and on its day.
Gentle(v, w, t) ==
  /\ \A u \in Tasks \ {t} : Displaced(w.task[u], v.task[u])
  /\ ~Overnight(v.task[t]) => \A u \in Tasks \ {t} : OnItsDay(w.task[u], v.task[u])

LEMMA SameIsGentle ==
  ASSUME NEW v, NEW w, NEW t, \A u \in Tasks \ {t} : v.task[u] = w.task[u]
  PROVE  Gentle(v, w, t)
BY DEF Gentle, Displaced, OnItsDay

LEMMA PlacedGentle ==
  ASSUME NEW w, NEW t \in Tasks,
         w.task[t].state = "resolved" => CalendarOK(w),
         w.task[t].state # "resolved" => Placeable(w, t),
         NEW o, OptionsOK(o), OptionFields \subseteq DOMAIN o,
         now \in Int, NEW order, NEW out, out = Placed(w, t, o, order)
  PROVE  Gentle(out.world, w, t)
<1>1. CASE w.task[t].state = "resolved"
  BY <1>1, ResolvedLeaves, SameIsGentle DEF Placed
<1>2. CASE w.task[t].state # "resolved"
  <2>1. PICK oo : Came(out, w, t, oo, order)
    BY <1>2, PlacedComes
  <2>2. CASE Writes(w, t, oo, out.plan)
    BY <2>1, <2>2 DEF Came, Leaves, Courteous, Gentle
  <2>3. CASE ~Writes(w, t, oo, out.plan)
    BY <2>1, <2>3, SameIsGentle DEF Came
  <2> QED
    BY <2>2, <2>3
<1> QED
  BY <1>1, <1>2

\* What a step does to those who are seated, step by step.
Pushes ==
  \A t \in Tasks :
    LET a == task[t].slot
        b == task'[t].slot
        placed == did'.task
    IN task[t].state = "none" /\ a # None /\ a # b =>
         /\ task[t].kind = "fixed" => task'[t].state = "deleted"
         /\ /\ t # placed /\ task'[t].state = "none" /\ b # None /\ InItsTime(task[t])
            /\ placed \in Tasks => ~Overnight(task'[placed])
            => DayOf(a.start) = DayOf(b.start) /\ b.start >= now /\ InItsTime(task'[t])

KeepsFixed(t) ==
  task[t].state = "none" /\ task[t].kind = "fixed" /\ task[t].slot # None
  => task'[t].slot = task[t].slot \/ task'[t].state = "deleted"

\* A row that is displaced, and on its day, is not pushed further than that.
LEMMA AsideIsAPush ==
  ASSUME NEW a, NEW b, a.state = "none", a.slot # None, a.slot # b.slot, Displaced(a, b)
  PROVE  /\ a.kind # "fixed"
         /\ OnItsDay(a, b) /\ b.state = "none" /\ b.slot # None /\ InItsTime(a)
            => DayOf(a.slot.start) = DayOf(b.slot.start) /\ b.slot.start >= now /\ InItsTime(b)
<1>1. a.kind = "flexible"
  BY DEF Displaced
<1>2. ASSUME OnItsDay(a, b), b.state = "none", b.slot # None, InItsTime(a)
      PROVE  DayOf(a.slot.start) = DayOf(b.slot.start) /\ b.slot.start >= now /\ InItsTime(b)
  BY <1>2 DEF OnItsDay, InTime, InItsTime
<1> QED
  BY <1>1, <1>2

LEMMA GentlePushes ==
  ASSUME NEW t \in Tasks, did'.task = t, KeepsFixed(t),
         \A u \in Tasks \ {t} : Displaced(task[u], task'[u]),
         ~Overnight(task'[t]) => \A u \in Tasks \ {t} : OnItsDay(task[u], task'[u])
  PROVE  Pushes
<1> SUFFICES ASSUME NEW u \in Tasks, task[u].state = "none", task[u].slot # None,
                    task[u].slot # task'[u].slot
             PROVE  /\ task[u].kind = "fixed" => task'[u].state = "deleted"
                    /\ /\ u # did'.task /\ task'[u].state = "none" /\ task'[u].slot # None
                       /\ InItsTime(task[u])
                       /\ did'.task \in Tasks => ~Overnight(task'[did'.task])
                       => /\ DayOf(task[u].slot.start) = DayOf(task'[u].slot.start)
                          /\ task'[u].slot.start >= now /\ InItsTime(task'[u])
  BY DEF Pushes
<1>1. CASE u = t
  BY <1>1 DEF KeepsFixed
<1>2. CASE u # t
  BY <1>2, AsideIsAPush
<1> QED
  BY <1>1, <1>2

\* The calendar comes out as `v`, but for marks on the row of the task.
LEMMA ComesOutGently ==
  ASSUME NEW t \in Tasks, did'.task = t, now' = now, KeepsFixed(t), NEW w, NEW v, Gentle(v, w, t),
         Clocked(v), ClockedRow(t, task'[t]), task'[t].slot = v.task[t].slot,
         \A u \in Tasks \ {t} : w.task[u] = task[u] /\ task'[u] = v.task[u]
  PROVE  Clocked(World)' /\ Pushes
<1>1. \A u \in Tasks \ {t} : Displaced(task[u], task'[u])
  BY DEF Gentle
<1>2. Overnight(v.task[t]) => Overnight(task'[t])
  BY DEF Overnight
<1>3. ~Overnight(task'[t]) => \A u \in Tasks \ {t} : OnItsDay(task[u], task'[u])
  BY <1>2 DEF Gentle
<1>4. \A u \in Tasks : ClockedRow(u, task'[u])
  BY DEF Clocked
<1>5. Clocked(World)'
  BY <1>4, WorldIs DEF Clocked, ClockedRow, OnClock
<1> QED
  BY <1>1, <1>3, <1>5, GentlePushes

\* A step that writes the row of its task, and no other.
LEMMA RowComes ==
  ASSUME Inv, Clocked(World), NEW t \in Tasks, NEW r, ClockedRow(t, r), did'.task = t,
         task' = [task EXCEPT ![t] = r], now' = now,
         task[t].state = "none" /\ task[t].slot # None => r.slot = task[t].slot \/ r.state = "deleted"
  PROVE  Clocked(World)' /\ Pushes
<1> DEFINE v == Put(World, t, r)
<1>1. task \in [Tasks -> Row] /\ World.task = task /\ CalendarOK(World)
  BY RowsSound, WorldIs
<1>2. v.task = task' /\ task'[t] = r /\ \A u \in Tasks \ {t} : task'[u] = task[u]
  BY <1>1 DEF Put, World
<1>3. Clocked(v)
  BY <1>1, PutClocked DEF CalendarOK
<1> HIDE DEF v
<1>4. KeepsFixed(t)
  BY <1>2 DEF KeepsFixed
<1>5. Gentle(v, World, t)
  BY <1>1, <1>2, SameIsGentle
<1> QED
  BY <1>1, <1>2, <1>3, <1>4, <1>5, ComesOutGently

\* The steps that place nobody.
LEMMA MarksCome ==
  ASSUME Inv, Clocked(World), NEW t \in Tasks,
         (Save(t) /\ t \in OneOffs) \/ PutOnTop(t) \/ LeaveParked(t) \/ Begin(t) \/ Done(t) \/ Delete(t)
  PROVE  Clocked(World)' /\ Pushes
<1>1. RowOK(task[t]) /\ task[t] \in Row /\ ClockedRow(t, task[t])
  BY RowsSound, WorldIs DEF RowOK, Clocked
<1>2. did'.task = t
  <2>1. \A op : UserDoes(op, t) => did'.task = t
    BY DEF UserDoes
  <2>2. \E op : UserDoes(op, t)
    BY DEF Save, PutOnTop, LeaveParked, Begin, Done, Delete
  <2> QED
    BY <2>1, <2>2
<1>3. CASE Save(t) /\ t \in OneOffs
  <2>1. PICK kind \in Kinds, dur \in Durs, clock \in Clocks \cup {None},
             by \in Deadlines \cup {None}, phase \in Phases \cup {None} :
               /\ kind = "fixed" => by = None
               /\ task' = [task EXCEPT ![t] = NewRow(kind, dur, clock, by, phase)]
    BY <1>3 DEF Save
  <2> DEFINE r == NewRow(kind, dur, clock, by, phase)
  <2>2. r.slot = None /\ r.kind = kind /\ r.by = by
    BY DEF NewRow, Absent
  <2>3. t \notin Copies
    BY <1>3, InputAssumption DEF Copies
  <2>4. ClockedRow(t, r)
    BY <2>1, <2>2, <2>3 DEF ClockedRow, OnClock
  <2>5. task' = [task EXCEPT ![t] = r] /\ now' = now /\ task[t].state # "none"
    BY <1>3, <2>1 DEF Save
  <2> HIDE DEF r
  <2> QED
    BY <1>2, <2>4, <2>5, RowComes
<1>4. CASE PutOnTop(t)
  <2> DEFINE o == task[t]
             slot == [start |-> o.clock, end |-> o.clock + o.dur]
             r == [o EXCEPT !.state = "resolved", !.asked = FALSE, !.was = o.clock, !.slot = slot]
  <2>1. task' = [task EXCEPT ![t] = r] /\ now' = now /\ task[t].slot = None
    BY <1>4 DEF PutOnTop
  <2>2. slot.start = o.clock /\ slot.end = o.clock + o.dur
    OBVIOUS
  <2> HIDE DEF slot
  <2>3. /\ r.slot = slot /\ r.clock = o.clock /\ r.dur = o.dur /\ r.kind = o.kind /\ r.by = o.by
        /\ r.placing = o.placing
    BY <1>1 DEF Row
  <2> HIDE DEF r
  <2>4. ClockedRow(t, r)
    BY <1>1, <2>2, <2>3 DEF ClockedRow, OnClock
  <2> QED
    BY <1>2, <2>1, <2>4, RowComes
<1>5. CASE LeaveParked(t)
  <2> DEFINE o == task[t]
             was == o.clock
             q == Park(o)
             r == [q EXCEPT !.asked = TRUE, !.was = was]
  <2>1. task' = [task EXCEPT ![t] = r] /\ now' = now /\ task[t].slot = None
    BY <1>5 DEF LeaveParked
  <2>2. q \in Row
    BY <1>1, ParkOK DEF RowOK
  <2>3. q.slot = None /\ q.kind = o.kind /\ q.by = o.by /\ q.placing = o.placing
    BY <1>1 DEF Park, Row
  <2> HIDE DEF q, was
  <2>4. r.slot = None /\ r.kind = o.kind /\ r.by = o.by /\ r.placing = o.placing
    BY <2>2, <2>3 DEF Row
  <2> HIDE DEF r
  <2>5. ClockedRow(t, r)
    BY <1>1, <2>4 DEF ClockedRow, OnClock
  <2> QED
    BY <1>2, <2>1, <2>5, RowComes
<1>6. CASE Begin(t) \/ Done(t)
  <2>1. PICK status \in {"doing", "done"} :
          task' = [task EXCEPT ![t] = [task[t] EXCEPT !.status = status]] /\ now' = now
    BY <1>1, <1>6, RowsSound DEF Begin, Done
  <2> DEFINE r == [task[t] EXCEPT !.status = status]
  <2>2. /\ r.slot = task[t].slot /\ r.clock = task[t].clock /\ r.dur = task[t].dur
        /\ r.kind = task[t].kind /\ r.by = task[t].by /\ r.placing = task[t].placing
    BY <1>1 DEF Row
  <2>3. task' = [task EXCEPT ![t] = r]
    BY <2>1
  <2> HIDE DEF r
  <2>4. ClockedRow(t, r)
    BY <1>1, <2>2 DEF ClockedRow, OnClock
  <2> QED
    BY <1>2, <2>1, <2>2, <2>3, <2>4, RowComes
<1>7. CASE Delete(t)
  <2> DEFINE r == [Absent EXCEPT !.state = "deleted"]
  <2>1. task' = [task EXCEPT ![t] = r] /\ now' = now
    BY <1>7 DEF Delete
  <2>2. r.slot = None /\ r.kind = "flexible" /\ r.placing = FALSE /\ r.state = "deleted"
    BY DEF Absent
  <2> HIDE DEF r
  <2>3. ClockedRow(t, r)
    BY <2>2 DEF ClockedRow, OnClock
  <2> QED
    BY <1>2, <2>1, <2>2, <2>3, RowComes
<1> QED
  BY <1>3, <1>4, <1>5, <1>6, <1>7

LEMMA PlaceSavedComes ==
  ASSUME Inv, Clocked(World), NEW t \in Tasks, PlaceSaved(t)
  PROVE  Clocked(World)' /\ Pushes
<1> DEFINE r == task[t]
           o == CreateOptions(r)
<1>1. /\ CalendarOK(World) /\ Shape(World) /\ r \in Row /\ now \in Int /\ now' = now
      /\ World.task = task /\ did'.task = t /\ t \notin Copies
  BY RowsSound, WorldIs DEF RowOK, PlaceSaved, Clocked, ClockedRow
<1>2. PICK order \in RowOrders, again \in BOOLEAN :
        LET out == Placed(World, t, o, order)
            w == IF CanPlace(r) THEN out.world ELSE World
            asks == CanPlace(r) /\ out.plan.outcome = "conflict"
        IN Becomes(Put(w, t, [w.task[t] EXCEPT !.placing = again,
                                !.asked = IF CanPlace(r) THEN asks ELSE @]))
  BY DEF PlaceSaved
<1> DEFINE out == Placed(World, t, o, order)
           w == IF CanPlace(r) THEN out.world ELSE World
           asks == CanPlace(r) /\ out.plan.outcome = "conflict"
           q == w.task[t]
           mark == IF CanPlace(r) THEN asks ELSE q.asked
           new == Marked(q, again, mark)
           v == Put(w, t, new)
<1>3. Becomes(v)
  BY <1>2 DEF Marked
<1>4. OptionsOK(o) /\ OptionFields \subseteq DOMAIN o
  BY <1>1, CreateOptionsOK
<1>5. out = Placed(World, t, o, order)
  OBVIOUS
<1> HIDE DEF o, out
<1>6. Gentle(w, World, t) /\ Shape(w) /\ Clocked(w)
  <2>1. CASE ~CanPlace(r)
    BY <1>1, <2>1, SameIsGentle
  <2>2. CASE CanPlace(r)
    <3>1. Placeable(World, t) /\ World.task[t].state # "resolved"
      BY <1>1, <2>2 DEF Placeable, CalendarOK, Apart, CanPlace
    <3>2. Gentle(out.world, World, t) /\ Clocked(out.world)
      BY <1>1, <1>4, <1>5, <3>1, PlacedGentle, PlacedClocked
    <3>3. PICK oo : Came(out, World, t, oo, order)
      BY <1>1, <1>4, <1>5, <3>1, PlacedComes
    <3>4. Shape(out.world)
      BY <1>1, <3>3 DEF Came, Leaves, CalendarOK
    <3> QED
      BY <2>2, <3>2, <3>4
  <2> QED
    BY <2>1, <2>2
<1> HIDE DEF w
<1>7. q \in Row /\ ClockedRow(t, q) /\ w.task \in [Tasks -> Row]
  BY <1>6 DEF Shape, RowOK, Worlds, Clocked
<1> HIDE DEF mark
<1>8. new.slot = q.slot /\ new.clock = q.clock /\ new.dur = q.dur /\ new.kind = q.kind /\ new.by = q.by
  BY <1>7 DEF Row, Marked
<1> HIDE DEF new, q
<1>12. ClockedRow(t, new)
  BY <1>1, <1>7, <1>8 DEF ClockedRow, OnClock
<1>9. task' = [w.task EXCEPT ![t] = new]
  BY <1>3 DEF Becomes, Put
<1>10. task'[t] = new /\ new.slot = w.task[t].slot /\ \A u \in Tasks \ {t} : task'[u] = w.task[u]
  BY <1>7, <1>8, <1>9 DEF q
<1>11. KeepsFixed(t)
  BY FixedSeatKept DEF KeepsFixed
<1> QED
  BY <1>1, <1>6, <1>10, <1>11, <1>12, ComesOutGently

LEMMA DragComes ==
  ASSUME Inv, Clocked(World), NEW t \in Tasks, Drag(t)
  PROVE  Clocked(World)' /\ Pushes
<1> DEFINE r == task[t]
<1>1. /\ CalendarOK(World) /\ Shape(World) /\ RowOK(r) /\ r \in Row /\ now \in Int
      /\ World.task = task /\ World.task[t] = r /\ ClockedRow(t, r)
  BY RowsSound, WorldIs DEF RowOK, Clocked
<1>2. /\ r.kind = "flexible" /\ r.status # "done" /\ r.slot # None /\ r.state \in {"none", "resolved"}
      /\ did'.task = t /\ now' = now
  BY DEF Drag, UserDoes
<1>3. PICK at \in Drops, dur \in Durs, order \in RowOrders :
        LET w == Put(World, t, [r EXCEPT !.phase = PhaseAt(at)])
            out == Placed(w, t, DragOptions(at, dur), order)
        IN IF DropRefused(out.plan, at) THEN Becomes(World) ELSE Becomes(out.world)
  BY DEF Drag, DragOptions
<1> DEFINE phase == PhaseAt(at)
           new == [r EXCEPT !.phase = phase]
           w == Put(World, t, new)
           o == DragOptions(at, dur)
           out == Placed(w, t, o, order)
<1>4. Becomes(World) \/ Becomes(out.world)
  BY <1>3
<1>5. phase \in Phases \cup {None}
  BY PhaseIs
<1> HIDE DEF phase
<1>6. /\ new \in Row /\ new.state = r.state /\ new.slot = r.slot /\ new.status = r.status
      /\ new.clock = r.clock /\ new.dur = r.dur /\ new.kind = r.kind /\ new.asked = r.asked
      /\ new.by = r.by /\ new.placing = r.placing
  BY <1>1, <1>5 DEF Row
<1> HIDE DEF new
<1>7. RowOK(new) /\ SameBeing(new, r) /\ ClockedRow(t, new)
  BY <1>1, <1>6 DEF RowOK, SameBeing, ClockedRow, OnClock
<1>8. Firm(t, new) => Firm(t, r) /\ new.slot = r.slot
  BY <1>6 DEF Firm, Open, Excused
<1>9. CalendarOK(w) /\ Clocked(w)
  BY <1>1, <1>6, <1>7, <1>8, PutQuiet, PutClocked
<1>10. w.task[t] = new /\ \A u \in Tasks \ {t} : w.task[u] = task[u]
  BY <1>1, <1>7, PutMade
<1>11. at \in Int /\ dur \in Nat \ {0}
  BY InputAssumption
<1>12. OptionsOK(o) /\ OptionFields \subseteq DOMAIN o
  BY <1>11 DEF DragOptions, Options, OptionsOK, OptionFields
<1>13. out = Placed(w, t, o, order)
  OBVIOUS
<1> HIDE DEF w, o, out
<1>14. IF w.task[t].state = "resolved" THEN Shape(w) ELSE Placeable(w, t)
  BY <1>2, <1>6, <1>9, <1>10 DEF Placeable, CalendarOK, Apart
<1>15. Gentle(out.world, w, t) /\ Clocked(out.world)
  BY <1>1, <1>9, <1>12, <1>13, <1>14, PlacedGentle, PlacedClocked
<1>16. KeepsFixed(t)
  BY <1>2 DEF KeepsFixed
<1>17. CASE Becomes(World)
  BY <1>1, <1>17, SameIsGentle, <1>2, <1>16, ComesOutGently DEF Becomes
<1>18. CASE Becomes(out.world)
  BY <1>15, <1>18, <1>2, <1>10, <1>16, ComesOutGently DEF Becomes, Clocked
<1> QED
  BY <1>4, <1>17, <1>18

LEMMA ReopenComes ==
  ASSUME Inv, Clocked(World), NEW t \in Tasks, Reopen(t)
  PROVE  Clocked(World)' /\ Pushes
<1> DEFINE r == task[t]
           new == [r EXCEPT !.status = "todo"]
           w == Put(World, t, new)
<1>1. /\ CalendarOK(World) /\ Shape(World) /\ RowOK(r) /\ r \in Row /\ now \in Int
      /\ World.task = task /\ World.task[t] = r /\ ClockedRow(t, r)
  BY RowsSound, WorldIs DEF RowOK, Clocked
<1>2. r.state \notin {"absent", "deleted"} /\ did'.task = t /\ now' = now
  BY DEF Reopen, Exists, UserDoes
<1>3. PICK order \in RowOrders :
        Becomes(IF w.task[t].clock # None /\ CanPlace(w.task[t]) THEN BackInPlace(w, t, order) ELSE w)
  BY DEF Reopen
<1>4. /\ new \in Row /\ new.state = r.state /\ new.slot = r.slot /\ new.status = "todo"
      /\ new.clock = r.clock /\ new.dur = r.dur /\ new.kind = r.kind /\ new.asked = r.asked
      /\ new.by = r.by /\ new.placing = r.placing
  BY <1>1 DEF Row
<1> HIDE DEF new
<1>5. RowOK(new) /\ SameBeing(new, r) /\ ClockedRow(t, new) /\ (r.kind = "fixed" => r.by = None)
  BY <1>1, <1>4 DEF RowOK, SameBeing, ClockedRow, OnClock
<1>6. /\ Shape(w) /\ w.task[t] = new /\ \A u \in Tasks \ {t} : w.task[u] = World.task[u]
      /\ w.held = World.held /\ Clocked(w)
  BY <1>1, <1>5, PutMade, PutClocked
<1> HIDE DEF w
<1>7. TopsKnown(w) /\ Apart(w, {t})
  BY <1>1, <1>4, <1>6 DEF CalendarOK, TopsKnown, Apart
<1>8. Placeable(w, t)
  BY <1>2, <1>4, <1>6, <1>7 DEF Placeable
<1>9. CASE Becomes(w)
  BY <1>9, <1>4, <1>6, SameIsGentle, <1>1, <1>2, <1>5, ComesOutGently DEF Becomes, KeepsFixed
<1>10. CASE ~Becomes(w)
  <2> DEFINE q == w.task[t]
             keep == KeepOptions(q)
             hole == [keep EXCEPT !.hole = TRUE, !.day = DayOf(q.clock)]
             expired == q.by # None /\ q.by <= now
             o == IF expired THEN keep ELSE hole
             out == Placed(w, t, o, order)
  <2>1. q.clock # None /\ CanPlace(q) /\ Becomes(BackInPlace(w, t, order)) /\ ~KeepsClock(w, t, order)
    BY <1>3, <1>10 DEF BackInPlace
  <2>2. BackInPlace(w, t, order) = out.world
    <3>1. BackInPlace(w, t, order) = IF KeepsClock(w, t, order) THEN w
                                     ELSE Placed(w, t, IF expired THEN keep ELSE hole, order).world
      BY DEF BackInPlace
    <3> HIDE DEF expired, keep, hole
    <3> QED
      BY <2>1, <3>1
  <2>3. q \in Row /\ q.clock \in Int /\ q.dur \in Nat \ {0} /\ q.state # "resolved"
    BY <1>4, <1>6, <2>1 DEF Row, CanPlace
  <2>4. OptionsOK(o) /\ OptionFields \subseteq DOMAIN o
    <3>1. DayOf(q.clock) \in Int
      BY <2>3, DayIsInt
    <3>2. OptionsOK(keep) /\ OptionFields \subseteq DOMAIN keep
      BY <2>3, KeepOptionsOK
    <3>3. OptionsOK(hole) /\ OptionFields \subseteq DOMAIN hole
      BY <2>3, <3>1 DEF KeepOptions, Options, OptionsOK, OptionFields
    <3> HIDE DEF keep, hole
    <3> QED
      BY <3>2, <3>3
  <2>5. out = Placed(w, t, o, order) /\ w.task[t].state # "resolved"
    BY <2>3
  <2>6. task' = out.world.task
    BY <2>1, <2>2 DEF Becomes
  <2>7. q.kind # "fixed"
    BY <1>4, <1>5, <1>6, <2>1 DEF KeepsClock
  <2>8. KeepsFixed(t)
    BY <1>4, <1>6, <2>7 DEF KeepsFixed
  <2> HIDE DEF o, out, q
  <2>9. Gentle(out.world, w, t) /\ Clocked(out.world)
    BY <1>1, <1>6, <1>8, <2>4, <2>5, PlacedGentle, PlacedClocked
  <2>10. ClockedRow(t, out.world.task[t])
    BY <2>9 DEF Clocked
  <2> QED
    BY <1>1, <1>2, <1>6, <2>6, <2>8, <2>9, <2>10, ComesOutGently
<1> QED
  BY <1>9, <1>10

\* A pass over the inbox changes the row of no task that is seated.
LEMMA FillLeaves ==
  ASSUME Inv, SeatOpenHoles
  PROVE  \A t \in Tasks : ~SeatsItself(task[t]) => task'[t] = task[t]
<1>1. CalendarOK(World) /\ now \in Int /\ World.task = task
  BY RowsSound, WorldIs
<1>2. PICK order \in RowOrders : Becomes(FilledHoles(World, order))
  BY DEF SeatOpenHoles
<1>3. task' = FilledHoles(World, order).task
  BY <1>2 DEF Becomes
<1> QED
  BY <1>1, <1>3, HolesFilled

LEMMA FillComes ==
  ASSUME Inv, Clocked(World), SeatOpenHoles
  PROVE  Clocked(World)' /\ Pushes
<1>1. PICK order \in RowOrders : Becomes(FilledHoles(World, order)) /\ now' = now
  BY DEF SeatOpenHoles
<1> DEFINE v == FilledHoles(World, order)
<1>2. Clocked(v)
  BY RowsSound, HolesFilled
<1>3. v.task = task'
  BY <1>1 DEF Becomes
<1> HIDE DEF v
<1>4. Clocked(World)'
  BY <1>1, <1>2, <1>3, WorldIs DEF Clocked, ClockedRow, OnClock
<1>5. Pushes
  BY FillLeaves DEF SeatsItself, Pushes
<1> QED
  BY <1>4, <1>5

LEMMA StepComes == Inv /\ Clocked(World) /\ [Next]_vars => Clocked(World)' /\ [Pushes]_vars
<1> SUFFICES ASSUME Inv, Clocked(World), [Next]_vars PROVE Clocked(World)' /\ [Pushes]_vars
  OBVIOUS
<1>1. ASSUME NEW t \in OneOffs, Save(t) PROVE Clocked(World)' /\ Pushes
  BY <1>1, MarksCome DEF Tasks
<1>2. ASSUME NEW t \in Tasks, PutOnTop(t) \/ LeaveParked(t) \/ Begin(t) \/ Done(t) \/ Delete(t)
      PROVE  Clocked(World)' /\ Pushes
  BY <1>2, MarksCome
<1>3. ASSUME NEW t \in Tasks, PlaceSaved(t) \/ Drag(t) \/ Reopen(t) PROVE Clocked(World)' /\ Pushes
  BY <1>3, PlaceSavedComes, DragComes, ReopenComes
<1>4. CASE SeatOpenHoles
  BY <1>4, FillComes
<1>5. CASE Tick \/ UNCHANGED vars
  <2>1. task' = task /\ now' >= now /\ now \in Int /\ now' \in Int
    BY <1>5, InputAssumption DEF Tick, vars, Inv
  <2>2. \A t \in Tasks : task[t].slot # None => task[t].clock \in Int
    BY RowsSound DEF RowOK, Row
  <2>3. Clocked(World)'
    BY <2>1, <2>2, WorldIs DEF Clocked, ClockedRow, OnClock
  <2> QED
    BY <2>1, <2>3 DEF Pushes
<1> QED
  BY <1>1, <1>2, <1>3, <1>4, <1>5 DEF Next

LEMMA InitClocked == Init => Clocked(World)
<1> SUFFICES ASSUME Init, NEW t \in Tasks PROVE ClockedRow(t, World.task[t])
  BY DEF Clocked
<1>1. World.task[t] = Absent
  BY WorldIs DEF Init
<1> QED
  BY <1>1 DEF Absent, ClockedRow, OnClock

-----------------------------------------------------------------------------
(* What a pass over the inbox leaves open. *)

Fills ==
  did'.op = "fill" =>
    \A t \in Tasks :
      LET r == task'[t]
          free(s) == \A o \in OpenSlots' \cup Reserved' : ~Overlaps([start |-> s, end |-> s + r.dur], o)
      IN /\ task[t].state \in {"none", "resolved"} => r.slot = task[t].slot
         /\ SeatsItself(r) /\ r.parkedDay = None =>
              ~\E w \in HorizonWindows(r.phase), s \in now .. EndOfTime :
                 /\ s % Step = 0 /\ s >= w.start /\ s + r.dur <= Min({w.end, Until(r.by)})
                 /\ free(s)

\* What meets someone's time meets a slot that is open, or reserved time.
HitsTaken == \A h : Hit(World, h) => \E o \in OpenSlots \cup Reserved : Overlaps(h, o)

LEMMA AllHitsTaken == HitsTaken
<1> SUFFICES ASSUME NEW h, Hit(World, h) PROVE \E o \in OpenSlots \cup Reserved : Overlaps(h, o)
  BY DEF HitsTaken
<1> DEFINE At(t) == [of |-> t, start |-> task[t].slot.start, end |-> task[t].slot.end]
           Clocks0(t) == { HomeClock(t, i) : i \in { p \in PartsOf(task[t]) : HomeClock(t, p) # None } }
           Waits(t) == [start |-> task[t].clock, end |-> task[t].clock + task[t].dur]
<1>1. \A t \in Tasks : OpenRow(task[t]) => At(t) \in OpenSlots
  BY DEF OpenSlots, OpenRow
<1>2. ASSUME NEW t \in Tasks, OpenRow(task[t]), Overlaps(h, task[t].slot)
      PROVE  \E o \in OpenSlots : Overlaps(h, o)
  BY <1>2, <1>1 DEF Overlaps
<1>3. ASSUME NEW t \in Copies, OpenRow(task[t]), NEW p \in PartsOf(task[t]),
             HomeClock(t, p) # None, Overlaps(h, HomeClock(t, p))
      PROVE  \E o \in Reserved : Overlaps(h, o)
  <2>1. t \in Tasks /\ At(t) \in OpenSlots /\ At(t).of = t
    BY <1>1, <1>3 DEF Tasks
  <2> HIDE DEF At
  <2>2. t \in { o.of : o \in OpenSlots } \cap Copies
    BY <2>1
  <2>3. HomeClock(t, p) \in Clocks0(t)
    BY <1>3
  <2> HIDE DEF Clocks0
  <2>4. HomeClock(t, p) \in UNION { Clocks0(u) : u \in { o.of : o \in OpenSlots } \cap Copies }
    BY <2>2, <2>3
  <2>5. UNION { Clocks0(u) : u \in { o.of : o \in OpenSlots } \cap Copies } \subseteq Reserved
    BY DEF Reserved, Clocks0
  <2> QED
    BY <1>3, <2>4, <2>5
<1>4. ASSUME NEW t \in Tasks, WaitsFixed(task[t]), Overlaps(h, Waits(t))
      PROVE  \E o \in Reserved : Overlaps(h, o)
  BY <1>4 DEF Reserved, WaitsFixed
<1>5. ASSUME NEW s \in Series, NEW d \in held[s], Home(s, d).end > now, Overlaps(h, Home(s, d))
      PROVE  \E o \in OpenSlots : Overlaps(h, o)
  <2> DEFINE o == [of |-> s, start |-> Home(s, d).start, end |-> Home(s, d).end]
  <2>1. o \in OpenSlots
    BY <1>5 DEF OpenSlots
  <2>2. Overlaps(h, o)
    BY <1>5 DEF Overlaps
  <2> QED
    BY <2>1, <2>2
<1> QED
  BY <1>2, <1>3, <1>4, <1>5, WorldIs DEF Hit, Meets

LEMMA StepFills == Inv /\ Clocked(World) /\ [Next]_vars => [Fills]_vars
<1> SUFFICES ASSUME Inv, Clocked(World), Next, did'.op = "fill" PROVE Fills
  BY DEF Fills
<1>1. SeatOpenHoles
  <2>1. \A op, t : UserDoes(op, t) => did'.op = op
    BY DEF UserDoes
  <2>2. ASSUME NEW t PROVE ~(Save(t) \/ PutOnTop(t) \/ LeaveParked(t) \/ Begin(t) \/ Done(t))
    BY <2>1 DEF Save, PutOnTop, LeaveParked, Begin, Done
  <2>3. ASSUME NEW t PROVE ~(Delete(t) \/ Drag(t) \/ Reopen(t))
    BY <2>1 DEF Delete, Drag, Reopen
  <2>4. ASSUME NEW t PROVE ~PlaceSaved(t)
    <3>1. PlaceSaved(t) => did' = [op |-> "place", task |-> t]
      BY DEF PlaceSaved
    <3> QED
      BY <3>1
  <2>5. ~Tick
    BY DEF Tick
  <2> QED
    BY <2>2, <2>3, <2>4, <2>5 DEF Next
<1>2. now' = now /\ now \in Int /\ \A t \in Tasks : ~SeatsItself(task[t]) => task'[t] = task[t]
  BY <1>1, FillLeaves, RowsSound DEF SeatOpenHoles
<1>3. PICK v : /\ v.task = task' /\ v.held = held' /\ CalendarOK(v)
               /\ \A t \in Tasks : NoRoom(v, v.task[t])
  <2>1. PICK order \in RowOrders : Becomes(FilledHoles(World, order))
    BY <1>1 DEF SeatOpenHoles
  <2>2. CalendarOK(World)
    BY RowsSound
  <2> QED
    BY <1>2, <2>1, <2>2, HolesFilled DEF Becomes
<1> SUFFICES ASSUME NEW t \in Tasks, SeatsItself(task'[t]), task'[t].parkedDay = None,
                    NEW w \in HorizonWindows(task'[t].phase), NEW s \in now .. EndOfTime,
                    s % Step = 0, s >= w.start, s + task'[t].dur <= Min({w.end, Until(task'[t].by)})
             PROVE  \E o \in OpenSlots' \cup Reserved' :
                      Overlaps([start |-> s, end |-> s + task'[t].dur], o)
  BY <1>2 DEF Fills, SeatsItself
<1> DEFINE r == task'[t]
           h == [start |-> s, end |-> s + r.dur]
           by == r.by
<1>4. r.dur \in Int /\ r.phase \in Phases \cup {None} /\ by \in Int \cup {None} /\ s \in Int
  BY <1>3 DEF CalendarOK, Shape, RowOK, Row
<1>5. w.end \in Int /\ s + r.dur <= w.end /\ (by # None => s + r.dur <= by)
  <2> DEFINE e == w.end
             u == Until(by)
  <2>1. e \in Int /\ u \in Int
    BY <1>4, HorizonIsReach, Untils DEF WindowsIn, Interval
  <2>2. s + r.dur <= Min({e, u}) /\ (by # None => u = by)
    BY DEF Until
  <2>3. s + r.dur \in Int
    BY <1>4
  <2>4. Min({e, u}) \in Int /\ Min({e, u}) <= e /\ Min({e, u}) <= u
    <3> HIDE DEF e, u
    <3> QED
      BY <2>1, MaxTwo
  <2> DEFINE m == Min({e, u})
             x == s + r.dur
  <2>5. x \in Int /\ m \in Int /\ x <= m /\ m <= e /\ m <= u
    BY <2>2, <2>3, <2>4
  <2> HIDE DEF e, u, m, x
  <2>6. x <= e /\ x <= u
    BY <2>1, <2>5
  <2> QED
    BY <2>1, <2>2, <2>6 DEF e, x
<1>6. Room(h, r)
  <2>1. FitsWindow(h, HorizonWindows(r.phase))
    BY <1>5 DEF FitsWindow
  <2>2. h \in Interval /\ h.start = s /\ h.end = s + r.dur /\ s >= now
    BY <1>2, <1>4 DEF Interval
  <2> HIDE DEF h, r
  <2> QED
    BY <1>5, <2>1, <2>2 DEF Room, InTime
<1>7. NoRoom(v, r) /\ SeatsItself(r) /\ r.parkedDay = None
  BY <1>3
<1>8. Hit(v, h)
  <2> HIDE DEF h, r
  <2> QED
    BY <1>6, <1>7 DEF NoRoom
<1> HIDE DEF h
<1>9. PICK g : g = h
  OBVIOUS
<1>12. Hit(World, g)'
  BY <1>2, <1>3, <1>8, <1>9 DEF World, Hit, Meets, OpenRow, WaitsFixed, PartsOf, IsBegun, SlotIsOpen
<1>10. HitsTaken'
  BY AllHitsTaken, PTL
<1>11. \E o \in OpenSlots' \cup Reserved' : Overlaps(h, o)
  BY <1>9, <1>10, <1>12 DEF HitsTaken
<1> QED
  BY <1>11 DEF h

-----------------------------------------------------------------------------
(* What follows for every reachable calendar. *)

\* Every reachable calendar is sound and nobody is lost in it.
THEOREM CalendarStaysSound == Spec => []Inv
<1>1. Init => Inv
  BY InitInv
<1>2. Inv /\ [Next]_vars => Inv'
  BY StepInv
<1> QED
  BY <1>1, <1>2, PTL DEF Spec

\* A day of a series is held by the series or by its copy, never by both or by
\* neither (detach, tryReMergeSeriesMember).
THEOREM OneHolderPerDay == Spec => []DayHasOneHolder
<1>1. Inv => DayHasOneHolder
  <2> SUFFICES ASSUME Inv, NEW s \in Series, NEW d \in Days
               PROVE  (d \in held[s]) = (task[<<s, d>>].state = "absent")
    BY DEF DayHasOneHolder
  <2>1. Shape(World)
    BY RowsSound
  <2> QED
    BY <2>1, WorldIs DEF Shape
<1> QED
  BY <1>1, CalendarStaysSound, PTL

\* Nobody whose placement ran is left with no slot, no inbox and no question.
THEOREM NobodyIsLost == Spec => []NobodyLost
<1>1. Inv => NobodyLost
  BY DEF Inv
<1> QED
  BY <1>1, CalendarStaysSound, PTL

LEMMA BookedOnce == Inv => NoDoubleBooking
<1> SUFFICES ASSUME Inv PROVE NoDoubleBooking
  OBVIOUS
<1> DEFINE unseen == { t \in back : \/ task[t].kind = "fixed"
                                    \/ task[t].slot # None /\ task[t].slot.start # task[t].clock }
           IsTask(x) == \E t \in Tasks : /\ Open(task[t]) /\ x.of = t
                                         /\ x.start = task[t].slot.start /\ x.end = task[t].slot.end
           IsDay(x) == \E s \in Series, d \in Days :
                         /\ d \in held[s] /\ Home(s, d).end > now /\ x.of = s
                         /\ x.start = Home(s, d).start /\ x.end = Home(s, d).end
<1>1. Apart(World, {}) /\ World.task = task /\ World.held = held /\ held \in [Series -> SUBSET Days]
  BY RowsSound, WorldIs DEF CalendarOK, Shape, Worlds
<1>2. \A x \in OpenSlots : IsTask(x) \/ IsDay(x)
  BY <1>1 DEF OpenSlots, Open
<1>3. \A t \in Tasks : Open(task[t]) /\ t \notin layered \cup unseen => Firm(t, task[t])
  BY DEF Firm, Open, Excused
<1> SUFFICES ASSUME NEW x \in OpenSlots, NEW y \in OpenSlots, x.of # y.of, Overlaps(x, y),
                    x.of \notin layered \cup unseen, y.of \notin layered \cup unseen
             PROVE  FALSE
  BY DEF NoDoubleBooking
<1>4. CASE IsTask(x) /\ IsTask(y)
  BY <1>1, <1>3, <1>4 DEF Apart, Overlaps
<1>5. CASE IsTask(x) /\ IsDay(y)
  BY <1>1, <1>3, <1>5 DEF Apart, Overlaps
<1>6. CASE IsDay(x) /\ IsTask(y)
  BY <1>1, <1>3, <1>6 DEF Apart, Overlaps
<1>7. CASE IsDay(x) /\ IsDay(y)
  <2>1. PICK s \in Series, d \in Days : x.of = s /\ x.start = Home(s, d).start /\ x.end = Home(s, d).end
    BY <1>7
  <2>2. PICK r \in Series, e \in Days : y.of = r /\ y.start = Home(r, e).start /\ y.end = Home(r, e).end
    BY <1>7
  <2>3. ~Overlaps(Home(s, d), Home(r, e))
    BY <2>1, <2>2, AllDays, HomesApart
  <2> QED
    BY <2>1, <2>2, <2>3 DEF Overlaps
<1> QED
  BY <1>2, <1>4, <1>5, <1>6, <1>7

\* However placements, drags, chains and packs follow one another, two open
\* slots share time only if their user or a kept clock put one on the other.
THEOREM NobodyIsDoubleBooked == Spec => []NoDoubleBooking
BY BookedOnce, CalendarStaysSound, PTL

LEMMA ClocksStay == Spec => []Clocked(World)
<1>1. Inv /\ Clocked(World) /\ [Next]_vars => Clocked(World)'
  BY StepComes
<1> QED
  BY <1>1, InitClocked, CalendarStaysSound, PTL DEF Spec

\* A create job that runs again after a crash leaves a task where it was seated
\* or dropped meanwhile: it asks for that very seat, and a plan that nobody on
\* top can turn away refuses it or gives it (placeAndSync, planPlacement).
THEOREM RetriedCreateKeepsSeat == Spec => RetryKeepsSeat
<1>1. Inv /\ Clocked(World) /\ [Next]_vars => [KeepsSeat]_vars
  BY StepKeepsSeat
<1>2. Spec => [][KeepsSeat]_vars
  BY <1>1, ClocksStay, CalendarStaysSound, PTL DEF Spec
<1> QED
  BY <1>2 DEF RetryKeepsSeat, KeepsSeat

\* A placement, a drop, a task that comes back or a pass over the inbox pushes a
\* seated task within its civil day only, to a time that is not over, in its
\* phase and before its deadline, and no fixed task at all (CutToDay, chains,
\* packing and anchors of planPlacement).
THEOREM PushedOnlyOnItsDay == Spec => PushedStaysOnItsDay
<1>1. Inv /\ Clocked(World) /\ [Next]_vars => [Pushes]_vars
  BY StepComes
<1>2. Spec => [][Pushes]_vars
  BY <1>1, ClocksStay, CalendarStaysSound, PTL DEF Spec
<1> QED
  BY <1>2 DEF PushedStaysOnItsDay, Pushes

\* A pass over the inbox leaves no parked task behind that could have had a seat
\* beside everyone, and moves nobody who is seated: what a search keeps free is
\* the open slots and the reserved time of the others, which a pass only adds to
\* (seatOpenHoles, firstHole).
THEOREM InboxIsSeated == Spec => FillingUsesHoles
<1>1. Inv /\ Clocked(World) /\ [Next]_vars => [Fills]_vars
  BY StepFills
<1>2. Spec => [][Fills]_vars
  BY <1>1, ClocksStay, CalendarStaysSound, PTL DEF Spec
<1> QED
  BY <1>2 DEF FillingUsesHoles, Fills
================================================================================
