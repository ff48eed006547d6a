-------------------------- MODULE RemindersProofs ---------------------------
(***************************************************************************)
(* Proofs about Reminders, for any instances, blocks, browsers, seats and   *)
(* bounds: no answered reminder is sent again, none is kept back by a row   *)
(* nobody earned, and nobody is missed.                                    *)
(***************************************************************************)
EXTENDS Reminders, TLAPS

-----------------------------------------------------------------------------
(* Types.                                                                  *)

LEMMA Numbers ==
  /\ Ttl \in Nat /\ MaxTick \in Nat /\ MaxMishaps \in Nat
  /\ Lookahead \in Nat \ {0} /\ MaxTime \in Nat \ {0}
  /\ Lookahead + MaxTick <= Ttl + 1 /\ MaxTick <= Ttl
  /\ Seats \subseteq Times /\ Nowhere \notin Nat /\ Nowhere \notin Seats
<1>1. Ttl \in Nat /\ MaxTick \in Nat /\ MaxMishaps \in Nat
  BY TimesAssumption
<1>2. Lookahead \in Nat \ {0} /\ MaxTime \in Nat \ {0}
  BY TimesAssumption
<1>3. Lookahead + MaxTick <= Ttl + 1 /\ MaxTick <= Ttl
  BY <1>1, <1>2, TimesAssumption
<1>4. Seats \subseteq Times /\ Nowhere \notin Nat /\ Nowhere \notin Seats
  <2>1. Times \subseteq Nat
    BY <1>2 DEF Times
  <2> QED
    BY <2>1, TimesAssumption DEF Times
<1> QED
  BY <1>1, <1>2, <1>3, <1>4

LEMMA IdleIsTick == \A t \in Times : [Idle EXCEPT !.at = t] \in Ticks
<1>1. [b \in Blocks |-> Nowhere] \in [Blocks -> Starts]
  BY DEF Starts
<1> QED
  BY <1>1 DEF Idle, Ticks

LEMMA DueTyped ==
  ASSUME NEW events \in [Blocks -> Starts], NEW tasks \in [Blocks -> Starts], NEW at \in Times
  PROVE  \A k \in Due(events, tasks, at) : k \in Keys /\ at < k.start /\ k.start <= at + Lookahead
<1> SUFFICES ASSUME NEW k \in Due(events, tasks, at)
             PROVE  k \in Keys /\ at < k.start /\ k.start <= at + Lookahead
  OBVIOUS
<1>1. PICK kind \in {"event", "task"}, b \in Blocks, s \in Starts :
        k = Key(kind, b, s) /\ Imminent(s, at)
  BY DEF Due
<1>2. s \in Seats /\ at < s /\ s <= at + Lookahead
  BY <1>1, Numbers DEF Imminent, Starts, Times
<1>3. k \in Keys /\ k.start = s
  BY <1>1, <1>2 DEF Key, Keys
<1> QED
  BY <1>2, <1>3

LEMMA TickUpdates ==
  \A x \in Ticks :
    /\ \A tasks \in [Blocks -> Starts], known \in SUBSET Keys :
         [x EXCEPT !.pc = "read", !.tasks = tasks, !.known = known] \in Ticks
    /\ \A due \in SUBSET Keys :
         [x EXCEPT !.pc = "claiming", !.tasks = Idle.tasks, !.known = {}, !.due = due] \in Ticks
    /\ \A due \in SUBSET Keys, k \in Keys, left \in SUBSET Browsers :
         [x EXCEPT !.pc = "pushing", !.due = due, !.holds = {k}, !.left = left, !.ok = FALSE]
            \in Ticks
    /\ \A due \in SUBSET Keys : [x EXCEPT !.due = due] \in Ticks
    /\ \A left \in SUBSET Browsers : [x EXCEPT !.left = left, !.ok = TRUE] \in Ticks
    /\ \A left \in SUBSET Browsers : [x EXCEPT !.left = left] \in Ticks
    /\ [x EXCEPT !.pc = "claiming", !.holds = {}, !.ok = FALSE] \in Ticks
<1> SUFFICES ASSUME NEW x \in Ticks
      PROVE
    /\ \A tasks \in [Blocks -> Starts], known \in SUBSET Keys :
         [x EXCEPT !.pc = "read", !.tasks = tasks, !.known = known] \in Ticks
    /\ \A due \in SUBSET Keys :
         [x EXCEPT !.pc = "claiming", !.tasks = Idle.tasks, !.known = {}, !.due = due] \in Ticks
    /\ \A due \in SUBSET Keys, k \in Keys, left \in SUBSET Browsers :
         [x EXCEPT !.pc = "pushing", !.due = due, !.holds = {k}, !.left = left, !.ok = FALSE]
            \in Ticks
    /\ \A due \in SUBSET Keys : [x EXCEPT !.due = due] \in Ticks
    /\ \A left \in SUBSET Browsers : [x EXCEPT !.left = left, !.ok = TRUE] \in Ticks
    /\ \A left \in SUBSET Browsers : [x EXCEPT !.left = left] \in Ticks
    /\ [x EXCEPT !.pc = "claiming", !.holds = {}, !.ok = FALSE] \in Ticks
  OBVIOUS
<1>1. \A tasks \in [Blocks -> Starts], known \in SUBSET Keys :
        [x EXCEPT !.pc = "read", !.tasks = tasks, !.known = known] \in Ticks
  BY DEF Ticks
<1>2. \A due \in SUBSET Keys :
        [x EXCEPT !.pc = "claiming", !.tasks = Idle.tasks, !.known = {}, !.due = due] \in Ticks
  <2>1. Idle.tasks \in [Blocks -> Starts]
    BY DEF Idle, Starts
  <2> QED
    BY <2>1 DEF Ticks
<1>3. \A due \in SUBSET Keys, k \in Keys, left \in SUBSET Browsers :
        [x EXCEPT !.pc = "pushing", !.due = due, !.holds = {k}, !.left = left, !.ok = FALSE]
           \in Ticks
  BY DEF Ticks
<1>4. \A due \in SUBSET Keys : [x EXCEPT !.due = due] \in Ticks
  BY DEF Ticks
<1>5. \A left \in SUBSET Browsers : [x EXCEPT !.left = left, !.ok = TRUE] \in Ticks
  BY DEF Ticks
<1>6. \A left \in SUBSET Browsers : [x EXCEPT !.left = left] \in Ticks
  BY DEF Ticks
<1>7. [x EXCEPT !.pc = "claiming", !.holds = {}, !.ok = FALSE] \in Ticks
  BY DEF Ticks
<1> QED
  BY <1>1, <1>2, <1>3, <1>4, <1>5, <1>6, <1>7

LEMMA TicksTyped ==
  ASSUME TypeOK, NEW i \in Instances
  PROVE  /\ tick[i] \in Ticks /\ tick[i].at \in Times
         /\ tick[i].due \subseteq Keys /\ tick[i].holds \subseteq Keys
         /\ tick[i].left \subseteq Browsers /\ tick[i].to \subseteq Browsers
         /\ tick[i].tasks \in [Blocks -> Starts] /\ tick[i].ok \in BOOLEAN
         /\ Over(i) \in Ticks
<1>1. tick[i] \in Ticks
  BY DEF TypeOK
<1>2. tick[i].at \in Times /\ tick[i].ok \in BOOLEAN
  BY <1>1 DEF Ticks
<1>3. tick[i].due \subseteq Keys /\ tick[i].holds \subseteq Keys
  BY <1>1 DEF Ticks
<1>4. tick[i].left \subseteq Browsers /\ tick[i].to \subseteq Browsers /\ tick[i].tasks \in [Blocks -> Starts]
  BY <1>1 DEF Ticks
<1>5. Over(i) \in Ticks
  BY <1>2, IdleIsTick DEF Over
<1> QED
  BY <1>1, <1>2, <1>3, <1>4, <1>5

LEMMA InitTypeOK == Init => TypeOK
<1> SUFFICES ASSUME Init PROVE TypeOK
  OBVIOUS
<1>1. 0 \in Times /\ 1 \in Times
  BY Numbers DEF Times
<1>2. Idle \in Ticks
  <2>1. [b \in Blocks |-> Nowhere] \in [Blocks -> Starts]
    BY DEF Starts
  <2> QED
    BY <1>1, <2>1 DEF Idle, Ticks
<1>3. event \in [Blocks -> Starts]
  BY DEF Init, Starts
<1> QED
  BY <1>1, <1>2, <1>3, Numbers DEF Init, TypeOK

\* The actions of a tick that leave the world alone.
LEMMA TickStepTypeOK ==
  ASSUME TypeOK, NEW i \in Instances,
         \/ Begin(i) \/ Read(i) \/ Choose(i) \/ Settle(i) \/ End(i)
         \/ \E k \in tick[i].due : Claim(i, k)
         \/ \E s \in Browsers : Push(i, s)
  PROVE  TypeOK'
<1> USE TicksTyped
<1>1. /\ now' = now /\ start' = start /\ event' = event /\ browsers' = browsers
      /\ silenced' = silenced /\ spent' = spent
  BY DEF Begin, Read, Choose, Settle, End, Claim, Push, world
<1>2. steady' \subseteq Blocks
  BY DEF TypeOK, Begin, Read, Choose, Settle, End, Claim, Push
<1>3. accepted' \subseteq Browsers \X Keys
  <2>1. ASSUME NEW s \in Browsers, Push(i, s) PROVE accepted' \subseteq Browsers \X Keys
    <3>1. tick[i].holds \subseteq Keys /\ accepted \subseteq Browsers \X Keys
      BY DEF TypeOK
    <3>2. accepted' = accepted \cup {<<s, k>> : k \in tick[i].holds}
      BY <2>1 DEF Push
    <3> QED
      BY <3>1, <3>2
  <2> QED
    BY <2>1 DEF TypeOK, Begin, Read, Choose, Settle, End, Claim
<1>4. deliveries' \subseteq Rows
  <2>1. ASSUME NEW k \in tick[i].due, Claim(i, k) PROVE deliveries' \subseteq Rows
    <3>1. [key |-> k, at |-> now] \in Rows
      BY DEF TypeOK, Rows
    <3> QED
      BY <2>1, <3>1 DEF TypeOK, Claim
  <2> QED
    BY <2>1 DEF TypeOK, Begin, Read, Choose, Settle, End, Push
<1>5. tick' \in [Instances -> Ticks]
  <2>0. tick \in [Instances -> Ticks] /\ now \in Times /\ browsers \in SUBSET Browsers
    BY DEF TypeOK
  <2>1. CASE Begin(i)
    <3>1. [Idle EXCEPT !.at = now] \in Ticks
      BY <2>0, IdleIsTick
    <3>2. [Idle EXCEPT !.pc = "begun", !.at = now, !.to = browsers] \in Ticks
      <4>1. [b \in Blocks |-> Nowhere] \in [Blocks -> Starts]
        BY DEF Starts
      <4> QED
        BY <2>0, <4>1 DEF Idle, Ticks
    <3> QED
      BY <2>0, <2>1, <3>1, <3>2 DEF Begin
  <2>2. CASE Read(i)
    <3> DEFINE known == KeysOf({r \in deliveries : r.at + Ttl > tick[i].at})
    <3>1. known \in SUBSET Keys
      BY DEF TypeOK, KeysOf, Rows
    <3>2. [tick[i] EXCEPT !.pc = "read", !.tasks = start, !.known = known] \in Ticks
      BY <3>1, TickUpdates DEF TypeOK
    <3> QED
      BY <2>0, <2>2, <3>2 DEF Read
  <2>3. CASE Choose(i)
    <3>1. PICK events \in {event, [b \in Blocks |-> Nowhere]} :
            tick' = [tick EXCEPT ![i] = [@ EXCEPT !.pc = "claiming",
                       !.tasks = Idle.tasks, !.known = {},
                       !.due = Due(events, tick[i].tasks, tick[i].at) \ tick[i].known]]
      BY <2>3 DEF Choose
    <3> DEFINE due == Due(events, tick[i].tasks, tick[i].at) \ tick[i].known
    <3>2. events \in [Blocks -> Starts]
      BY DEF TypeOK, Starts
    <3>3. due \in SUBSET Keys
      BY <3>2, DueTyped
    <3>4. [tick[i] EXCEPT !.pc = "claiming", !.tasks = Idle.tasks, !.known = {}, !.due = due] \in Ticks
      BY <3>3, TickUpdates
    <3> QED
      BY <2>0, <3>1, <3>4
  <2>4. CASE Settle(i)
    BY <2>0, <2>4, TickUpdates DEF Settle
  <2>5. CASE End(i)
    BY <2>0, <2>5 DEF End
  <2>6. ASSUME NEW k \in tick[i].due, Claim(i, k) PROVE tick' \in [Instances -> Ticks]
    <3>1. tick[i].due \ {k} \in SUBSET Keys /\ k \in Keys
      OBVIOUS
    <3>2. [tick[i] EXCEPT !.due = tick[i].due \ {k}] \in Ticks
      BY <3>1, TickUpdates
    <3>3. [tick[i] EXCEPT !.pc = "pushing", !.due = tick[i].due \ {k}, !.holds = {k},
                          !.left = tick[i].to, !.ok = FALSE] \in Ticks
      BY <3>1, TickUpdates
    <3> QED
      BY <2>0, <2>6, <3>2, <3>3 DEF Claim
  <2>7. ASSUME NEW s \in Browsers, Push(i, s) PROVE tick' \in [Instances -> Ticks]
    <3>1. [tick[i] EXCEPT !.left = tick[i].left \ {s}, !.ok = TRUE] \in Ticks
      BY TickUpdates
    <3> QED
      BY <2>0, <2>7, <3>1 DEF Push
  <2> QED
    BY <2>1, <2>2, <2>3, <2>4, <2>5, <2>6, <2>7
<1> QED
  BY <1>1, <1>2, <1>3, <1>4, <1>5 DEF TypeOK

\* The mishaps, and the world around the ticks.
LEMMA MishapTypeOK ==
  ASSUME TypeOK,
         \/ \E i \in Instances : Break(i) \/ \E s \in Browsers : Refuse(i, s) \/ Gone(i, s)
         \/ \E b \in Blocks, s \in Starts : Move(b, s)
         \/ \E b \in Blocks : CatchUp(b)
         \/ \E rows \in SUBSET Browsers : Change(rows)
         \/ Pass
  PROVE  TypeOK'
<1> USE TicksTyped
<1>1. ASSUME NEW i \in Instances, Break(i) PROVE TypeOK'
  <2>1. spent' \in 0..MaxMishaps
    BY <1>1, Numbers DEF Break, TypeOK
  <2>2. tick' \in [Instances -> Ticks] /\ silenced' \subseteq Keys
    BY <1>1 DEF Break, TypeOK
  <2> QED
    BY <1>1, <2>1, <2>2 DEF Break, TypeOK, world
<1>2. ASSUME NEW i \in Instances, NEW s \in Browsers, Refuse(i, s) \/ Gone(i, s) PROVE TypeOK'
  <2>1. spent' \in 0..MaxMishaps
    BY <1>2, Numbers DEF Refuse, Gone, TypeOK
  <2>2. [tick[i] EXCEPT !.left = tick[i].left \ {s}] \in Ticks
    BY TickUpdates
  <2>3. tick' \in [Instances -> Ticks]
    BY <1>2, <2>2 DEF Refuse, Gone, TypeOK
  <2> QED
    BY <1>2, <2>1, <2>3 DEF Refuse, Gone, TypeOK, world
<1>3. ASSUME NEW b \in Blocks, NEW s \in Starts, Move(b, s) PROVE TypeOK'
  <2>1. spent' \in 0..MaxMishaps
    BY <1>3, Numbers DEF Move, TypeOK
  <2> QED
    BY <1>3, <2>1 DEF Move, TypeOK
<1>4. ASSUME NEW b \in Blocks, CatchUp(b) PROVE TypeOK'
  BY <1>4 DEF CatchUp, TypeOK
<1>5. ASSUME NEW rows \in SUBSET Browsers, Change(rows) PROVE TypeOK'
  <2>1. spent' \in 0..MaxMishaps
    BY <1>5, Numbers DEF Change, TypeOK
  <2> QED
    BY <1>5, <2>1 DEF Change, TypeOK
<1>6. CASE Pass
  <2>1. now' \in Times
    BY <1>6, Numbers DEF Pass, TypeOK, Times
  <2> QED
    BY <1>6, <2>1 DEF Pass, TypeOK, world
<1> QED
  BY <1>1, <1>2, <1>3, <1>4, <1>5, <1>6

LEMMA NextTypeOK == TypeOK /\ [Next]_vars => TypeOK'
<1> SUFFICES ASSUME TypeOK, [Next]_vars PROVE TypeOK'
  OBVIOUS
<1>1. CASE UNCHANGED vars
  BY <1>1 DEF vars, TypeOK
<1>2. CASE Next
  BY <1>2, TickStepTypeOK, MishapTypeOK DEF Next, Step
<1> QED
  BY <1>1, <1>2

\* Every variable of the reminders keeps its type, whatever the bounds.
THEOREM SpecTypeOK == Spec => []TypeOK
<1> QED
  BY InitTypeOK, NextTypeOK, PTL DEF Spec

-----------------------------------------------------------------------------
(* The inductive invariant.                                                *)

\* A tick works for MaxTick at most.
ClockInv ==
    \A i \in Instances :
        /\ tick[i].at <= now
        /\ tick[i].pc # "idle" => now <= tick[i].at + MaxTick

\* What a tick will claim starts after the tick began, and soon.
DueInv ==
    \A i \in Instances : \A k \in tick[i].due :
        tick[i].pc # "idle" /\ tick[i].at < k.start /\ k.start <= tick[i].at + Lookahead

\* What a tick is sending has a row, not older than the tick; no two ticks send
\* the same.
HoldsInv ==
    \A i \in Instances :
        /\ tick[i].pc # "pushing" => tick[i].holds = {}
        /\ \A k \in tick[i].holds : \E r \in deliveries : r.key = k /\ tick[i].at <= r.at
        /\ \A j \in Instances \ {i} : tick[i].holds \cap tick[j].holds = {}

\* A row was written within the window of its block.
RowsInv == \A r \in deliveries : r.key.start <= r.at + Lookahead

\* Without its row, a reminder that was taken is for a block that had started
\* when the ticks at work began: none of them can claim it.
DoneInv ==
    \A k \in Keys :
        Taken(k) /\ k \notin KeysOf(deliveries)
            => k.start <= now /\ \A i \in Instances : tick[i].pc # "idle" => k.start <= tick[i].at

\* What a tick knows of the pushes it made.
OkInv ==
    \A i \in Instances : \A k \in tick[i].holds :
        /\ tick[i].ok <=> Taken(k)
        /\ \A s \in tick[i].left : <<s, k>> \notin accepted

IInv == TypeOK /\ ClockInv /\ DueInv /\ HoldsInv /\ RowsInv /\ DoneInv /\ OkInv /\ RowsAreEarned

LEMMA InitIInv == Init => IInv
<1> SUFFICES ASSUME Init PROVE IInv
  OBVIOUS
<1>1. TypeOK
  BY InitTypeOK
<1>2. \A i \in Instances : tick[i] = Idle
  BY DEF Init
<1>3. \A i \in Instances : /\ tick[i].pc = "idle" /\ tick[i].at = 0
                           /\ tick[i].due = {} /\ tick[i].holds = {}
  BY <1>2 DEF Idle
<1>4. now = 1 /\ deliveries = {} /\ accepted = {}
  BY DEF Init
<1>5. ClockInv /\ DueInv
  BY <1>3, <1>4 DEF ClockInv, DueInv
<1>6. HoldsInv /\ RowsInv /\ OkInv
  BY <1>3, <1>4 DEF HoldsInv, RowsInv, OkInv
<1>7. DoneInv /\ RowsAreEarned
  BY <1>4 DEF DoneInv, RowsAreEarned, Taken, KeysOf
<1> QED
  BY <1>1, <1>5, <1>6, <1>7 DEF IInv

-----------------------------------------------------------------------------
(* The steps.                                                              *)

\* The steps that touch neither the rows nor what is being sent.
LEMMA QuietStep ==
  ASSUME IInv, TypeOK', NEW i \in Instances,
         deliveries' = deliveries, accepted' = accepted, silenced' = silenced, now' = now,
         \A j \in Instances \ {i} : tick'[j] = tick[j],
         tick'[i].at = tick[i].at, tick'[i].holds = tick[i].holds,
         tick'[i].left \subseteq tick[i].left, tick'[i].holds # {} => tick'[i].ok = tick[i].ok,
         tick'[i].pc # "idle" => tick[i].pc # "idle",
         tick'[i].pc # "pushing" => tick[i].holds = {},
         \A k \in tick'[i].due :
             tick'[i].pc # "idle" /\ tick[i].at < k.start /\ k.start <= tick[i].at + Lookahead
  PROVE  IInv'
<1>1. ClockInv'
  BY DEF IInv, ClockInv
<1>2. DueInv'
  BY DEF IInv, DueInv
<1>3. HoldsInv'
  BY DEF IInv, HoldsInv
<1>4. RowsInv'
  BY DEF IInv, RowsInv
<1>5. \A k \in Keys : Taken(k)' <=> Taken(k)
  BY DEF Taken
<1>6. KeysOf(deliveries)' = KeysOf(deliveries) /\ KeysOf(deliveries) \subseteq Keys
  BY DEF IInv, TypeOK, KeysOf, Rows
<1>7. DoneInv'
  <2> SUFFICES ASSUME NEW k \in Keys, Taken(k)', (k \notin KeysOf(deliveries))'
               PROVE  k.start <= now' /\ \A j \in Instances : tick'[j].pc # "idle" => k.start <= tick'[j].at
    BY DEF DoneInv
  <2>1. k.start <= now /\ \A j \in Instances : tick[j].pc # "idle" => k.start <= tick[j].at
    BY <1>5, <1>6 DEF IInv, DoneInv
  <2> QED
    BY <2>1
<1>8. OkInv'
  <2> SUFFICES ASSUME NEW j \in Instances, NEW k \in tick'[j].holds
               PROVE  (tick'[j].ok <=> Taken(k)') /\ \A s \in tick'[j].left : <<s, k>> \notin accepted'
    BY DEF OkInv
  <2>1. k \in tick[j].holds /\ tick'[j].ok = tick[j].ok /\ tick'[j].left \subseteq tick[j].left
    OBVIOUS
  <2>2. (tick[j].ok <=> Taken(k)) /\ \A s \in tick[j].left : <<s, k>> \notin accepted
    BY <2>1 DEF IInv, OkInv
  <2> QED
    BY <2>1, <2>2 DEF Taken
<1>9. RowsAreEarned'
  <2>1. \A j \in Instances : tick'[j].holds = tick[j].holds
    OBVIOUS
  <2>2. \A k \in Keys : Held(k)' <=> Held(k)
    BY <2>1 DEF Held
  <2> QED
    BY <1>5, <1>6, <2>2 DEF IInv, RowsAreEarned
<1> QED
  BY <1>1, <1>2, <1>3, <1>4, <1>7, <1>8, <1>9 DEF IInv

\* A tick begins: the rows it clears are of blocks that started before any tick
\* at work began, and none of them is being sent.
LEMMA BeginStep == ASSUME IInv, TypeOK', NEW i \in Instances, Begin(i) PROVE IInv'
<1>0. TypeOK /\ ClockInv /\ DueInv /\ HoldsInv /\ RowsInv /\ DoneInv /\ OkInv /\ RowsAreEarned
  BY DEF IInv
<1>1. /\ now' = now /\ accepted' = accepted /\ silenced' = silenced
      /\ deliveries' = deliveries \ Expired(deliveries, now)
      /\ tick[i].pc = "idle"
  BY DEF Begin
<1>2. /\ tick'[i].at = now /\ tick'[i].due = {} /\ tick'[i].holds = {}
      /\ tick'[i].pc # "pushing"
      /\ \A j \in Instances \ {i} : tick'[j] = tick[j]
  BY <1>0 DEF Begin, TypeOK, Idle
<1>3. tick[i].holds = {}
  BY <1>0, <1>1 DEF HoldsInv
<1>4. now \in Nat /\ \A j \in Instances : tick[j].at \in Nat
  BY <1>0, TicksTyped, Numbers DEF TypeOK, Times
<1>5. \A r \in deliveries : r.at \in Nat /\ r.key \in Keys /\ r.key.start \in Nat
  <2>1. \A r \in deliveries : r.at \in Times /\ r.key \in Keys
    BY <1>0 DEF TypeOK, Rows
  <2>2. \A k \in Keys : k.start \in Times
    BY Numbers DEF Keys
  <2>3. Times \subseteq Nat
    BY Numbers DEF Times
  <2> QED
    BY <2>1, <2>2, <2>3
<1>6. ClockInv'
  BY <1>0, <1>1, <1>2, <1>4, Numbers DEF ClockInv
<1>7. DueInv'
  BY <1>0, <1>1, <1>2 DEF DueInv
<1>8. HoldsInv'
  <2>1. \A j \in Instances : \A k \in tick'[j].holds :
           k \in tick[j].holds /\ tick'[j] = tick[j] /\ tick[j].pc = "pushing"
    BY <1>0, <1>2 DEF HoldsInv
  <2>2. ASSUME NEW j \in Instances, NEW k \in tick'[j].holds
        PROVE  \E r \in deliveries' : r.key = k /\ tick'[j].at <= r.at
    <3>1. PICK r \in deliveries : r.key = k /\ tick[j].at <= r.at
      BY <1>0, <2>1, <2>2 DEF HoldsInv
    <3>2. now <= tick[j].at + MaxTick
      BY <1>0, <2>1, <2>2 DEF ClockInv
    <3>3. ~(r.at + Ttl < now)
      BY <1>4, <1>5, <3>1, <3>2, Numbers
    <3>4. r \in deliveries'
      BY <1>1, <3>3 DEF Expired
    <3> QED
      BY <2>1, <3>1, <3>4
  <2>3. \A j \in Instances : tick'[j].holds = tick[j].holds
    BY <1>2, <1>3
  <2>4. \A j \in Instances : tick'[j].pc # "pushing" => tick'[j].holds = {}
    BY <1>0, <1>2 DEF HoldsInv
  <2>5. \A j \in Instances : \A l \in Instances \ {j} : tick'[j].holds \cap tick'[l].holds = {}
    BY <1>0, <2>3 DEF HoldsInv
  <2> QED
    BY <2>2, <2>4, <2>5 DEF HoldsInv
<1>9. RowsInv'
  BY <1>0, <1>1 DEF RowsInv
<1>10. \A k \in Keys : Taken(k)' <=> Taken(k)
  BY <1>1 DEF Taken
<1>11. DoneInv'
  <2> SUFFICES ASSUME NEW k \in Keys, Taken(k)', (k \notin KeysOf(deliveries))'
               PROVE  k.start <= now' /\ \A j \in Instances : tick'[j].pc # "idle" => k.start <= tick'[j].at
    BY DEF DoneInv
  <2>1. CASE k \notin KeysOf(deliveries)
    BY <1>0, <1>1, <1>2, <1>10, <2>1 DEF DoneInv
  <2>2. CASE k \in KeysOf(deliveries)
    <3>1. PICK r \in deliveries : r.key = k
      BY <2>2 DEF KeysOf
    <3>2. r \in Expired(deliveries, now)
      BY <1>1, <3>1 DEF KeysOf
    <3>3. r.at + Ttl < now /\ k.start <= r.at + Lookahead
      BY <1>0, <3>1, <3>2 DEF Expired, RowsInv
    <3>4. k.start + MaxTick <= now
      BY <1>4, <1>5, <3>1, <3>3, Numbers
    <3>5. k.start <= now
      BY <1>4, <1>5, <3>1, <3>4, Numbers
    <3>6. ASSUME NEW j \in Instances, tick'[j].pc # "idle" PROVE k.start <= tick'[j].at
      <4>1. CASE j = i
        BY <1>2, <3>5, <4>1
      <4>2. CASE j # i
        <5>1. now <= tick[j].at + MaxTick
          BY <1>0, <1>2, <3>6, <4>2 DEF ClockInv
        <5> QED
          BY <1>2, <1>4, <1>5, <3>1, <3>4, <4>2, <5>1, Numbers
      <4> QED
        BY <4>1, <4>2
    <3> QED
      BY <1>1, <3>5, <3>6
  <2> QED
    BY <2>1, <2>2
<1>12. OkInv'
  <2> SUFFICES ASSUME NEW j \in Instances, NEW k \in tick'[j].holds
               PROVE  (tick'[j].ok <=> Taken(k)') /\ \A s \in tick'[j].left : <<s, k>> \notin accepted'
    BY DEF OkInv
  <2>1. k \in tick[j].holds /\ tick'[j] = tick[j]
    BY <1>2
  <2> QED
    BY <1>0, <1>1, <2>1 DEF OkInv, Taken
<1>13. RowsAreEarned'
  <2>1. \A j \in Instances : tick'[j].holds = tick[j].holds
    BY <1>2, <1>3
  <2>2. \A k : Held(k)' <=> Held(k)
    BY <2>1 DEF Held
  <2>3. KeysOf(deliveries)' \subseteq KeysOf(deliveries) /\ KeysOf(deliveries) \subseteq Keys
    BY <1>1, <1>5 DEF KeysOf
  <2> QED
    BY <1>0, <1>1, <1>10, <2>2, <2>3 DEF RowsAreEarned
<1> QED
  BY <1>6, <1>7, <1>8, <1>9, <1>11, <1>12, <1>13 DEF IInv


\* A claim whose row is new: a reminder that was taken before is not claimed.
LEMMA ClaimStep ==
  ASSUME IInv, TypeOK', NEW i \in Instances, NEW k \in tick[i].due, Claim(i, k), Claimable(k)
  PROVE  IInv'
<1>0. TypeOK /\ ClockInv /\ DueInv /\ HoldsInv /\ RowsInv /\ DoneInv /\ OkInv /\ RowsAreEarned
  BY DEF IInv
<1>1. /\ now' = now /\ accepted' = accepted /\ silenced' = silenced
      /\ deliveries' = deliveries \cup {[key |-> k, at |-> now]}
      /\ tick[i].pc = "claiming" /\ k \notin KeysOf(deliveries)
  BY DEF Claim, Claimable
<1>2. /\ tick'[i].at = tick[i].at /\ tick'[i].due = tick[i].due \ {k} /\ tick'[i].holds = {k}
      /\ tick'[i].pc = "pushing" /\ tick'[i].left = tick[i].to /\ tick'[i].ok = FALSE
      /\ \A j \in Instances \ {i} : tick'[j] = tick[j]
  <2>1. tick' = [tick EXCEPT ![i] = [@ EXCEPT !.pc = "pushing", !.due = tick[i].due \ {k},
                                           !.holds = {k}, !.left = tick[i].to, !.ok = FALSE]]
    BY <1>1 DEF Claim
  <2>2. tick[i] \in Ticks /\ tick \in [Instances -> Ticks]
    BY <1>0 DEF TypeOK
  <2>3. tick'[i] = [tick[i] EXCEPT !.pc = "pushing", !.due = tick[i].due \ {k},
                                   !.holds = {k}, !.left = tick[i].to, !.ok = FALSE]
    BY <2>1, <2>2
  <2>4. \A j \in Instances \ {i} : tick'[j] = tick[j]
    BY <2>1, <2>2
  <2> QED
    BY <2>2, <2>3, <2>4 DEF Ticks
<1>3. k \in Keys /\ k.start \in Nat /\ now \in Nat /\ tick[i].at \in Nat
  <2>1. k \in Keys /\ tick[i].at \in Times /\ now \in Times
    BY <1>0, TicksTyped DEF TypeOK
  <2>2. k.start \in Times
    BY <2>1, Numbers DEF Keys
  <2> QED
    BY <2>1, <2>2, Numbers DEF Times
<1>4. tick[i].at < k.start /\ k.start <= tick[i].at + Lookahead /\ tick[i].at <= now
  BY <1>0 DEF DueInv, ClockInv
<1>5. \A j \in Instances : k \notin tick[j].holds
  <2>1. ASSUME NEW j \in Instances, k \in tick[j].holds PROVE FALSE
    <3>1. PICK r \in deliveries : r.key = k
      BY <1>0, <2>1 DEF HoldsInv
    <3> QED
      BY <1>1, <3>1 DEF KeysOf
  <2> QED
    BY <2>1
<1>6. ~Taken(k)
  <2>1. Taken(k) => k.start <= tick[i].at
    BY <1>0, <1>1, <1>3 DEF DoneInv
  <2> QED
    BY <1>3, <1>4, <2>1
<1>7. ClockInv'
  BY <1>0, <1>1, <1>2 DEF ClockInv
<1>8. DueInv'
  BY <1>0, <1>1, <1>2 DEF DueInv
<1>9. HoldsInv'
  <2>1. ASSUME NEW j \in Instances, NEW q \in tick'[j].holds
        PROVE  \E r \in deliveries' : r.key = q /\ tick'[j].at <= r.at
    <3>1. CASE j = i
      <4>1. q = k /\ tick'[j].at <= now
        BY <1>2, <1>4, <2>1, <3>1
      <4> DEFINE r == [key |-> k, at |-> now]
      <4>2. r \in deliveries' /\ r.key = q /\ tick'[j].at <= r.at
        BY <1>1, <4>1
      <4> QED
        BY <4>2
    <3>2. CASE j # i
      BY <1>0, <1>1, <1>2, <2>1, <3>2 DEF HoldsInv
    <3> QED
      BY <3>1, <3>2
  <2>2. \A j \in Instances : tick'[j].pc # "pushing" => tick'[j].holds = {}
    BY <1>0, <1>2 DEF HoldsInv
  <2>3. \A j \in Instances : \A l \in Instances \ {j} : tick'[j].holds \cap tick'[l].holds = {}
    BY <1>0, <1>2, <1>5 DEF HoldsInv
  <2> QED
    BY <2>1, <2>2, <2>3 DEF HoldsInv
<1>10. RowsInv'
  <2>1. k.start <= now + Lookahead
    BY <1>3, <1>4, Numbers
  <2> QED
    BY <1>0, <1>1, <2>1 DEF RowsInv
<1>11. \A q : Taken(q)' <=> Taken(q)
  BY <1>1 DEF Taken
<1>12. KeysOf(deliveries)' = KeysOf(deliveries) \cup {k}
  <2> DEFINE new == [key |-> k, at |-> now]
  <2>1. new.key = k /\ deliveries' = deliveries \cup {new}
    BY <1>1
  <2> HIDE DEF new
  <2> QED
    BY <2>1 DEF KeysOf
<1>13. DoneInv'
  <2> SUFFICES ASSUME NEW q \in Keys, Taken(q)', (q \notin KeysOf(deliveries))'
               PROVE  q.start <= now' /\ \A j \in Instances : tick'[j].pc # "idle" => q.start <= tick'[j].at
    BY DEF DoneInv
  <2>1. q.start <= now /\ \A j \in Instances : tick[j].pc # "idle" => q.start <= tick[j].at
    BY <1>0, <1>11, <1>12 DEF DoneInv
  <2> QED
    BY <1>1, <1>2, <2>1
<1>14. OkInv'
  <2> SUFFICES ASSUME NEW j \in Instances, NEW q \in tick'[j].holds
               PROVE  (tick'[j].ok <=> Taken(q)') /\ \A s \in tick'[j].left : <<s, q>> \notin accepted'
    BY DEF OkInv
  <2>1. CASE j = i
    <3>1. q = k /\ tick'[j].left \subseteq Browsers
      BY <1>0, <1>2, <2>1, TicksTyped
    <3> QED
      BY <1>1, <1>2, <1>6, <1>11, <2>1, <3>1 DEF Taken
  <2>2. CASE j # i
    BY <1>0, <1>1, <1>2, <1>11, <2>2 DEF OkInv
  <2> QED
    BY <2>1, <2>2
<1>15. RowsAreEarned'
  <2>1. Held(k)'
    BY <1>2 DEF Held
  <2>2. \A q : Held(q) => Held(q)'
    <3>1. tick[i].holds = {}
      BY <1>0, <1>1 DEF HoldsInv
    <3> QED
      BY <1>2, <3>1 DEF Held
  <2> QED
    BY <1>0, <1>1, <1>11, <1>12, <2>1, <2>2 DEF RowsAreEarned
<1> QED
  BY <1>7, <1>8, <1>9, <1>10, <1>13, <1>14, <1>15 DEF IInv

\* A push that was taken.
LEMMA PushStep ==
  ASSUME IInv, TypeOK', NEW i \in Instances, NEW s \in Browsers, Push(i, s) PROVE IInv'
<1>0. TypeOK /\ ClockInv /\ DueInv /\ HoldsInv /\ RowsInv /\ DoneInv /\ OkInv /\ RowsAreEarned
  BY DEF IInv
<1>1. /\ now' = now /\ deliveries' = deliveries /\ silenced' = silenced
      /\ accepted' = accepted \cup {<<s, k>> : k \in tick[i].holds}
      /\ tick[i].pc = "pushing"
  BY DEF Push
<1>2. /\ tick'[i].at = tick[i].at /\ tick'[i].due = tick[i].due /\ tick'[i].holds = tick[i].holds
      /\ tick'[i].pc = tick[i].pc /\ tick'[i].left = tick[i].left \ {s} /\ tick'[i].ok = TRUE
      /\ \A j \in Instances \ {i} : tick'[j] = tick[j]
  <2>1. tick' = [tick EXCEPT ![i] = [@ EXCEPT !.left = tick[i].left \ {s}, !.ok = TRUE]]
    BY DEF Push
  <2>2. tick[i] \in Ticks /\ tick \in [Instances -> Ticks]
    BY <1>0 DEF TypeOK
  <2>3. tick'[i] = [tick[i] EXCEPT !.left = tick[i].left \ {s}, !.ok = TRUE]
    BY <2>1, <2>2
  <2>4. \A j \in Instances \ {i} : tick'[j] = tick[j]
    BY <2>1, <2>2
  <2> QED
    BY <2>2, <2>3, <2>4 DEF Ticks
<1>3. ClockInv' /\ DueInv' /\ HoldsInv' /\ RowsInv'
  <2>1. ClockInv' /\ DueInv'
    BY <1>0, <1>1, <1>2 DEF ClockInv, DueInv
  <2>2. HoldsInv' /\ RowsInv'
    BY <1>0, <1>1, <1>2 DEF HoldsInv, RowsInv
  <2> QED
    BY <2>1, <2>2
<1>4. \A q : Taken(q)' <=> Taken(q) \/ q \in tick[i].holds
  BY <1>1 DEF Taken
<1>5. \A q \in tick[i].holds : q \in KeysOf(deliveries)
  BY <1>0 DEF HoldsInv, KeysOf
<1>6. DoneInv'
  <2> SUFFICES ASSUME NEW q \in Keys, Taken(q)', (q \notin KeysOf(deliveries))'
               PROVE  q.start <= now' /\ \A j \in Instances : tick'[j].pc # "idle" => q.start <= tick'[j].at
    BY DEF DoneInv
  <2>1. Taken(q) /\ q \notin KeysOf(deliveries)
    BY <1>1, <1>4, <1>5 DEF KeysOf
  <2>2. q.start <= now /\ \A j \in Instances : tick[j].pc # "idle" => q.start <= tick[j].at
    BY <1>0, <2>1 DEF DoneInv
  <2> QED
    BY <1>1, <1>2, <2>2
<1>7. OkInv'
  <2> SUFFICES ASSUME NEW j \in Instances, NEW q \in tick'[j].holds
               PROVE  (tick'[j].ok <=> Taken(q)') /\ \A t \in tick'[j].left : <<t, q>> \notin accepted'
    BY DEF OkInv
  <2>0. (tick[j].ok <=> Taken(q)) /\ \A t \in tick[j].left : <<t, q>> \notin accepted
    BY <1>0, <1>2 DEF OkInv
  <2>1. CASE j = i
    BY <1>1, <1>2, <1>4, <2>0, <2>1
  <2>2. CASE j # i
    <3>1. q \notin tick[i].holds
      BY <1>0, <1>2, <2>2 DEF HoldsInv
    <3> QED
      BY <1>1, <1>2, <1>4, <2>0, <2>2, <3>1
  <2> QED
    BY <2>1, <2>2
<1>8. RowsAreEarned'
  <2>1. \A q : Held(q)' <=> Held(q)
    BY <1>2 DEF Held
  <2>2. KeysOf(deliveries)' = KeysOf(deliveries)
    BY <1>1 DEF KeysOf
  <2> QED
    BY <1>0, <1>1, <1>4, <2>1, <2>2 DEF RowsAreEarned
<1> QED
  BY <1>3, <1>6, <1>7, <1>8 DEF IInv

\* The end of a reminder: a row goes only when nobody was reminded.
LEMMA SettleStep == ASSUME IInv, TypeOK', NEW i \in Instances, Settle(i) PROVE IInv'
<1>0. TypeOK /\ ClockInv /\ DueInv /\ HoldsInv /\ RowsInv /\ DoneInv /\ OkInv /\ RowsAreEarned
  BY DEF IInv
<1>1. /\ now' = now /\ accepted' = accepted /\ silenced' = silenced
      /\ deliveries' = deliveries \ Released(i)
      /\ tick[i].pc = "pushing"
  BY DEF Settle
<1>2. /\ tick'[i].at = tick[i].at /\ tick'[i].due = tick[i].due /\ tick'[i].holds = {}
      /\ tick'[i].pc = "claiming"
      /\ \A j \in Instances \ {i} : tick'[j] = tick[j]
  <2>1. tick' = [tick EXCEPT ![i] = [@ EXCEPT !.pc = "claiming", !.holds = {}, !.ok = FALSE]]
    BY DEF Settle
  <2>2. tick[i] \in Ticks /\ tick \in [Instances -> Ticks]
    BY <1>0 DEF TypeOK
  <2>3. tick'[i] = [tick[i] EXCEPT !.pc = "claiming", !.holds = {}, !.ok = FALSE]
    BY <2>1, <2>2
  <2>4. \A j \in Instances \ {i} : tick'[j] = tick[j]
    BY <2>1, <2>2
  <2> QED
    BY <2>2, <2>3, <2>4 DEF Ticks
<1>3. \A r \in deliveries \ deliveries' : r.key \in tick[i].holds /\ ~tick[i].ok /\ ~Taken(r.key)
  BY <1>0, <1>1 DEF Released, OkInv
<1>4. ClockInv' /\ DueInv' /\ RowsInv'
  <2>1. ClockInv' /\ DueInv'
    BY <1>0, <1>1, <1>2 DEF ClockInv, DueInv
  <2>2. RowsInv'
    BY <1>0, <1>1 DEF RowsInv
  <2> QED
    BY <2>1, <2>2
<1>5. HoldsInv'
  <2>1. ASSUME NEW j \in Instances, NEW q \in tick'[j].holds
        PROVE  \E r \in deliveries' : r.key = q /\ tick'[j].at <= r.at
    <3>1. j # i /\ tick'[j] = tick[j] /\ q \notin tick[i].holds
      BY <1>0, <1>2, <2>1 DEF HoldsInv
    <3>2. PICK r \in deliveries : r.key = q /\ tick[j].at <= r.at
      BY <1>0, <2>1, <3>1 DEF HoldsInv
    <3>3. r \in deliveries'
      BY <1>3, <3>1, <3>2
    <3> QED
      BY <3>1, <3>2, <3>3
  <2>2. \A j \in Instances : tick'[j].pc # "pushing" => tick'[j].holds = {}
    BY <1>0, <1>2 DEF HoldsInv
  <2>3. \A j \in Instances : \A l \in Instances \ {j} : tick'[j].holds \cap tick'[l].holds = {}
    BY <1>0, <1>2 DEF HoldsInv
  <2> QED
    BY <2>1, <2>2, <2>3 DEF HoldsInv
<1>6. \A q : Taken(q)' <=> Taken(q)
  BY <1>1 DEF Taken
<1>7. DoneInv'
  <2> SUFFICES ASSUME NEW q \in Keys, Taken(q)', (q \notin KeysOf(deliveries))'
               PROVE  q.start <= now' /\ \A j \in Instances : tick'[j].pc # "idle" => q.start <= tick'[j].at
    BY DEF DoneInv
  <2>1. q \notin KeysOf(deliveries)
    BY <1>3, <1>6 DEF KeysOf
  <2>2. q.start <= now /\ \A j \in Instances : tick[j].pc # "idle" => q.start <= tick[j].at
    BY <1>0, <1>6, <2>1 DEF DoneInv
  <2> QED
    BY <1>1, <1>2, <2>2
<1>8. OkInv'
  <2> SUFFICES ASSUME NEW j \in Instances, NEW q \in tick'[j].holds
               PROVE  (tick'[j].ok <=> Taken(q)') /\ \A t \in tick'[j].left : <<t, q>> \notin accepted'
    BY DEF OkInv
  <2>1. j # i /\ tick'[j] = tick[j]
    BY <1>2
  <2> QED
    BY <1>0, <1>1, <1>6, <2>1 DEF OkInv
<1>9. RowsAreEarned'
  <2> SUFFICES ASSUME NEW q \in KeysOf(deliveries)' PROVE Taken(q)' \/ Held(q)' \/ q \in silenced'
    BY DEF RowsAreEarned
  <2>1. q \in KeysOf(deliveries)
    BY <1>1 DEF KeysOf
  <2>2. CASE q \in tick[i].holds
    <3>1. tick[i].ok
      <4>1. ASSUME ~tick[i].ok PROVE FALSE
        <5>1. PICK r \in deliveries' : r.key = q
          BY DEF KeysOf
        <5>2. r \in Released(i)
          BY <1>1, <2>2, <4>1, <5>1 DEF Released
        <5> QED
          BY <1>1, <5>1, <5>2
      <4> QED
        BY <4>1
    <3> QED
      BY <1>0, <1>6, <2>2, <3>1 DEF OkInv
  <2>3. CASE q \notin tick[i].holds
    <3>1. Held(q) => Held(q)'
      BY <1>2, <2>3 DEF Held
    <3> QED
      BY <1>0, <1>1, <1>6, <2>1, <3>1 DEF RowsAreEarned
  <2> QED
    BY <2>2, <2>3
<1> QED
  BY <1>4, <1>5, <1>7, <1>8, <1>9 DEF IInv


\* A tick that breaks off leaves its row, and the reminder is silenced.
LEMMA BreakStep == ASSUME IInv, TypeOK', NEW i \in Instances, Break(i) PROVE IInv'
<1>0. TypeOK /\ ClockInv /\ DueInv /\ HoldsInv /\ RowsInv /\ DoneInv /\ OkInv /\ RowsAreEarned
  BY DEF IInv
<1>1. /\ now' = now /\ accepted' = accepted /\ deliveries' = deliveries
      /\ silenced' = silenced \cup tick[i].holds
  BY DEF Break
<1>2. /\ tick'[i].at = tick[i].at /\ tick'[i].due = {} /\ tick'[i].holds = {} /\ tick'[i].pc = "idle"
      /\ \A j \in Instances \ {i} : tick'[j] = tick[j]
  BY <1>0 DEF Break, TypeOK, Over, Idle
<1>3. ClockInv' /\ DueInv' /\ RowsInv'
  <2>1. ClockInv' /\ DueInv'
    BY <1>0, <1>1, <1>2 DEF ClockInv, DueInv
  <2>2. RowsInv'
    BY <1>0, <1>1 DEF RowsInv
  <2> QED
    BY <2>1, <2>2
<1>4. HoldsInv'
  BY <1>0, <1>1, <1>2 DEF HoldsInv
<1>5. \A q : Taken(q)' <=> Taken(q)
  BY <1>1 DEF Taken
<1>6. KeysOf(deliveries)' = KeysOf(deliveries)
  BY <1>1 DEF KeysOf
<1>7. DoneInv'
  <2> SUFFICES ASSUME NEW q \in Keys, Taken(q)', (q \notin KeysOf(deliveries))'
               PROVE  q.start <= now' /\ \A j \in Instances : tick'[j].pc # "idle" => q.start <= tick'[j].at
    BY DEF DoneInv
  <2>1. q.start <= now /\ \A j \in Instances : tick[j].pc # "idle" => q.start <= tick[j].at
    BY <1>0, <1>5, <1>6 DEF DoneInv
  <2> QED
    BY <1>1, <1>2, <2>1
<1>8. OkInv'
  <2> SUFFICES ASSUME NEW j \in Instances, NEW q \in tick'[j].holds
               PROVE  (tick'[j].ok <=> Taken(q)') /\ \A t \in tick'[j].left : <<t, q>> \notin accepted'
    BY DEF OkInv
  <2>1. j # i /\ tick'[j] = tick[j]
    BY <1>2
  <2> QED
    BY <1>0, <1>1, <1>5, <2>1 DEF OkInv
<1>9. RowsAreEarned'
  <2>1. \A q : Held(q) => Held(q)' \/ q \in tick[i].holds
    BY <1>2 DEF Held
  <2> QED
    BY <1>0, <1>1, <1>5, <1>6, <2>1 DEF RowsAreEarned
<1> QED
  BY <1>3, <1>4, <1>7, <1>8, <1>9 DEF IInv

LEMMA PassStep == ASSUME IInv, TypeOK', Pass PROVE IInv'
<1>0. TypeOK /\ ClockInv /\ DueInv /\ HoldsInv /\ RowsInv /\ DoneInv /\ OkInv /\ RowsAreEarned
  BY DEF IInv
<1>1. /\ now' = now + 1 /\ accepted' = accepted /\ deliveries' = deliveries
      /\ silenced' = silenced /\ tick' = tick
      /\ \A i \in Instances : tick[i].pc # "idle" => now < tick[i].at + MaxTick
  BY DEF Pass
<1>2. now \in Nat /\ \A j \in Instances : tick[j].at \in Nat
  BY <1>0, TicksTyped, Numbers DEF TypeOK, Times
<1>3. ClockInv'
  BY <1>0, <1>1, <1>2, Numbers DEF ClockInv
<1>4. DueInv' /\ RowsInv' /\ OkInv'
  <2>1. DueInv' /\ RowsInv'
    BY <1>0, <1>1 DEF DueInv, RowsInv
  <2>2. OkInv'
    BY <1>0, <1>1 DEF OkInv, Taken
  <2> QED
    BY <2>1, <2>2
<1>5. HoldsInv' /\ RowsAreEarned'
  <2>1. HoldsInv'
    BY <1>0, <1>1 DEF HoldsInv
  <2>2. RowsAreEarned'
    BY <1>0, <1>1 DEF RowsAreEarned, KeysOf, Taken, Held
  <2> QED
    BY <2>1, <2>2
<1>6. DoneInv'
  <2> SUFFICES ASSUME NEW q \in Keys, Taken(q)', (q \notin KeysOf(deliveries))'
               PROVE  q.start <= now' /\ \A j \in Instances : tick'[j].pc # "idle" => q.start <= tick'[j].at
    BY DEF DoneInv
  <2>1. Taken(q) /\ q \notin KeysOf(deliveries)
    BY <1>1 DEF Taken, KeysOf
  <2>2. q.start <= now /\ \A j \in Instances : tick[j].pc # "idle" => q.start <= tick[j].at
    BY <1>0, <2>1 DEF DoneInv
  <2>3. q.start \in Nat
    <3>1. q.start \in Times
      BY Numbers DEF Keys
    <3> QED
      BY <3>1, Numbers DEF Times
  <2> QED
    BY <1>1, <1>2, <2>2, <2>3
<1> QED
  BY <1>3, <1>4, <1>5, <1>6 DEF IInv

LEMMA ReadOrChooseStep ==
  ASSUME IInv, TypeOK', NEW i \in Instances, Read(i) \/ Choose(i) PROVE IInv'
<1>0. TypeOK /\ HoldsInv /\ DueInv
  BY DEF IInv
<1>1. tick[i] \in Ticks /\ tick \in [Instances -> Ticks]
  BY <1>0 DEF TypeOK
<1>2. /\ deliveries' = deliveries /\ accepted' = accepted /\ silenced' = silenced /\ now' = now
      /\ tick[i].pc \in {"begun", "read"}
  BY DEF Read, Choose
<1>3. tick[i].holds = {}
  BY <1>0, <1>2 DEF HoldsInv
<1>4. CASE Read(i)
  <2>1. /\ tick'[i].at = tick[i].at /\ tick'[i].holds = tick[i].holds /\ tick'[i].left = tick[i].left
        /\ tick'[i].due = tick[i].due /\ tick'[i].pc = "read"
        /\ \A j \in Instances \ {i} : tick'[j] = tick[j]
    BY <1>1, <1>4 DEF Read, Ticks
  <2>2. \A k \in tick'[i].due :
           tick'[i].pc # "idle" /\ tick[i].at < k.start /\ k.start <= tick[i].at + Lookahead
    BY <1>0, <2>1 DEF DueInv
  <2> QED
    BY <1>2, <1>3, <2>1, <2>2, QuietStep
<1>5. CASE Choose(i)
  <2>1. PICK events \in {event, [b \in Blocks |-> Nowhere]} :
          tick' = [tick EXCEPT ![i] = [@ EXCEPT !.pc = "claiming",
                     !.tasks = Idle.tasks, !.known = {},
                     !.due = Due(events, tick[i].tasks, tick[i].at) \ tick[i].known]]
    BY <1>5 DEF Choose
  <2> DEFINE due == Due(events, tick[i].tasks, tick[i].at) \ tick[i].known
  <2>2. events \in [Blocks -> Starts] /\ tick[i].tasks \in [Blocks -> Starts] /\ tick[i].at \in Times
    <3>1. tick[i].tasks \in [Blocks -> Starts] /\ tick[i].at \in Times
      BY <1>0, TicksTyped
    <3>2. events \in [Blocks -> Starts]
      BY <1>0 DEF TypeOK, Starts
    <3> QED
      BY <3>1, <3>2
  <2>3. \A k \in due : tick[i].at < k.start /\ k.start <= tick[i].at + Lookahead
    BY <2>2, DueTyped
  <2> HIDE DEF due
  <2>4. tick'[i] = [tick[i] EXCEPT !.pc = "claiming", !.tasks = Idle.tasks, !.known = {}, !.due = due]
    BY <1>1, <2>1 DEF due
  <2>5. \A j \in Instances \ {i} : tick'[j] = tick[j]
    BY <1>1, <2>1
  <2>6. /\ tick'[i].at = tick[i].at /\ tick'[i].holds = tick[i].holds /\ tick'[i].left = tick[i].left
        /\ tick'[i].due = due /\ tick'[i].pc = "claiming"
    BY <1>1, <2>4 DEF Ticks
  <2> QED
    BY <1>2, <1>3, <2>3, <2>5, <2>6, QuietStep
<1> QED
  BY <1>4, <1>5

\* A claim that meets a row.
LEMMA SkipStep ==
  ASSUME IInv, TypeOK', NEW i \in Instances, NEW k \in tick[i].due, Claim(i, k), ~Claimable(k)
  PROVE  IInv'
<1>0. TypeOK /\ HoldsInv /\ DueInv
  BY DEF IInv
<1>1. tick[i] \in Ticks /\ tick \in [Instances -> Ticks]
  BY <1>0 DEF TypeOK
<1>2. /\ deliveries' = deliveries /\ accepted' = accepted /\ silenced' = silenced /\ now' = now
      /\ tick[i].pc = "claiming"
      /\ tick' = [tick EXCEPT ![i] = [@ EXCEPT !.due = tick[i].due \ {k}]]
  BY DEF Claim
<1>3. tick'[i] = [tick[i] EXCEPT !.due = tick[i].due \ {k}] /\ \A j \in Instances \ {i} : tick'[j] = tick[j]
  BY <1>1, <1>2
<1>4. /\ tick'[i].at = tick[i].at /\ tick'[i].holds = tick[i].holds /\ tick'[i].left = tick[i].left
      /\ tick'[i].due = tick[i].due \ {k} /\ tick'[i].pc = tick[i].pc /\ tick'[i].ok = tick[i].ok
  BY <1>1, <1>3 DEF Ticks
<1>5. tick[i].holds = {}
  BY <1>0, <1>2 DEF HoldsInv
<1>6. \A q \in tick'[i].due :
         tick'[i].pc # "idle" /\ tick[i].at < q.start /\ q.start <= tick[i].at + Lookahead
  BY <1>0, <1>4 DEF DueInv
<1> QED
  BY <1>2, <1>3, <1>4, <1>5, <1>6, QuietStep

\* A push that was not taken.
LEMMA RefuseStep ==
  ASSUME IInv, TypeOK', NEW i \in Instances, NEW s \in Browsers, Refuse(i, s) \/ Gone(i, s)
  PROVE  IInv'
<1>0. TypeOK /\ DueInv
  BY DEF IInv
<1>1. tick[i] \in Ticks /\ tick \in [Instances -> Ticks]
  BY <1>0 DEF TypeOK
<1>2. /\ deliveries' = deliveries /\ accepted' = accepted /\ silenced' = silenced /\ now' = now
      /\ tick[i].pc = "pushing"
      /\ tick' = [tick EXCEPT ![i] = [@ EXCEPT !.left = tick[i].left \ {s}]]
  BY DEF Refuse, Gone
<1>3. tick'[i] = [tick[i] EXCEPT !.left = tick[i].left \ {s}] /\ \A j \in Instances \ {i} : tick'[j] = tick[j]
  BY <1>1, <1>2
<1>4. /\ tick'[i].at = tick[i].at /\ tick'[i].holds = tick[i].holds
      /\ tick'[i].left = tick[i].left \ {s}
      /\ tick'[i].due = tick[i].due /\ tick'[i].pc = tick[i].pc /\ tick'[i].ok = tick[i].ok
  BY <1>1, <1>3 DEF Ticks
<1>5. \A q \in tick'[i].due :
         tick'[i].pc # "idle" /\ tick[i].at < q.start /\ q.start <= tick[i].at + Lookahead
  BY <1>0, <1>4 DEF DueInv
<1> QED
  BY <1>2, <1>3, <1>4, <1>5, QuietStep

LEMMA EndStep == ASSUME IInv, TypeOK', NEW i \in Instances, End(i) PROVE IInv'
<1>0. TypeOK /\ HoldsInv
  BY DEF IInv
<1>1. /\ deliveries' = deliveries /\ accepted' = accepted /\ silenced' = silenced /\ now' = now
      /\ tick[i].pc = "claiming"
  BY DEF End
<1>2. /\ tick'[i].at = tick[i].at /\ tick'[i].due = {} /\ tick'[i].holds = {} /\ tick'[i].left = {}
      /\ tick'[i].pc = "idle"
      /\ \A j \in Instances \ {i} : tick'[j] = tick[j]
  BY <1>0 DEF End, TypeOK, Over, Idle
<1>3. tick[i].holds = {}
  BY <1>0, <1>1 DEF HoldsInv
<1> QED
  BY <1>1, <1>2, <1>3, QuietStep

\* The steps around the ticks touch nothing the invariant speaks of.
LEMMA WorldStep ==
  ASSUME IInv, TypeOK', now' = now, tick' = tick, deliveries' = deliveries,
         accepted' = accepted, silenced' = silenced
  PROVE  IInv'
<1>1. ClockInv' /\ DueInv' /\ RowsInv'
  BY DEF IInv, ClockInv, DueInv, RowsInv
<1>2. HoldsInv'
  BY DEF IInv, HoldsInv
<1>3. DoneInv' /\ OkInv' /\ RowsAreEarned'
  BY DEF IInv, DoneInv, OkInv, RowsAreEarned, Taken, Held, KeysOf
<1> QED
  BY <1>1, <1>2, <1>3 DEF IInv

LEMMA NextIInv == IInv /\ [Next]_vars => IInv'
<1> SUFFICES ASSUME IInv, [Next]_vars PROVE IInv'
  OBVIOUS
<1>1. TypeOK'
  BY NextTypeOK DEF IInv
<1>2. ASSUME NEW i \in Instances, Step(i) PROVE IInv'
  <2>1. CASE \E k \in tick[i].due : Claim(i, k)
    BY <1>1, <2>1, ClaimStep, SkipStep
  <2>2. CASE \E s \in Browsers : Push(i, s) \/ Refuse(i, s) \/ Gone(i, s)
    BY <1>1, <2>2, PushStep, RefuseStep
  <2>3. CASE Begin(i) \/ Read(i) \/ Choose(i) \/ Settle(i) \/ End(i) \/ Break(i)
    BY <1>1, <2>3, BeginStep, ReadOrChooseStep, SettleStep, EndStep, BreakStep
  <2> QED
    BY <1>2, <2>1, <2>2, <2>3 DEF Step
<1>3. ASSUME \/ \E b \in Blocks, s \in Starts : Move(b, s)
             \/ \E b \in Blocks : CatchUp(b)
             \/ \E rows \in SUBSET Browsers : Change(rows)
      PROVE  IInv'
  <2>1. /\ now' = now /\ tick' = tick /\ deliveries' = deliveries
        /\ accepted' = accepted /\ silenced' = silenced
    BY <1>3 DEF Move, CatchUp, Change
  <2> QED
    BY <1>1, <2>1, WorldStep
<1>4. CASE Pass
  BY <1>1, <1>4, PassStep
<1>5. CASE UNCHANGED vars
  <2>1. /\ now' = now /\ tick' = tick /\ deliveries' = deliveries
        /\ accepted' = accepted /\ silenced' = silenced
    BY <1>5 DEF vars
  <2> QED
    BY <1>1, <2>1, WorldStep
<1> QED
  BY <1>2, <1>3, <1>4, <1>5 DEF Next

LEMMA SpecIInv == Spec => []IInv
<1> QED
  BY InitIInv, NextIInv, PTL DEF Spec

-----------------------------------------------------------------------------

\* Whatever ticks overlap, end half way or come after the table was cleared, no
\* second try is made of a reminder that a push service answered it took: its row
\* is cleared only when no tick at work can still claim it.
THEOREM SpecNotSentAgain == Spec => []NotSentAgain
<1>1. IInv => NotSentAgain
  BY DEF IInv, OkInv, NotSentAgain
<1> QED
  BY <1>1, SpecIInv, PTL

\* A row keeps a reminder back only when somebody was reminded, is being
\* reminded, or the tick that held it broke off.
THEOREM SpecRowsAreEarned == Spec => []RowsAreEarned
<1>1. IInv => RowsAreEarned
  BY DEF IInv
<1> QED
  BY <1>1, SpecIInv, PTL

-----------------------------------------------------------------------------
(* Nobody is missed.                                                       *)

Told(k) == Taken(k) \/ Held(k) \/ k \in silenced

\* The reminders that are about a block where it sits.
Names(b) == { Key(kind, b, start[b]) : kind \in {"event", "task"} }

AboutToStart(b) ==
    /\ browsers # {} /\ start[b] \in now + 1 .. now + Lookahead
    /\ event[b] \in {start[b], Nowhere}

\* What a tick of this unit has of a block: its seat, a reminder it will claim,
\* or a reminder that was given.
OnItsWay(i, b) ==
    /\ tick[i].pc = "read" =>
         /\ tick[i].tasks[b] = start[b]
         /\ tick[i].known \cap Names(b) # {} => Reminded(b)
    /\ tick[i].pc \in {"claiming", "pushing"} => Reminded(b) \/ tick[i].due \cap Names(b) # {}
    /\ tick[i].pc = "idle" => Reminded(b)

\* A block that was left alone in this unit is under way in every tick of it.
WarnInv ==
    \A i \in Instances, b \in steady :
        tick[i].at = now /\ AboutToStart(b) => OnItsWay(i, b)

LEMMA RemindedIs == \A b : Reminded(b) <=> \E k \in Names(b) : Told(k)
BY DEF Reminded, Names, Told

\* What was given, or is held by another tick, stays so.
LEMMA ToldStays ==
  ASSUME TypeOK, NEW i \in Instances, NEW x, tick' = [tick EXCEPT ![i] = x], start' = start,
         accepted \subseteq accepted', silenced \subseteq silenced', NEW b,
         \A k \in tick[i].holds : k.block = b => Told(k)'
  PROVE  Reminded(b) => Reminded(b)'
<1> SUFFICES ASSUME NEW k \in Names(b), Told(k) PROVE Told(k)'
  BY RemindedIs DEF Reminded, Names, Told
<1>1. k.block = b
  BY DEF Names, Key
<1>2. CASE Taken(k) \/ k \in silenced
  BY <1>2 DEF Told, Taken
<1>3. CASE Held(k)
  <2>1. PICK j \in Instances : k \in tick[j].holds
    BY <1>3 DEF Held
  <2>2. CASE j = i
    BY <1>1, <2>1, <2>2
  <2>3. CASE j # i
    <3>1. tick'[j] = tick[j]
      BY <2>3 DEF TypeOK
    <3> QED
      BY <2>1, <3>1 DEF Told, Held
  <2> QED
    BY <2>2, <2>3
<1> QED
  BY <1>2, <1>3 DEF Told

\* The other ticks are as far as they were.
LEMMA OthersOnTheirWay ==
  ASSUME WarnInv, NEW b \in steady, now' = now, start' = start, event' = event,
         browsers' = browsers, Reminded(b) => Reminded(b)', AboutToStart(b)',
         NEW j \in Instances, tick'[j] = tick[j], tick'[j].at = now'
  PROVE  OnItsWay(j, b)'
<1>1. AboutToStart(b) /\ tick[j].at = now
  BY DEF AboutToStart
<1>2. OnItsWay(j, b)
  BY <1>1 DEF WarnInv
<1>3. Names(b)' = Names(b)
  BY DEF Names
<1> QED
  BY <1>2, <1>3 DEF OnItsWay

\* A step of one tick: what it gives stays given, and its own part is for it to show.
LEMMA TickWarns ==
  ASSUME IInv, WarnInv, NEW i \in Instances, NEW x, tick' = [tick EXCEPT ![i] = x],
         now' = now, start' = start, event' = event, browsers' = browsers, steady' \subseteq steady,
         accepted \subseteq accepted', silenced \subseteq silenced',
         \A b \in steady', k \in tick[i].holds : k.block = b => Told(k)',
         \A b \in steady' : x.at = now /\ AboutToStart(b) => OnItsWay(i, b)'
  PROVE  WarnInv'
<1> SUFFICES ASSUME NEW j \in Instances, NEW b \in steady', tick'[j].at = now', AboutToStart(b)'
             PROVE  OnItsWay(j, b)'
  BY DEF WarnInv
<1>1. TypeOK /\ b \in steady
  BY DEF IInv
<1>2. Reminded(b) => Reminded(b)'
  BY <1>1, ToldStays
<1>3. CASE j = i
  <2>1. tick'[i] = x
    BY <1>1 DEF TypeOK
  <2>2. AboutToStart(b)
    BY DEF AboutToStart
  <2> QED
    BY <1>3, <2>1, <2>2
<1>4. CASE j # i
  <2>1. tick'[j] = tick[j]
    BY <1>1, <1>4 DEF TypeOK
  <2> QED
    BY <1>1, <1>2, <2>1, OthersOnTheirWay
<1> QED
  BY <1>3, <1>4

\* A step that leaves every tick, and the blocks that stay steady, alone.
LEMMA WorldWarns ==
  ASSUME WarnInv, now' = now, tick' = tick, accepted' = accepted, silenced' = silenced,
         steady' \subseteq steady,
         steady' # {} => browsers' = browsers,
         \A b \in steady' : start'[b] = start[b] /\ event'[b] = event[b]
  PROVE  WarnInv'
<1> SUFFICES ASSUME NEW j \in Instances, NEW b \in steady', tick'[j].at = now', AboutToStart(b)'
             PROVE  OnItsWay(j, b)'
  BY DEF WarnInv
<1>1. AboutToStart(b) /\ tick[j].at = now /\ b \in steady
  BY DEF AboutToStart
<1>2. OnItsWay(j, b)
  BY <1>1 DEF WarnInv
<1>3. Names(b)' = Names(b)
  BY DEF Names
<1>4. Reminded(b)' <=> Reminded(b)
  BY DEF Reminded, Taken, Held
<1> QED
  BY <1>2, <1>3, <1>4 DEF OnItsWay

LEMMA InitWarns == Init => WarnInv
<1> SUFFICES ASSUME Init PROVE WarnInv
  OBVIOUS
<1>1. \A i \in Instances : tick[i].at = 0
  BY DEF Init, Idle
<1>2. now = 1
  BY DEF Init
<1> QED
  BY <1>1, <1>2 DEF WarnInv

LEMMA BeginWarns == ASSUME IInv, WarnInv, NEW i \in Instances, Begin(i) PROVE WarnInv'
<1> DEFINE x == IF browsers = {} THEN [Idle EXCEPT !.at = now]
                ELSE [Idle EXCEPT !.pc = "begun", !.at = now, !.to = browsers]
<1>1. /\ tick' = [tick EXCEPT ![i] = x] /\ tick[i].pc = "idle"
      /\ UNCHANGED <<now, start, event, browsers, accepted, silenced, steady>>
  BY DEF Begin, world
<1>2. tick[i].holds = {}
  BY <1>1 DEF IInv, HoldsInv
<1>3. ASSUME NEW b, AboutToStart(b) PROVE OnItsWay(i, b)'
  <2>1. x.pc = "begun"
    BY <1>3 DEF AboutToStart, Idle
  <2>2. tick'[i] = x
    BY <1>1 DEF IInv, TypeOK
  <2> HIDE DEF x
  <2> QED
    BY <2>1, <2>2 DEF OnItsWay
<1> HIDE DEF x
<1> QED
  BY <1>1, <1>2, <1>3, TickWarns

\* Of the deliveries a tick reads, each was earned.
LEMMA ReadWarns == ASSUME IInv, WarnInv, NEW i \in Instances, Read(i) PROVE WarnInv'
<1> DEFINE known == KeysOf({r \in deliveries : r.at + Ttl > tick[i].at})
           x == [tick[i] EXCEPT !.pc = "read", !.tasks = start, !.known = known]
<1>1. /\ tick' = [tick EXCEPT ![i] = x] /\ tick[i].pc = "begun"
      /\ UNCHANGED <<now, start, event, browsers, deliveries, accepted, silenced, steady>>
  BY DEF Read, world
<1>2. tick[i].holds = {} /\ tick[i] \in Ticks /\ TypeOK
  BY <1>1, TicksTyped DEF IInv, HoldsInv
<1>3. x.pc = "read" /\ x.tasks = start /\ x.known = known /\ x.holds = {}
  BY <1>2 DEF Ticks
<1>4. tick'[i] = x /\ \A j \in Instances \ {i} : tick'[j] = tick[j]
  BY <1>1, <1>2 DEF TypeOK
<1>5. known \subseteq KeysOf(deliveries)
  BY DEF KeysOf
<1> HIDE DEF x, known
<1>6. ASSUME NEW b \in Blocks, AboutToStart(b) PROVE OnItsWay(i, b)'
  <2>1. ASSUME NEW k \in known, k \in Names(b) PROVE Reminded(b)
    <3>1. Told(k)
      BY <1>5, <2>1 DEF IInv, RowsAreEarned, Told
    <3> QED
      BY <2>1, <3>1, RemindedIs
  <2>2. Reminded(b) => Reminded(b)'
    BY <1>1, <1>2, ToldStays
  <2>3. Names(b)' = Names(b) /\ start'[b] = start[b]
    BY <1>1 DEF Names
  <2>4. tick'[i].known \cap Names(b)' # {} => Reminded(b)'
    BY <1>3, <1>4, <2>1, <2>2, <2>3
  <2> QED
    BY <1>3, <1>4, <2>3, <2>4 DEF OnItsWay
<1>7. steady \subseteq Blocks
  BY <1>2 DEF TypeOK
<1> QED
  BY <1>1, <1>2, <1>6, <1>7, TickWarns

\* A block that starts soon, whose event is where it is or nowhere, is due.
LEMMA DueWhenSoon ==
  ASSUME TypeOK, NEW b \in Blocks, AboutToStart(b), NEW tasks, tasks[b] = start[b],
         NEW events \in {event, [c \in Blocks |-> Nowhere]}
  PROVE  Due(events, tasks, now) \cap Names(b) # {}
<1>1. start[b] \in Nat /\ start[b] > now /\ start[b] <= now + Lookahead /\ start[b] # Nowhere
  <2>1. now \in Nat
    BY Numbers DEF TypeOK, Times
  <2> QED
    BY <2>1, Numbers DEF AboutToStart
<1>2. Imminent(start[b], now)
  BY <1>1 DEF Imminent
<1>3. events[b] = start[b] \/ events[b] = Nowhere
  BY DEF AboutToStart
<1>4. CASE events[b] = start[b]
  <2>1. Key("event", b, start[b]) \in Due(events, tasks, now)
    BY <1>2, <1>4 DEF Due
  <2> QED
    BY <2>1 DEF Names
<1>5. CASE events[b] = Nowhere
  <2>1. Key("task", b, start[b]) \in Due(events, tasks, now)
    BY <1>2, <1>5 DEF Due, Imminent
  <2> QED
    BY <2>1 DEF Names
<1> QED
  BY <1>3, <1>4, <1>5

LEMMA ChooseWarns == ASSUME IInv, WarnInv, NEW i \in Instances, Choose(i) PROVE WarnInv'
<1>1. PICK events \in {event, [b \in Blocks |-> Nowhere]} :
        tick' = [tick EXCEPT ![i] = [@ EXCEPT !.pc = "claiming",
                   !.tasks = Idle.tasks, !.known = {},
                   !.due = Due(events, tick[i].tasks, tick[i].at) \ tick[i].known]]
  BY DEF Choose
<1> DEFINE due == Due(events, tick[i].tasks, tick[i].at) \ tick[i].known
           none == Idle.tasks
           x == [tick[i] EXCEPT !.pc = "claiming", !.tasks = none, !.known = {}, !.due = due]
<1>2. /\ tick' = [tick EXCEPT ![i] = x] /\ tick[i].pc = "read"
      /\ UNCHANGED <<now, start, event, browsers, deliveries, accepted, silenced, steady>>
  BY <1>1 DEF Choose, world
<1>3. tick[i].holds = {} /\ tick[i] \in Ticks /\ TypeOK
  BY <1>2, TicksTyped DEF IInv, HoldsInv
<1> HIDE DEF due, none
<1>4. x.pc = "claiming" /\ x.due = due /\ x.at = tick[i].at
  BY <1>3 DEF Ticks
<1>5. tick'[i] = x
  BY <1>2, <1>3 DEF TypeOK
<1>6. ASSUME NEW b \in steady, x.at = now, AboutToStart(b) PROVE OnItsWay(i, b)'
  <2>1. OnItsWay(i, b) /\ b \in Blocks
    BY <1>3, <1>4, <1>6 DEF WarnInv, TypeOK
  <2>2. tick[i].tasks[b] = start[b] /\ (tick[i].known \cap Names(b) # {} => Reminded(b))
    BY <1>2, <2>1 DEF OnItsWay
  <2>3. Due(events, tick[i].tasks, now) \cap Names(b) # {}
    BY <1>3, <1>6, <2>1, <2>2, DueWhenSoon
  <2>4. Reminded(b) \/ due \cap Names(b) # {}
    BY <1>4, <1>6, <2>2, <2>3 DEF due
  <2>5. Reminded(b) => Reminded(b)'
    BY <1>2, <1>3, ToldStays
  <2>6. Names(b)' = Names(b)
    BY <1>2 DEF Names
  <2> QED
    BY <1>4, <1>5, <2>4, <2>5, <2>6 DEF OnItsWay
<1> HIDE DEF x
<1> QED
  BY <1>2, <1>3, <1>6, TickWarns

\* A reminder that cannot be claimed has a row, which was earned.
LEMMA ClaimWarns ==
  ASSUME IInv, WarnInv, NEW i \in Instances, NEW k \in tick[i].due, Claim(i, k)
  PROVE  WarnInv'
<1> DEFINE due == tick[i].due \ {k}
           to == tick[i].to
           x == IF Claimable(k)
                THEN [tick[i] EXCEPT !.pc = "pushing", !.due = due, !.holds = {k}, !.left = to, !.ok = FALSE]
                ELSE [tick[i] EXCEPT !.due = due]
<1>1. /\ tick' = [tick EXCEPT ![i] = x] /\ tick[i].pc = "claiming"
      /\ UNCHANGED <<now, start, event, browsers, accepted, silenced, steady>>
  BY DEF Claim, world
<1>2. tick[i].holds = {} /\ tick[i] \in Ticks /\ TypeOK
  BY <1>1, TicksTyped DEF IInv, HoldsInv
<1>3. due = tick[i].due \ {k}
  OBVIOUS
<1> HIDE DEF due, to
<1>4. /\ x.pc \in {"claiming", "pushing"} /\ x.due = due /\ x.at = tick[i].at
      /\ Claimable(k) => x.holds = {k}
  BY <1>1, <1>2 DEF Ticks
<1>5. tick'[i] = x
  BY <1>1, <1>2 DEF TypeOK
<1> HIDE DEF x
<1>6. Told(k)'
  <2>1. CASE Claimable(k)
    BY <1>4, <1>5, <2>1 DEF Told, Held
  <2>2. CASE ~Claimable(k)
    <3>1. Told(k)
      BY <2>2 DEF IInv, RowsAreEarned, Claimable, Told
    <3>2. Held(k) => Held(k)'
      BY <1>1, <1>2 DEF Held, TypeOK
    <3> QED
      BY <1>1, <3>1, <3>2 DEF Told, Taken
  <2> QED
    BY <2>1, <2>2
<1>7. ASSUME NEW b \in steady, x.at = now, AboutToStart(b) PROVE OnItsWay(i, b)'
  <2>1. OnItsWay(i, b)
    BY <1>4, <1>7 DEF WarnInv
  <2>2. Reminded(b) \/ tick[i].due \cap Names(b) # {}
    BY <1>1, <2>1 DEF OnItsWay
  <2>3. Reminded(b) => Reminded(b)'
    BY <1>1, <1>2, ToldStays
  <2>4. Names(b)' = Names(b)
    BY <1>1 DEF Names
  <2>5. k \in Names(b) => Reminded(b)'
    BY <1>1, <1>6 DEF Reminded, Names, Told
  <2>6. Reminded(b)' \/ due \cap Names(b) # {}
    BY <1>3, <2>2, <2>3, <2>5
  <2> QED
    BY <1>4, <1>5, <2>4, <2>6 DEF OnItsWay
<1> QED
  BY <1>1, <1>2, <1>7, TickWarns

\* A push that is answered leaves what the tick holds where it is.
LEMMA PushWarns ==
  ASSUME IInv, WarnInv, NEW i \in Instances, NEW s, Push(i, s) \/ Refuse(i, s)
  PROVE  WarnInv'
<1> DEFINE left == tick[i].left \ {s}
           ok == IF Push(i, s) THEN TRUE ELSE tick[i].ok
           x == [tick[i] EXCEPT !.left = left, !.ok = ok]
<1>1. tick[i] \in Ticks /\ TypeOK
  BY TicksTyped DEF IInv
<1>2. /\ tick' = [tick EXCEPT ![i] = x] /\ accepted \subseteq accepted'
      /\ UNCHANGED <<now, start, event, browsers, silenced, steady>>
  <2>1. CASE Push(i, s)
    BY <2>1 DEF Push, world
  <2>2. CASE Refuse(i, s) /\ ~Push(i, s)
    <3>1. [tick[i] EXCEPT !.left = left] = [tick[i] EXCEPT !.left = left, !.ok = tick[i].ok]
      BY <1>1 DEF Ticks
    <3> QED
      BY <2>2, <3>1 DEF Refuse, world
  <2> QED
    BY <2>1, <2>2
<1> HIDE DEF left, ok
<1>3. x.pc = tick[i].pc /\ x.due = tick[i].due /\ x.at = tick[i].at /\ x.holds = tick[i].holds
      /\ x.tasks = tick[i].tasks /\ x.known = tick[i].known
  BY <1>1 DEF Ticks
<1>4. tick'[i] = x
  BY <1>1, <1>2 DEF TypeOK
<1> HIDE DEF x
<1>5. \A k \in tick[i].holds : Told(k)'
  BY <1>3, <1>4 DEF Told, Held
<1>6. ASSUME NEW b \in steady, x.at = now, AboutToStart(b) PROVE OnItsWay(i, b)'
  <2>1. OnItsWay(i, b)
    BY <1>3, <1>6 DEF WarnInv
  <2>2. Reminded(b) => Reminded(b)'
    BY <1>1, <1>2, <1>5, ToldStays
  <2>3. Names(b)' = Names(b) /\ start'[b] = start[b]
    BY <1>2 DEF Names
  <2> QED
    BY <1>3, <1>4, <2>1, <2>2, <2>3 DEF OnItsWay
<1> QED
  BY <1>2, <1>5, <1>6, TickWarns

\* A tick gives back a claim nobody took: its block was not left alone then.
LEMMA SettleWarns == ASSUME IInv, WarnInv, NEW i \in Instances, Settle(i) PROVE WarnInv'
<1> DEFINE x == [tick[i] EXCEPT !.pc = "claiming", !.holds = {}, !.ok = FALSE]
<1>1. /\ tick' = [tick EXCEPT ![i] = x] /\ tick[i].pc = "pushing"
      /\ steady' = IF tick[i].ok THEN steady ELSE steady \ {k.block : k \in tick[i].holds}
      /\ UNCHANGED <<now, start, event, browsers, accepted, silenced>>
  BY DEF Settle, world
<1>2. tick[i] \in Ticks /\ TypeOK
  BY TicksTyped DEF IInv
<1>3. x.pc = "claiming" /\ x.due = tick[i].due /\ x.at = tick[i].at
  BY <1>2 DEF Ticks
<1>4. tick'[i] = x
  BY <1>1, <1>2 DEF TypeOK
<1> HIDE DEF x
<1>5. ASSUME NEW b \in steady', NEW k \in tick[i].holds, k.block = b PROVE Told(k)'
  <2>1. tick[i].ok
    BY <1>1, <1>5
  <2>2. Taken(k)
    BY <2>1 DEF IInv, OkInv
  <2> QED
    BY <1>1, <2>2 DEF Told, Taken
<1>6. ASSUME NEW b \in steady', x.at = now, AboutToStart(b) PROVE OnItsWay(i, b)'
  <2>1. OnItsWay(i, b)
    BY <1>1, <1>3, <1>6 DEF WarnInv
  <2>2. Reminded(b) => Reminded(b)'
    BY <1>1, <1>2, <1>5, ToldStays
  <2>3. Names(b)' = Names(b)
    BY <1>1 DEF Names
  <2> QED
    BY <1>1, <1>3, <1>4, <2>1, <2>2, <2>3 DEF OnItsWay
<1>7. steady' \subseteq steady
  BY <1>1
<1> QED
  BY <1>1, <1>5, <1>6, <1>7, TickWarns

LEMMA EndWarns == ASSUME IInv, WarnInv, NEW i \in Instances, End(i) PROVE WarnInv'
<1> DEFINE x == Over(i)
<1>1. /\ tick' = [tick EXCEPT ![i] = x] /\ tick[i].pc = "claiming" /\ tick[i].due = {}
      /\ UNCHANGED <<now, start, event, browsers, accepted, silenced, steady>>
  BY DEF End, world
<1>2. tick[i].holds = {} /\ TypeOK
  BY <1>1 DEF IInv, HoldsInv
<1>3. x.pc = "idle" /\ x.at = tick[i].at
  BY DEF Over, Idle
<1>4. tick'[i] = x
  BY <1>1, <1>2 DEF TypeOK
<1> HIDE DEF x
<1>5. ASSUME NEW b \in steady, x.at = now, AboutToStart(b) PROVE OnItsWay(i, b)'
  <2>1. OnItsWay(i, b)
    BY <1>3, <1>5 DEF WarnInv
  <2>2. Reminded(b)
    BY <1>1, <2>1 DEF OnItsWay
  <2>3. Reminded(b)'
    BY <1>1, <1>2, <2>2, ToldStays
  <2> QED
    BY <1>3, <1>4, <2>3 DEF OnItsWay
<1> QED
  BY <1>1, <1>2, <1>5, TickWarns

\* No tick of the next unit has begun, so nothing is asked of any.
LEMMA PassWarns == ASSUME IInv, Pass PROVE WarnInv'
<1>1. now' = now + 1 /\ tick' = tick /\ now \in Nat
  BY Numbers DEF Pass, IInv, TypeOK, Times
<1>2. ASSUME NEW i \in Instances PROVE tick'[i].at # now'
  <2>1. tick[i].at \in Nat /\ tick[i].at <= now
    BY TicksTyped, Numbers DEF IInv, ClockInv, Times
  <2> QED
    BY <1>1, <2>1
<1> QED
  BY <1>2 DEF WarnInv

LEMMA NextWarns == IInv /\ WarnInv /\ [Next]_vars => WarnInv'
<1> SUFFICES ASSUME IInv, WarnInv, [Next]_vars PROVE WarnInv'
  OBVIOUS
<1>1. ASSUME NEW i \in Instances, Step(i) PROVE WarnInv'
  <2>1. CASE Begin(i) \/ Read(i) \/ Choose(i) \/ Settle(i) \/ End(i)
    BY <2>1, BeginWarns, ReadWarns, ChooseWarns, SettleWarns, EndWarns
  <2>2. CASE \E k \in tick[i].due : Claim(i, k)
    BY <2>2, ClaimWarns
  <2>3. CASE \E s \in Browsers : Push(i, s) \/ Refuse(i, s)
    BY <2>3, PushWarns
  <2>4. CASE Break(i) \/ \E s \in Browsers : Gone(i, s)
    BY <2>4 DEF Break, Gone, WarnInv
  <2> QED
    BY <1>1, <2>1, <2>2, <2>3, <2>4 DEF Step
<1>2. ASSUME NEW b \in Blocks, NEW s, Move(b, s) PROVE WarnInv'
  <2>1. /\ now' = now /\ tick' = tick /\ accepted' = accepted /\ silenced' = silenced
        /\ event' = event /\ browsers' = browsers
        /\ start' = [start EXCEPT ![b] = s] /\ steady' = steady \ {b}
    BY <1>2 DEF Move
  <2>2. \A c \in steady' : start'[c] = start[c]
    BY <2>1 DEF IInv, TypeOK
  <2> QED
    BY <2>1, <2>2, WorldWarns
<1>3. ASSUME NEW b \in Blocks, CatchUp(b) PROVE WarnInv'
  <2>1. /\ now' = now /\ tick' = tick /\ accepted' = accepted /\ silenced' = silenced
        /\ start' = start /\ browsers' = browsers
        /\ event' = [event EXCEPT ![b] = start[b]] /\ steady' = steady \ {b}
    BY <1>3 DEF CatchUp
  <2>2. \A c \in steady' : event'[c] = event[c]
    BY <2>1 DEF IInv, TypeOK
  <2> QED
    BY <2>1, <2>2, WorldWarns
<1>4. CASE \E rows \in SUBSET Browsers : Change(rows)
  BY <1>4 DEF Change, WarnInv
<1>5. CASE Pass
  BY <1>5, PassWarns
<1>6. CASE UNCHANGED vars
  <2>1. /\ now' = now /\ tick' = tick /\ accepted' = accepted /\ silenced' = silenced
        /\ start' = start /\ event' = event /\ browsers' = browsers /\ steady' = steady
    BY <1>6 DEF vars
  <2> QED
    BY <2>1, WorldWarns
<1> QED
  BY <1>1, <1>2, <1>3, <1>4, <1>5, <1>6 DEF Next

\* What the end of a unit may not see.
UnitEnds ==
    now' # now =>
        \A b \in steady :
            browsers # {} /\ start[b] \in now + 1 .. now + Lookahead /\ event[b] \in {start[b], Nowhere}
                => Reminded(b)

LEMMA UnitEndsWell == IInv /\ WarnInv /\ [Next]_vars => [UnitEnds]_vars
<1> SUFFICES ASSUME WarnInv, Next, now' # now,
                    NEW b \in steady, browsers # {}, start[b] \in now + 1 .. now + Lookahead,
                    event[b] \in {start[b], Nowhere}
             PROVE  Reminded(b)
  BY DEF UnitEnds
<1>1. Pass
  <2>1. \A i \in Instances : ~Step(i)
    BY DEF Step, Begin, Read, Choose, Claim, Push, Refuse, Gone, Settle, End, Break
  <2>2. \A c, s : ~Move(c, s) /\ ~CatchUp(c) /\ ~Change(s)
    BY DEF Move, CatchUp, Change
  <2> QED
    BY <2>1, <2>2 DEF Next
<1>2. PICK i \in Instances : tick[i].pc = "idle" /\ tick[i].at = now
  BY <1>1 DEF Pass
<1>3. OnItsWay(i, b)
  BY <1>2 DEF WarnInv, AboutToStart
<1> QED
  BY <1>2, <1>3 DEF OnItsWay

\* A unit in which a tick was done does not end before each block that starts
\* soon was reminded of, if it was left alone and Google shows it where it is or
\* not at all: the tick chose it, or found a row that was earned, claimed it and
\* was answered (dispatchDue, selectDueReminders, claim, deliver).
THEOREM SpecNobodyMissed == Spec => NobodyMissed
<1>1. IInv /\ WarnInv /\ [Next]_vars => [UnitEnds]_vars
  BY UnitEndsWell
<1>2. Spec => [][UnitEnds]_vars
  BY <1>1, InitWarns, NextWarns, SpecIInv, PTL DEF Spec
<1> QED
  BY <1>2 DEF NobodyMissed, UnitEnds

=============================================================================
