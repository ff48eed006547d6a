--------------------------- MODULE UserLockProofs ---------------------------
(***************************************************************************)
(* Proofs about UserLock, for every set of calls, users, processes and     *)
(* keys, every pool size and every bound on crashes.                       *)
(***************************************************************************)
EXTENDS UserLock, TLAPS

-----------------------------------------------------------------------------

LEMMA InitTypeOK == Init => TypeOK
<1> SUFFICES ASSUME Init PROVE TypeOK
  OBVIOUS
<1>1. call \in [Calls -> Call]
  <2>1. \A u \in Users, p \in Processes :
          [pc |-> "made", user |-> u, process |-> p, before |-> NoCall,
           no |-> 0, session |-> FALSE, passed |-> FALSE] \in Call
    BY DEF Call, PCs
  <2> QED
    BY <2>1 DEF Init
<1> QED
  BY <1>1 DEF Init, TypeOK

\* The updates the actions make of one call.
LEMMA CallUpdates ==
  ASSUME NEW r \in Call, NEW n \in Nat, NEW b \in Calls \cup {NoCall}
  PROVE  /\ \A pc \in PCs : [r EXCEPT !.pc = pc] \in Call
         /\ \A pc \in PCs, s \in BOOLEAN : [r EXCEPT !.pc = pc, !.session = s] \in Call
         /\ [r EXCEPT !.pc = "running", !.passed = TRUE] \in Call
         /\ [r EXCEPT !.pc = "waiting", !.no = n, !.before = b] \in Call
         /\ \A pc \in PCs : [r EXCEPT !.session = FALSE, !.pc = pc] \in Call
BY DEF Call, PCs, Connected

\* Every action keeps the state well typed.
LEMMA NextTypeOK == TypeOK /\ [Next]_vars => TypeOK'
<1> SUFFICES ASSUME TypeOK, [Next]_vars PROVE TypeOK'
  OBVIOUS
<1> USE DEF TypeOK
<1>p. /\ {"made", "waiting", "pool", "settled", "gone", "dead"} \subseteq PCs
      /\ Connected \subseteq PCs
  BY DEF PCs, Connected
<1>f. ASSUME NEW c \in Calls PROVE Freed(c) \in [Keys -> Calls \cup {NoCall}]
  BY DEF Freed
<1>1. ASSUME NEW c \in Calls, Enter(c) PROVE TypeOK'
  <2>1. [call[c] EXCEPT !.pc = "waiting", !.no = clock,
                        !.before = tail[call[c].process][call[c].user]] \in Call
    <3>1. tail[call[c].process][call[c].user] \in Calls \cup {NoCall}
      BY DEF Call
    <3> QED
      BY <3>1, CallUpdates
  <2>2. call' \in [Calls -> Call]
    BY <1>1, <2>1 DEF Enter
  <2>3. tail' \in [Processes -> [Users -> Calls \cup {NoCall}]]
    BY <1>1 DEF Enter, Call
  <2>4. clock' \in Nat
    BY <1>1 DEF Enter
  <2> QED
    BY <1>1, <2>2, <2>3, <2>4 DEF Enter
<1>2. ASSUME NEW c \in Calls, Start(c) \/ Finish(c) PROVE TypeOK'
  <2>1. /\ [call[c] EXCEPT !.pc = "running", !.passed = TRUE] \in Call
        /\ \A pc \in PCs : [call[c] EXCEPT !.pc = pc] \in Call
    BY CallUpdates, NoCallAssumption
  <2>2. call' \in [Calls -> Call]
    BY <1>2, <1>p, <2>1 DEF Start, Finish, Goto, Connected
  <2> QED
    BY <1>2, <2>2 DEF Start, Finish
<1>3. ASSUME NEW c \in Calls, Connect(c) \/ Timeout(c) PROVE TypeOK'
  <2>1. \A pc \in PCs, s \in BOOLEAN : [call[c] EXCEPT !.pc = pc, !.session = s] \in Call
    BY CallUpdates, NoCallAssumption
  <2>2. call' \in [Calls -> Call]
    BY <1>3, <1>p, <2>1 DEF Connect, Timeout, Connected
  <2> QED
    BY <1>3, <2>2 DEF Connect, Timeout
<1>4. ASSUME NEW c \in Calls, Acquire(c) PROVE TypeOK'
  <2>1. [call[c] EXCEPT !.pc = "running", !.passed = TRUE] \in Call
    BY CallUpdates, NoCallAssumption
  <2>2. call' \in [Calls -> Call]
    BY <1>4, <2>1 DEF Acquire
  <2>3. holder' \in [Keys -> Calls \cup {NoCall}]
    BY <1>4 DEF Acquire
  <2> QED
    BY <1>4, <2>2, <2>3 DEF Acquire
<1>5. ASSUME NEW c \in Calls, Unlock(c) \/ Close(c) PROVE TypeOK'
  <2>1. /\ \A pc \in PCs, s \in BOOLEAN : [call[c] EXCEPT !.pc = pc, !.session = s] \in Call
        /\ \A pc \in PCs : [call[c] EXCEPT !.pc = pc] \in Call
    BY CallUpdates, NoCallAssumption
  <2>2. call' \in [Calls -> Call]
    BY <1>5, <1>p, <2>1 DEF Unlock, Close, Goto, Connected
  <2>3. holder' \in [Keys -> Calls \cup {NoCall}]
    BY <1>5, <1>f DEF Unlock, Close
  <2> QED
    BY <1>5, <2>2, <2>3 DEF Unlock, Close
<1>6. ASSUME NEW c \in Calls, Forget(c) PROVE TypeOK'
  <2>1. \A pc \in PCs : [call[c] EXCEPT !.pc = pc] \in Call
    BY CallUpdates, NoCallAssumption
  <2>2. call' \in [Calls -> Call]
    BY <1>6, <1>p, <2>1 DEF Forget, Goto
  <2>3. tail' \in [Processes -> [Users -> Calls \cup {NoCall}]]
    BY <1>6 DEF Forget, Dropped, Call
  <2> QED
    BY <1>6, <2>2, <2>3 DEF Forget
<1>7. ASSUME NEW c \in Calls, LoseSession(c) PROVE TypeOK'
  <2>1. \A pc \in PCs : [call[c] EXCEPT !.session = FALSE, !.pc = pc] \in Call
    BY CallUpdates, NoCallAssumption
  <2>2. call[c].pc \in PCs
    BY DEF Call
  <2>3. call' \in [Calls -> Call]
    BY <1>7, <1>p, <2>1, <2>2 DEF LoseSession
  <2>4. spent' \in [crashes : Nat, drops : Nat]
    BY <1>7 DEF LoseSession
  <2> QED
    BY <1>7, <1>f, <2>3, <2>4 DEF LoseSession
<1>8. ASSUME NEW p \in Processes, Crash(p) PROVE TypeOK'
  <2>1. \A c \in Calls : [call[c] EXCEPT !.pc = "dead", !.session = FALSE] \in Call
    BY <1>p, CallUpdates, NoCallAssumption
  <2>2. call' \in [Calls -> Call]
    BY <1>8, <2>1 DEF Crash
  <2>3. tail' \in [Processes -> [Users -> Calls \cup {NoCall}]]
    BY <1>8 DEF Crash
  <2>4. holder' \in [Keys -> Calls \cup {NoCall}]
    BY <1>8 DEF Crash
  <2>5. spent' \in [crashes : Nat, drops : Nat]
    <3>1. spent' = [spent EXCEPT !.crashes = @ + 1]
      BY <1>8 DEF Crash
    <3> QED
      BY <3>1
  <2>6. clock' \in Nat
    BY <1>8 DEF Crash
  <2> QED
    BY <2>2, <2>3, <2>4, <2>5, <2>6
<1>9. ASSUME UNCHANGED vars PROVE TypeOK'
  BY <1>9 DEF vars
<1> QED
  BY <1>1, <1>2, <1>3, <1>4, <1>5, <1>6, <1>7, <1>8, <1>9 DEF Next, CallStep

\* The chains, the locks and the pool are well typed in every state.
THEOREM LockTypeCorrect == Spec => []TypeOK
<1>1. Init => TypeOK
  BY InitTypeOK
<1>2. TypeOK /\ [Next]_vars => TypeOK'
  BY NextTypeOK
<1> QED
  BY <1>1, <1>2, PTL DEF Spec

-----------------------------------------------------------------------------

Working == {"running", "unlocking", "closing"}
Holding(c) == call[c].pc \in Working /\ call[c].session

\* A call whose session is up works only while that session has its lock.
HoldsItsLock == \A c \in Calls : Holding(c) => holder[Key(c)] = c

\* A connection goes down under its call only by a loss that was counted.
SessionsUp ==
    /\ spent.drops <= MaxDrops
    /\ spent.drops = 0 => \A c \in Calls : call[c].pc \in Connected => call[c].session

LockInv == TypeOK /\ HoldsItsLock /\ SessionsUp

LEMMA InitLockInv == Init => LockInv
<1> SUFFICES ASSUME Init PROVE LockInv
  OBVIOUS
<1>1. \A c \in Calls : call[c].pc = "made"
  BY DEF Init
<1> QED
  BY <1>1, InitTypeOK, LockAssumption
  DEF Init, LockInv, HoldsItsLock, SessionsUp, Holding, Working, Connected

LEMMA NextLockInv ==
  ASSUME Distributed
  PROVE  LockInv /\ [Next]_vars => LockInv'
<1> SUFFICES ASSUME LockInv, [Next]_vars PROVE LockInv'
  OBVIOUS
<1> USE DEF LockInv
<1>t. TypeOK'
  BY NextTypeOK
<1> DEFINE Other(c) == \A d \in Calls \ {c} : call'[d] = call[d]
           User(c) == call'[c].user = call[c].user
\* A step of one call that gets or keeps what it holds, or stops working.
<1>k. ASSUME NEW c \in Calls, Other(c), User(c),
             \A k \in Keys : holder[k] # c => holder'[k] = holder[k],
             Holding(c)' => holder'[Key(c)] = c
      PROVE  HoldsItsLock'
  <2> SUFFICES ASSUME NEW d \in Calls, call'[d].pc \in Working, call'[d].session
               PROVE  holder'[KeyOf[call'[d].user]] = d
    BY DEF HoldsItsLock, Holding, Key
  <2>1. CASE d = c
    BY <1>k, <2>1 DEF Holding, Key
  <2>2. CASE d # c
    <3>1. KeyOf[call[d].user] \in Keys
      BY KeyOfAssumption DEF TypeOK, Call
    <3>2. holder[KeyOf[call[d].user]] = d
      BY <1>k, <2>2 DEF HoldsItsLock, Holding, Key
    <3> QED
      BY <1>k, <2>2, <3>1, <3>2
  <2> QED
    BY <2>1, <2>2
\* A step of one call whose session stays up, or which gives it back.
<1>s. ASSUME NEW c \in Calls, Other(c), spent' = spent,
             call'[c].pc \in Connected =>
               call'[c].session \/ (call[c].pc \in Connected /\ call'[c].session = call[c].session)
      PROVE  SessionsUp'
  BY <1>s DEF SessionsUp
<1>u. ASSUME NEW c \in Calls PROVE Key(c) \in Keys /\ c # NoCall
  BY KeyOfAssumption, NoCallAssumption DEF Key, TypeOK, Call
<1>1. ASSUME NEW c \in Calls, Enter(c) \/ Start(c) \/ Connect(c) \/ Timeout(c) \/ Forget(c)
      PROVE  HoldsItsLock' /\ SessionsUp'
  <2>1. /\ Other(c) /\ User(c) /\ call'[c].pc \notin Working
        /\ call'[c].pc \in Connected => call'[c].session
    BY <1>1 DEF Enter, Start, Connect, Timeout, Forget, Goto, TypeOK, Call, Working, Connected
  <2>2. holder' = holder /\ spent' = spent
    BY <1>1 DEF Enter, Start, Connect, Timeout, Forget
  <2> QED
    BY <1>k, <1>s, <2>1, <2>2 DEF Holding
<1>2. ASSUME NEW c \in Calls, Acquire(c) PROVE HoldsItsLock' /\ SessionsUp'
  <2>1. /\ Other(c) /\ User(c)
        /\ call[c].pc \in Connected /\ call'[c].session = call[c].session
    BY <1>2 DEF Acquire, Is, TypeOK, Call, Connected
  <2>2. holder[Key(c)] = NoCall /\ holder' = [holder EXCEPT ![Key(c)] = c] /\ spent' = spent
    BY <1>2 DEF Acquire
  <2>3. ASSUME NEW d \in Calls, d # c, Holding(d) PROVE holder'[Key(d)] = d
    BY <1>u, <2>2, <2>3 DEF HoldsItsLock, TypeOK
  <2>4. holder'[Key(c)] = c
    BY <1>u, <2>2 DEF TypeOK
  <2>5. HoldsItsLock'
    BY <2>1, <2>3, <2>4 DEF HoldsItsLock, Holding, Key
  <2> QED
    BY <1>s, <2>1, <2>2, <2>5
<1>3. ASSUME NEW c \in Calls, Finish(c) PROVE HoldsItsLock' /\ SessionsUp'
  <2>1. /\ Other(c) /\ User(c) /\ call[c].pc \in Working /\ call[c].pc \in Connected
        /\ call'[c].session = call[c].session
    BY <1>3 DEF Finish, Goto, Is, TypeOK, Call, Working, Connected
  <2>2. holder' = holder /\ spent' = spent /\ Holding(c)' => holder[Key(c)] = c
    BY <1>3, <2>1 DEF Finish, HoldsItsLock, Holding
  <2>3. holder' = holder /\ spent' = spent
    BY <1>3 DEF Finish
  <2> QED
    BY <1>k, <1>s, <2>1, <2>2, <2>3
<1>4. ASSUME NEW c \in Calls, Unlock(c) \/ Close(c) PROVE HoldsItsLock' /\ SessionsUp'
  <2>1. /\ Other(c) /\ User(c) /\ call[c].pc \in Working /\ call[c].pc \in Connected
        /\ call'[c].pc \in Connected => call'[c].session = call[c].session /\ holder' = holder
    BY <1>4 DEF Unlock, Close, Goto, Is, TypeOK, Call, Working, Connected
  <2>2. spent' = spent
    BY <1>4 DEF Unlock, Close
  <2>3. \A k \in Keys : holder[k] # c => holder'[k] = holder[k]
    BY <1>4 DEF Unlock, Close, Freed
  <2>4. Holding(c)' => holder'[Key(c)] = c
    BY <2>1 DEF HoldsItsLock, Holding, Working, Connected
  <2> QED
    BY <1>k, <1>s, <2>1, <2>2, <2>3, <2>4
<1>5. ASSUME NEW c \in Calls, LoseSession(c) PROVE HoldsItsLock' /\ SessionsUp'
  <2>1. Other(c) /\ User(c) /\ ~Holding(c)'
    BY <1>5 DEF LoseSession, TypeOK, Call, Holding
  <2>2. \A k \in Keys : holder[k] # c => holder'[k] = holder[k]
    BY <1>5 DEF LoseSession, Freed
  <2>3. spent'.drops = spent.drops + 1 /\ spent.drops \in Nat /\ spent.drops < MaxDrops
    BY <1>5 DEF LoseSession, TypeOK
  <2>4. SessionsUp'
    BY <2>3, LockAssumption DEF SessionsUp
  <2> QED
    BY <1>k, <2>1, <2>2, <2>4
<1>6. ASSUME NEW p \in Processes, Crash(p) PROVE HoldsItsLock' /\ SessionsUp'
  <2>1. spent'.drops = spent.drops
    BY <1>6 DEF Crash, TypeOK
  <2>2. ASSUME NEW d \in Calls, call'[d].pc \in Connected
        PROVE  call'[d] = call[d] /\ call[d].process # p
    BY <1>6, <2>2 DEF Crash, TypeOK, Call, Pending, Connected
  <2>3. SessionsUp'
    BY <2>1, <2>2 DEF SessionsUp
  <2>4. ASSUME NEW d \in Calls, Holding(d)' PROVE holder'[Key(d)] = d
    <3>1. call'[d] = call[d] /\ call[d].process # p
      BY <2>2, <2>4 DEF Holding, Working, Connected
    <3>2. holder[Key(d)] = d
      BY <2>4, <3>1 DEF HoldsItsLock, Holding
    <3> QED
      BY <1>6, <1>u, <3>1, <3>2 DEF Crash
  <2>5. \A d \in Calls : Holding(d)' => Key(d)' = Key(d)
    BY <2>2 DEF Holding, Key, Working, Connected
  <2>6. HoldsItsLock'
    BY <2>4, <2>5 DEF HoldsItsLock
  <2> QED
    BY <2>3, <2>6
<1>7. ASSUME UNCHANGED vars PROVE HoldsItsLock' /\ SessionsUp'
  BY <1>7 DEF vars, HoldsItsLock, SessionsUp, Holding, Key
<1> QED
  BY <1>t, <1>1, <1>2, <1>3, <1>4, <1>5, <1>6, <1>7 DEF Next, CallStep

LEMMA AlwaysLocked == ASSUME Distributed PROVE Spec => []LockInv
<1>1. Init => LockInv
  BY InitLockInv
<1>2. LockInv /\ [Next]_vars => LockInv'
  BY NextLockInv
<1> QED
  BY <1>1, <1>2, PTL DEF Spec

-----------------------------------------------------------------------------

Alive(c) == call[c].pc \in Pending
Over(c) == call[c].pc \in {"settled", "gone"}
Chained(d, c) == call[d].process = call[c].process /\ call[d].user = call[c].user
Earlier(d, c) == Chained(d, c) /\ call[d].no < call[c].no

\* Numbers grow and are not used twice.
Numbered ==
    /\ \A c \in Calls : call[c].pc # "made" => call[c].no < clock
    /\ \A c, d \in Calls : /\ call[c].pc # "made" /\ call[d].pc # "made"
                           /\ call[c].no = call[d].no
                           => c = d

\* An entry of chains is the last call of its user, and not over.
TailIsLast ==
    \A p \in Processes, u \in Users, c \in Calls :
        tail[p][u] = c =>
            /\ call[c].process = p /\ call[c].user = u
            /\ call[c].pc \in Pending \cup {"settled"}
            /\ \A d \in Calls : Alive(d) /\ Chained(d, c) => d = c \/ call[d].no < call[c].no

\* Without an entry the user has no work in the process.
WorkHasTail == \A d \in Calls : Alive(d) => tail[call[d].process][call[d].user] \in Calls

\* A call waits for the last of the earlier ones.
WaitsForLast ==
    \A c \in Calls : Is(c, "waiting") =>
        /\ call[c].before = NoCall => \A d \in Calls : Alive(d) => ~Earlier(d, c)
        /\ \A b \in Calls : call[c].before = b =>
               /\ Chained(b, c)
               /\ \A d \in Calls : Alive(d) /\ Earlier(d, c) => d = b \/ call[d].no < call[b].no

\* Nothing that came before a settled call is left.
OverInOrder == \A b, d \in Calls : Over(b) /\ Alive(d) => ~Earlier(d, b)

ChainInv ==
    /\ TypeOK /\ Numbered /\ TailIsLast /\ WorkHasTail /\ WaitsForLast /\ OverInOrder
    /\ InCallOrder

LEMMA InitChainInv == Init => ChainInv
<1> SUFFICES ASSUME Init PROVE ChainInv
  OBVIOUS
<1>1. \A c \in Calls : call[c].pc = "made"
  BY DEF Init
<1>2. \A c \in Calls : ~Alive(c) /\ ~Over(c) /\ ~Is(c, "waiting")
  BY <1>1 DEF Alive, Over, Is, Pending, Connected
<1>3. TailIsLast
  BY NoCallAssumption DEF Init, TailIsLast
<1>4. Numbered
  BY <1>1 DEF Numbered
<1> QED
  BY <1>2, <1>3, <1>4, InitTypeOK
  DEF ChainInv, WorkHasTail, WaitsForLast, OverInOrder, InCallOrder, Alive

\* A call that starts or goes on has no earlier one at work.
LEMMA NothingEarlier ==
  ASSUME ChainInv, NEW c \in Calls, Alive(c), Is(c, "waiting") => BeforeSettled(c)
  PROVE  \A d \in Calls : Alive(d) => ~Earlier(d, c)
<1> SUFFICES ASSUME NEW d \in Calls, Alive(d), Earlier(d, c) PROVE FALSE
  OBVIOUS
<1>1. Is(c, "waiting")
  BY DEF ChainInv, InCallOrder, Earlier, Chained, Alive
<1>2. call[c].before \in Calls \cup {NoCall}
  BY DEF ChainInv, TypeOK, Call
<1>3. CASE call[c].before = NoCall
  BY <1>1, <1>3 DEF ChainInv, WaitsForLast
<1>4. CASE call[c].before \in Calls
  <2> DEFINE b == call[c].before
  <2>1. Over(b) /\ Chained(b, c) /\ (d = b \/ call[d].no < call[b].no)
    BY <1>1, <1>4 DEF ChainInv, WaitsForLast, BeforeSettled, Over
  <2>2. d # b
    BY <2>1 DEF Over, Alive, Pending, Connected
  <2>3. Earlier(d, b)
    BY <2>1, <2>2 DEF Earlier, Chained
  <2> QED
    BY <1>4, <2>1, <2>3 DEF ChainInv, OverInOrder
<1> QED
  BY <1>2, <1>3, <1>4

\* A step of one call, which keeps its place and does not go back to waiting.
LEMMA StepKeepsOrder ==
  ASSUME ChainInv, NEW c \in Calls, Alive(c), Is(c, "waiting") => BeforeSettled(c),
         \A d \in Calls \ {c} : call'[d] = call[d],
         \A d \in Calls : /\ call'[d].process = call[d].process /\ call'[d].user = call[d].user
                          /\ call'[d].no = call[d].no /\ call'[d].before = call[d].before,
         call'[c].pc \in (Pending \ {"waiting"}) \cup {"settled"},
         tail' = tail, clock' = clock
  PROVE  (Numbered /\ TailIsLast /\ WorkHasTail /\ WaitsForLast /\ OverInOrder /\ InCallOrder)'
<1> USE DEF ChainInv
<1>1. \A d \in Calls : Alive(d) => ~Earlier(d, c)
  BY NothingEarlier
<1>2. \A d \in Calls : Alive(d)' => Alive(d)
  BY DEF Alive
<1>3. \A d, e \in Calls : (Earlier(d, e)' <=> Earlier(d, e)) /\ (Chained(d, e)' <=> Chained(d, e))
  BY DEF Earlier, Chained
<1>4. Numbered'
  BY DEF Numbered, Alive, Pending, Connected
<1>5. TailIsLast'
  BY <1>2, <1>3 DEF TailIsLast, Alive
<1>6. WorkHasTail'
  BY <1>2 DEF WorkHasTail
<1>7. WaitsForLast'
  <2> SUFFICES ASSUME NEW e \in Calls, Is(e, "waiting")'
               PROVE  /\ call'[e].before = NoCall => \A d \in Calls : Alive(d)' => ~Earlier(d, e)'
                      /\ \A b \in Calls : call'[e].before = b =>
                           /\ Chained(b, e)'
                           /\ \A d \in Calls : Alive(d)' /\ Earlier(d, e)' =>
                                d = b \/ call'[d].no < call'[b].no
    BY DEF WaitsForLast
  <2>1. Is(e, "waiting") /\ call'[e].before = call[e].before
    BY DEF Is
  <2> QED
    BY <1>2, <1>3, <2>1 DEF WaitsForLast
<1>8. OverInOrder'
  <2> SUFFICES ASSUME NEW b \in Calls, NEW d \in Calls, Over(b)', Alive(d)' PROVE ~Earlier(d, b)
    BY <1>3 DEF OverInOrder
  <2>1. CASE b = c
    BY <1>1, <1>2, <2>1
  <2>2. CASE b # c
    BY <1>2, <2>2 DEF OverInOrder, Over
  <2> QED
    BY <2>1, <2>2
<1>9. InCallOrder'
  <2> SUFFICES ASSUME NEW d \in Calls, NEW e \in Calls, Alive(d)', Alive(e)', Earlier(d, e)
               PROVE  Is(e, "waiting")'
    BY <1>3 DEF InCallOrder, Alive, Earlier, Chained
  <2>1. e # c
    BY <1>1, <1>2
  <2>2. Is(e, "waiting")
    BY <1>2 DEF InCallOrder, Alive, Earlier, Chained
  <2> QED
    BY <2>1, <2>2 DEF Is
<1> QED
  BY <1>4, <1>5, <1>6, <1>7, <1>8, <1>9

\* A new call is the last of its user and waits for the one that was.
LEMMA EnterKeepsOrder ==
  ASSUME ChainInv, NEW c \in Calls, Enter(c)
  PROVE  (Numbered /\ TailIsLast /\ WorkHasTail /\ WaitsForLast /\ OverInOrder /\ InCallOrder)'
<1> USE DEF ChainInv
<1> DEFINE b == tail[call[c].process][call[c].user]
<1>1. /\ \A d \in Calls \ {c} : call'[d] = call[d]
      /\ call'[c].pc = "waiting" /\ call'[c].no = clock /\ call'[c].before = b
      /\ call'[c].process = call[c].process /\ call'[c].user = call[c].user
      /\ call[c].pc = "made"
  BY DEF Enter, Is, TypeOK, Call
<1>2. clock' = clock + 1 /\ clock \in Nat /\ \A d \in Calls : call[d].no \in Nat
  BY DEF Enter, TypeOK, Call
<1>3. \A p \in Processes, u \in Users :
        tail'[p][u] = IF p = call[c].process /\ u = call[c].user THEN c ELSE tail[p][u]
  BY DEF Enter, TypeOK
<1>4. \A d \in Calls : call[d].process \in Processes /\ call[d].user \in Users
  BY DEF TypeOK, Call
<1>5. \A d \in Calls \ {c} : (Alive(d)' <=> Alive(d)) /\ (Alive(d) => call[d].no < clock)
  BY <1>1 DEF Alive, Numbered, Pending, Connected
<1>6. \A d, e \in Calls \ {c} : (Earlier(d, e)' <=> Earlier(d, e)) /\ (Chained(d, e)' <=> Chained(d, e))
  BY <1>1 DEF Earlier, Chained
<1>7. \A d \in Calls : Chained(d, c)' <=> Chained(d, c)
  BY <1>1 DEF Chained
<1>8. \A e \in Calls : call'[e].pc # "made" => ~Earlier(c, e)'
  BY <1>1, <1>2 DEF Earlier, Numbered
<1>n. Numbered'
  <2>1. \A d \in Calls : call'[d].pc # "made" => call'[d].no < clock'
    BY <1>1, <1>2 DEF Numbered
  <2>2. \A d \in Calls \ {c} : call'[d].pc # "made" => call'[d].no # call'[c].no
    BY <1>1, <1>2 DEF Numbered
  <2> QED
    BY <1>1, <2>1, <2>2 DEF Numbered
<1>t. TailIsLast'
  <2> SUFFICES ASSUME NEW p \in Processes, NEW u \in Users, NEW e \in Calls, tail'[p][u] = e
               PROVE  /\ call'[e].process = p /\ call'[e].user = u
                      /\ call'[e].pc \in Pending \cup {"settled"}
                      /\ \A d \in Calls : Alive(d)' /\ Chained(d, e)' =>
                           d = e \/ call'[d].no < call'[e].no
    BY DEF TailIsLast
  <2>1. CASE p = call[c].process /\ u = call[c].user
    <3>1. e = c
      BY <1>3, <2>1
    <3> QED
      BY <1>1, <1>5, <2>1, <3>1 DEF Pending
  <2>2. CASE ~(p = call[c].process /\ u = call[c].user)
    <3>1. tail[p][u] = e
      BY <1>3, <2>2
    <3>2. e # c
      BY <1>1, <3>1 DEF TailIsLast, Pending, Connected
    <3>3. ~Chained(c, e)'
      BY <1>1, <2>2, <3>1, <3>2 DEF Chained, TailIsLast
    <3> QED
      BY <1>1, <1>5, <1>6, <3>1, <3>2, <3>3 DEF TailIsLast
  <2> QED
    BY <2>1, <2>2
<1>w. WorkHasTail'
  BY <1>1, <1>3, <1>4, <1>5 DEF WorkHasTail
<1>9. \A d \in Calls \ {c} : Alive(d) /\ Chained(d, c) =>
        b \in Calls /\ Chained(b, c) /\ (d = b \/ call[d].no < call[b].no)
  <2> SUFFICES ASSUME NEW d \in Calls \ {c}, Alive(d), Chained(d, c)
               PROVE  b \in Calls /\ Chained(b, c) /\ (d = b \/ call[d].no < call[b].no)
    OBVIOUS
  <2>1. b \in Calls
    BY DEF WorkHasTail, Chained
  <2>2. call[b].process = call[c].process /\ call[b].user = call[c].user
    BY <1>4, <2>1 DEF TailIsLast
  <2>3. Chained(d, b) /\ Chained(b, c)
    BY <2>2 DEF Chained
  <2> QED
    BY <1>4, <2>1, <2>3 DEF TailIsLast
<1>10. b \in Calls => b # c /\ Chained(b, c)
  <2> SUFFICES ASSUME b \in Calls PROVE b # c /\ Chained(b, c)
    OBVIOUS
  <2>1. /\ call[b].process = call[c].process /\ call[b].user = call[c].user
        /\ call[b].pc \in Pending \cup {"settled"}
    BY <1>4 DEF TailIsLast
  <2> QED
    BY <1>1, <2>1 DEF Chained, Pending, Connected
<1>a. WaitsForLast'
  <2> SUFFICES ASSUME NEW e \in Calls, Is(e, "waiting")'
               PROVE  /\ call'[e].before = NoCall => \A d \in Calls : Alive(d)' => ~Earlier(d, e)'
                      /\ \A a \in Calls : call'[e].before = a =>
                           /\ Chained(a, e)'
                           /\ \A d \in Calls : Alive(d)' /\ Earlier(d, e)' =>
                                d = a \/ call'[d].no < call'[a].no
    BY DEF WaitsForLast
  <2>0. ~Earlier(c, e)'
    BY <1>8 DEF Is
  <2>1. CASE e = c
    <3>1. \A d \in Calls : Alive(d)' /\ Earlier(d, c)' => d # c /\ Alive(d) /\ Chained(d, c)
      BY <1>5, <1>7, <2>0, <2>1 DEF Earlier
    <3>2. \A d \in Calls : Alive(d)' /\ Earlier(d, c)' =>
            b \in Calls /\ (d = b \/ call'[d].no < call'[b].no)
      BY <1>1, <1>9, <1>10, <3>1
    <3>3. \A a \in Calls : call'[c].before = a => Chained(a, c)'
      BY <1>1, <1>7, <1>10
    <3>4. call'[c].before = NoCall => b \notin Calls
      BY <1>1, NoCallAssumption
    <3> QED
      BY <1>1, <2>1, <3>2, <3>3, <3>4
  <2>2. CASE e # c
    <3>1. Is(e, "waiting") /\ call'[e].before = call[e].before
      BY <1>1, <2>2 DEF Is
    <3>2. \A d \in Calls : Alive(d)' /\ Earlier(d, e)' => d # c /\ Alive(d) /\ Earlier(d, e)
      BY <1>5, <1>6, <2>0, <2>2
    <3>3. ASSUME NEW a \in Calls, call'[e].before = a
          PROVE  /\ Chained(a, e)'
                 /\ \A d \in Calls : Alive(d)' /\ Earlier(d, e)' => d = a \/ call'[d].no < call'[a].no
      <4>1. Chained(a, e) /\ \A d \in Calls : Alive(d) /\ Earlier(d, e) => d = a \/ call[d].no < call[a].no
        BY <3>1, <3>3 DEF WaitsForLast
      <4>2. Chained(a, e)'
        BY <1>1, <2>2, <4>1 DEF Chained
      <4>3. CASE a # c
        BY <1>1, <3>2, <4>1, <4>2, <4>3
      <4>4. CASE a = c
        BY <1>1, <1>5, <3>2, <4>2, <4>4
      <4> QED
        BY <4>3, <4>4
    <3> QED
      BY <3>1, <3>2, <3>3 DEF WaitsForLast
  <2> QED
    BY <2>1, <2>2
<1>o. OverInOrder'
  <2> SUFFICES ASSUME NEW e \in Calls, NEW d \in Calls, Over(e)', Alive(d)', Earlier(d, e)' PROVE FALSE
    BY DEF OverInOrder
  <2>1. e # c /\ d # c
    BY <1>1, <1>8 DEF Over
  <2> QED
    BY <1>1, <1>5, <1>6, <2>1 DEF OverInOrder, Over
<1>i. InCallOrder'
  <2> SUFFICES ASSUME NEW d \in Calls, NEW e \in Calls, Alive(d)', Alive(e)', Earlier(d, e)'
               PROVE  Is(e, "waiting")'
    BY DEF InCallOrder, Alive, Earlier, Chained
  <2>1. CASE e = c
    BY <1>1, <2>1 DEF Is
  <2>2. CASE e # c
    <3>1. d # c
      BY <1>8 DEF Alive, Pending, Connected
    <3>2. Is(e, "waiting")
      BY <1>5, <1>6, <2>2, <3>1 DEF InCallOrder, Alive, Earlier, Chained
    <3> QED
      BY <1>1, <2>2, <3>2 DEF Is
  <2> QED
    BY <2>1, <2>2
<1> QED
  BY <1>n, <1>t, <1>w, <1>a, <1>o, <1>i

\* The entry that goes is of a user with no work left.
LEMMA ForgetKeepsOrder ==
  ASSUME ChainInv, NEW c \in Calls, Forget(c)
  PROVE  (Numbered /\ TailIsLast /\ WorkHasTail /\ WaitsForLast /\ OverInOrder /\ InCallOrder)'
<1> USE DEF ChainInv
<1>1. /\ \A d \in Calls \ {c} : call'[d] = call[d]
      /\ call'[c] = [call[c] EXCEPT !.pc = "gone"]
      /\ call[c].pc = "settled" /\ clock' = clock
  BY DEF Forget, Goto, Is, TypeOK
<1>2. \A d \in Calls : /\ call'[d].process = call[d].process /\ call'[d].user = call[d].user
                       /\ call'[d].no = call[d].no /\ call'[d].before = call[d].before
  BY <1>1 DEF TypeOK, Call
<1>3. \A p \in Processes, u \in Users :
        tail'[p][u] = IF tail[p][u] = c THEN NoCall ELSE tail[p][u]
  <2>1. \A p \in Processes, u \in Users :
          tail'[p][u] = IF p = call[c].process /\ u = call[c].user /\ tail[p][u] = c
                        THEN NoCall ELSE tail[p][u]
    BY DEF Forget, Dropped, TypeOK
  <2>2. \A p \in Processes, u \in Users : tail[p][u] = c => p = call[c].process /\ u = call[c].user
    BY DEF TailIsLast
  <2> QED
    BY <2>1, <2>2
<1>4. \A d \in Calls : call[d].process \in Processes /\ call[d].user \in Users
  BY DEF TypeOK, Call
<1>5. \A d \in Calls : (Alive(d)' <=> Alive(d)) /\ (Over(d)' <=> Over(d))
                       /\ (Is(d, "waiting")' <=> Is(d, "waiting"))
  BY <1>1 DEF Alive, Over, Is, Pending, Connected, TypeOK, Call
<1>6. \A d, e \in Calls : (Earlier(d, e)' <=> Earlier(d, e)) /\ (Chained(d, e)' <=> Chained(d, e))
  BY <1>2 DEF Earlier, Chained
<1>n. Numbered'
  BY <1>1, <1>2 DEF Numbered
<1>t. TailIsLast'
  <2> SUFFICES ASSUME NEW p \in Processes, NEW u \in Users, NEW e \in Calls, tail'[p][u] = e
               PROVE  /\ call'[e].process = p /\ call'[e].user = u
                      /\ call'[e].pc \in Pending \cup {"settled"}
                      /\ \A d \in Calls : Alive(d)' /\ Chained(d, e)' =>
                           d = e \/ call'[d].no < call'[e].no
    BY DEF TailIsLast
  <2>1. tail[p][u] = e /\ e # c
    BY <1>3, NoCallAssumption
  <2> QED
    BY <1>1, <1>2, <1>5, <1>6, <2>1 DEF TailIsLast
<1>w. WorkHasTail'
  <2> SUFFICES ASSUME NEW d \in Calls, Alive(d)
               PROVE  tail'[call[d].process][call[d].user] \in Calls
    BY <1>2, <1>5 DEF WorkHasTail
  <2> DEFINE e == tail[call[d].process][call[d].user]
  <2>1. e \in Calls
    BY DEF WorkHasTail
  <2>2. e # c
    <3> SUFFICES ASSUME e = c PROVE FALSE
      OBVIOUS
    <3>1. Chained(d, c)
      BY <1>4 DEF TailIsLast, Chained
    <3>2. d = c \/ call[d].no < call[c].no
      BY <1>4, <3>1 DEF TailIsLast
    <3>3. d # c /\ Over(c)
      BY <1>1 DEF Alive, Over, Pending, Connected
    <3> QED
      BY <3>1, <3>2, <3>3 DEF OverInOrder, Earlier
  <2> QED
    BY <1>3, <1>4, <2>1, <2>2
<1>a. WaitsForLast'
  BY <1>2, <1>5, <1>6 DEF WaitsForLast
<1>o. OverInOrder'
  BY <1>5, <1>6 DEF OverInOrder
<1>i. InCallOrder'
  <2> SUFFICES ASSUME NEW d \in Calls, NEW e \in Calls, Alive(d)', Alive(e)', Earlier(d, e)'
               PROVE  Is(e, "waiting")'
    BY DEF InCallOrder, Alive, Earlier, Chained
  <2> QED
    BY <1>5, <1>6 DEF InCallOrder, Alive, Earlier, Chained
<1> QED
  BY <1>n, <1>t, <1>w, <1>a, <1>o, <1>i

\* A process that dies takes its calls and its chains with it.
LEMMA CrashKeepsOrder ==
  ASSUME ChainInv, NEW p \in Processes, Crash(p)
  PROVE  (Numbered /\ TailIsLast /\ WorkHasTail /\ WaitsForLast /\ OverInOrder /\ InCallOrder)'
<1> USE DEF ChainInv
<1> DEFINE Dies(d) == call[d].process = p /\ call[d].pc \in Pending \cup {"settled"}
<1>0. \A d \in Calls : /\ Dies(d) => call'[d] = [call[d] EXCEPT !.pc = "dead", !.session = FALSE]
                       /\ ~Dies(d) => call'[d] = call[d]
  BY DEF Crash
<1>1. ASSUME NEW d \in Calls
      PROVE  /\ call'[d].process = call[d].process /\ call'[d].user = call[d].user
             /\ call'[d].no = call[d].no /\ call'[d].before = call[d].before
             /\ call[d].pc = "made" => call'[d] = call[d]
             /\ call'[d].pc = "made" => call[d].pc = "made"
  <2>1. CASE Dies(d)
    <3>1. call[d].pc # "made"
      BY <2>1 DEF Pending, Connected
    <3>2. call'[d] = [call[d] EXCEPT !.pc = "dead", !.session = FALSE] /\ call[d] \in Call
      BY <1>0, <2>1 DEF TypeOK
    <3> QED
      BY <3>1, <3>2 DEF Call
  <2>2. CASE ~Dies(d)
    BY <1>0, <2>2
  <2> QED
    BY <2>1, <2>2
<1>2. ASSUME NEW d \in Calls
      PROVE  /\ call'[d].pc \in Pending \cup {"settled"} => call[d].process # p
             /\ call'[d].pc # "dead" => call'[d] = call[d]
  <2>1. CASE Dies(d)
    <3>1. call'[d] = [call[d] EXCEPT !.pc = "dead", !.session = FALSE] /\ call[d] \in Call
      BY <1>0, <2>1 DEF TypeOK
    <3> QED
      BY <3>1 DEF Call, Pending, Connected
  <2>2. CASE ~Dies(d)
    BY <1>0, <2>2
  <2> QED
    BY <2>1, <2>2
<1>3. /\ clock' = clock
      /\ \A q \in Processes, u \in Users : tail'[q][u] = IF q = p THEN NoCall ELSE tail[q][u]
  BY DEF Crash, TypeOK
<1>4. \A d \in Calls : call[d].process \in Processes /\ call[d].user \in Users
  BY DEF TypeOK, Call
<1>5. \A d \in Calls : /\ Alive(d)' => Alive(d) /\ call'[d] = call[d] /\ call[d].process # p
                       /\ Over(d)' => Over(d)
                       /\ Is(d, "waiting")' => Is(d, "waiting")
  BY <1>2 DEF Alive, Over, Is, Pending, Connected
<1>6. \A d, e \in Calls : (Earlier(d, e)' <=> Earlier(d, e)) /\ (Chained(d, e)' <=> Chained(d, e))
  BY <1>1 DEF Earlier, Chained
<1>7. \A d \in Calls : Alive(d) /\ call[d].process # p => call'[d] = call[d]
  BY DEF Crash
<1>n. Numbered'
  <2>1. \A d \in Calls : call'[d].pc # "made" => call[d].pc # "made"
    BY <1>1
  <2> QED
    BY <1>1, <1>3, <2>1 DEF Numbered
<1>t. TailIsLast'
  <2> SUFFICES ASSUME NEW q \in Processes, NEW u \in Users, NEW e \in Calls, tail'[q][u] = e
               PROVE  /\ call'[e].process = q /\ call'[e].user = u
                      /\ call'[e].pc \in Pending \cup {"settled"}
                      /\ \A d \in Calls : Alive(d)' /\ Chained(d, e)' =>
                           d = e \/ call'[d].no < call'[e].no
    BY DEF TailIsLast
  <2>1. q # p /\ tail[q][u] = e
    BY <1>3, NoCallAssumption
  <2>2. call[e].process = q
    BY <2>1 DEF TailIsLast
  <2>3. call'[e] = call[e]
    BY <2>1, <2>2 DEF Crash
  <2> QED
    BY <1>1, <1>5, <1>6, <2>1, <2>3 DEF TailIsLast
<1>w. WorkHasTail'
  BY <1>3, <1>4, <1>5 DEF WorkHasTail
<1>a. WaitsForLast'
  BY <1>1, <1>5, <1>6 DEF WaitsForLast
<1>o. OverInOrder'
  BY <1>5, <1>6 DEF OverInOrder
<1>i. InCallOrder'
  <2> SUFFICES ASSUME NEW d \in Calls, NEW e \in Calls, Alive(d)', Alive(e)', Earlier(d, e)'
               PROVE  Is(e, "waiting")'
    BY DEF InCallOrder, Alive, Earlier, Chained
  <2>1. Is(e, "waiting")
    BY <1>5, <1>6 DEF InCallOrder, Alive, Earlier, Chained
  <2> QED
    BY <1>5, <2>1 DEF Is
<1> QED
  BY <1>n, <1>t, <1>w, <1>a, <1>o, <1>i

LEMMA NextChainInv == ChainInv /\ [Next]_vars => ChainInv'
<1> SUFFICES ASSUME ChainInv, [Next]_vars PROVE ChainInv'
  OBVIOUS
<1> DEFINE Order == Numbered /\ TailIsLast /\ WorkHasTail /\ WaitsForLast /\ OverInOrder
                    /\ InCallOrder
<1>t. TypeOK'
  BY NextTypeOK DEF ChainInv
<1>1. ASSUME NEW c \in Calls,
             \/ Start(c) \/ Connect(c) \/ Acquire(c) \/ Timeout(c) \/ Finish(c) \/ Unlock(c)
             \/ Close(c) \/ LoseSession(c)
      PROVE  Order'
  <2>1. tail' = tail /\ clock' = clock
    BY <1>1 DEF Start, Connect, Acquire, Timeout, Finish, Unlock, Close, LoseSession
  <2>2. Alive(c) /\ (Is(c, "waiting") => BeforeSettled(c))
    BY <1>1 DEF Start, Connect, Acquire, Timeout, Finish, Unlock, Close, LoseSession, Alive, Is,
                Pending, Connected
  <2>3. \A d \in Calls \ {c} : call'[d] = call[d]
    BY <1>1 DEF Start, Connect, Acquire, Timeout, Finish, Unlock, Close, LoseSession, Goto,
                ChainInv, TypeOK
  <2>4. /\ call'[c].process = call[c].process /\ call'[c].user = call[c].user
        /\ call'[c].no = call[c].no /\ call'[c].before = call[c].before
        /\ call'[c].pc \in (Pending \ {"waiting"}) \cup {"settled"}
    BY <1>1 DEF Start, Connect, Acquire, Timeout, Finish, Unlock, Close, LoseSession, Goto, Is,
                Pending, Connected, ChainInv, TypeOK, Call
  <2>5. \A d \in Calls : /\ call'[d].process = call[d].process /\ call'[d].user = call[d].user
                         /\ call'[d].no = call[d].no /\ call'[d].before = call[d].before
    BY <2>3, <2>4
  <2> QED
    BY <2>1, <2>2, <2>3, <2>4, <2>5, StepKeepsOrder
<1>2. ASSUME NEW c \in Calls, Enter(c) PROVE Order'
  BY <1>2, EnterKeepsOrder
<1>3. ASSUME NEW c \in Calls, Forget(c) PROVE Order'
  BY <1>3, ForgetKeepsOrder
<1>4. ASSUME NEW p \in Processes, Crash(p) PROVE Order'
  BY <1>4, CrashKeepsOrder
<1>5. ASSUME UNCHANGED vars PROVE Order'
  BY <1>5 DEF vars, ChainInv, Numbered, TailIsLast, WorkHasTail, WaitsForLast, OverInOrder,
              InCallOrder, Alive, Over, Chained, Earlier, Is
<1>6. Order'
  BY <1>1, <1>2, <1>3, <1>4, <1>5 DEF Next, CallStep
<1> QED
  BY <1>t, <1>6 DEF ChainInv

\* A user's work in a process runs in the order of the calls, on Postgres and
\* on SQLite, behind failed calls, after crashes and whatever sessions are lost.
THEOREM CallOrderKept == Spec => []InCallOrder
<1>1. Init => ChainInv
  BY InitChainInv
<1>2. ChainInv /\ [Next]_vars => ChainInv'
  BY NextChainInv
<1>3. ChainInv => InCallOrder
  BY DEF ChainInv
<1> QED
  BY <1>1, <1>2, <1>3, PTL DEF Spec

\* chains keeps no entry of a call that is over.
THEOREM ChainsStaySmall == Spec => []NoLeftoverChain
<1>1. Init => ChainInv
  BY InitChainInv
<1>2. ChainInv /\ [Next]_vars => ChainInv'
  BY NextChainInv
<1>3. ChainInv => NoLeftoverChain
  BY DEF ChainInv, TypeOK, TailIsLast, NoLeftoverChain
<1> QED
  BY <1>1, <1>2, <1>3, PTL DEF Spec

LEMMA ChainedExclusion == ~Distributed /\ ChainInv => MutualExclusion
<1> SUFFICES ASSUME ~Distributed, ChainInv, NEW c \in Calls, NEW d \in Calls, Is(c, "running"),
                    Is(d, "running"), call[c].user = call[d].user, c # d
             PROVE  FALSE
  BY DEF MutualExclusion
<1>1. call[c].process = call[d].process
  BY LockAssumption DEF ChainInv, TypeOK, Call
<1>2. call[c].no \in Nat /\ call[d].no \in Nat /\ call[c].no # call[d].no
  BY DEF ChainInv, TypeOK, Call, Numbered, Is
<1>3. Alive(c) /\ Alive(d) /\ ~Is(c, "waiting") /\ ~Is(d, "waiting")
  BY DEF Alive, Is, Pending, Connected
<1>4. call[c].no < call[d].no \/ call[d].no < call[c].no
  BY <1>2
<1> QED
  BY <1>1, <1>3, <1>4 DEF ChainInv, InCallOrder, Alive

\* On SQLite, with one process, the chains alone keep a user's writes apart.
THEOREM ChainsSuffice ==
  ASSUME ~Distributed
  PROVE  Spec => []MutualExclusion
<1>1. Init => ChainInv
  BY InitChainInv
<1>2. ChainInv /\ [Next]_vars => ChainInv'
  BY NextChainInv
<1>3. ChainInv => MutualExclusion
  BY ChainedExclusion
<1> QED
  BY <1>1, <1>2, <1>3, PTL DEF Spec

\* On either database, two scheduling writes of a user overlap only when the
\* lock session of one of them was cut off while it worked.
THEOREM OneWriteAtATime == Spec => []ExclusiveSessions
<1>1. CASE Distributed
  <2>1. LockInv => ExclusiveSessions
    BY <1>1, NoCallAssumption
    DEF LockInv, HoldsItsLock, ExclusiveSessions, Holding, Is, Key, Working
  <2>2. Spec => []LockInv
    BY <1>1, AlwaysLocked
  <2> QED
    BY <2>1, <2>2, PTL
<1>2. CASE ~Distributed
  <2>1. MutualExclusion => ExclusiveSessions
    BY DEF MutualExclusion, ExclusiveSessions
  <2>2. Spec => []MutualExclusion
    BY <1>2, ChainsSuffice
  <2> QED
    BY <2>1, <2>2, PTL
<1> QED
  BY <1>1, <1>2

\* On Postgres, as long as no living process loses a lock connection, one
\* scheduling write runs at a time for a user: in one process or in several,
\* whatever processes die, unlocks fail and lock names share a key.
THEOREM NoOverlapWithoutDrops ==
  ASSUME Distributed, MaxDrops = 0
  PROVE  Spec => []MutualExclusion
<1>1. LockInv => MutualExclusion
  <2> SUFFICES ASSUME LockInv PROVE MutualExclusion
    OBVIOUS
  <2>1. spent.drops = 0
    BY DEF LockInv, TypeOK, SessionsUp
  <2> QED
    BY <2>1 DEF LockInv, HoldsItsLock, SessionsUp, MutualExclusion, Holding, Is, Key, Working,
                Connected
<1> QED
  BY <1>1, AlwaysLocked, PTL

=============================================================================
