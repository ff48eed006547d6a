-------------------------- MODULE TaskCreateProofs --------------------------
(***************************************************************************)
(* Proofs about TaskCreate, for every set of requests, slots and contents  *)
(* and every bound on openings, lapsed keys and losses.                    *)
(***************************************************************************)
EXTENDS TaskCreate, TLAPS

-----------------------------------------------------------------------------

LEMMA InitTypeOK == Init => TypeOK
<1> SUFFICES ASSUME Init PROVE TypeOK
  OBVIOUS
<1>1. Unsent \in Request
  BY DEF Unsent, Request, Answers, Working
<1>2. \A s \in Slots : [open |-> s \notin Forms, key |-> 1, sent |-> NoBody, last |-> NoRequest] \in Slot
  BY DEF Slot
<1>3. NoWipe \in WipeState
  BY DEF NoWipe, WipeState
<1> QED
  BY <1>1, <1>2, <1>3 DEF Init, TypeOK

\* The updates the actions make of a request and of a slot.
LEMMA RequestUpdates ==
  \A x \in Request :
    /\ \A pc \in Working \cup {"done", "dead"} : [x EXCEPT !.pc = pc] \in Request
    /\ \A a \in Answers, q \in Requests \cup {NoRequest} :
         [x EXCEPT !.pc = "done", !.answer = a, !.task = q] \in Request
    /\ \A a \in Answers : [x EXCEPT !.pc = "done", !.answer = a] \in Request
    /\ \A h \in {"ok", "gone", "failed"} : [x EXCEPT !.heard = h] \in Request
<1> SUFFICES ASSUME NEW x \in Request
             PROVE  /\ \A pc \in Working \cup {"done", "dead"} : [x EXCEPT !.pc = pc] \in Request
                    /\ \A a \in Answers, q \in Requests \cup {NoRequest} :
                         [x EXCEPT !.pc = "done", !.answer = a, !.task = q] \in Request
                    /\ \A a \in Answers : [x EXCEPT !.pc = "done", !.answer = a] \in Request
                    /\ \A h \in {"ok", "gone", "failed"} : [x EXCEPT !.heard = h] \in Request
  OBVIOUS
<1>1. \A pc \in Working \cup {"done", "dead"} : [x EXCEPT !.pc = pc] \in Request
  BY DEF Request
<1>2. \A a \in Answers, q \in Requests \cup {NoRequest} :
        [x EXCEPT !.pc = "done", !.answer = a, !.task = q] \in Request
  BY DEF Request
<1>3. \A a \in Answers : [x EXCEPT !.pc = "done", !.answer = a] \in Request
  BY DEF Request
<1>4. \A h \in {"ok", "gone", "failed"} : [x EXCEPT !.heard = h] \in Request
  BY DEF Request
<1> QED
  BY <1>1, <1>2, <1>3, <1>4

LEMMA SlotUpdates ==
  ASSUME TypeOK, NEW s \in Slots
  PROVE  /\ Fresh(s) \in Slot
         /\ [Fresh(s) EXCEPT !.open = TRUE, !.last = NoRequest] \in Slot
         /\ [slot[s] EXCEPT !.open = FALSE] \in Slot
         /\ \A b \in Bodies, r \in Requests :
              [slot[s] EXCEPT !.key = KeyFor(s, b), !.sent = b, !.last = r] \in Slot
<1>1. slot[s] \in Slot
  BY DEF TypeOK
<1>2. Fresh(s) \in Slot
  <2>1. slot[s].key + 1 \in Nat
    BY <1>1 DEF Slot
  <2> QED
    BY <1>1, <2>1 DEF Fresh, Slot
<1>3. [Fresh(s) EXCEPT !.open = TRUE, !.last = NoRequest] \in Slot
  BY <1>2 DEF Slot
<1>4. [slot[s] EXCEPT !.open = FALSE] \in Slot
  BY <1>1 DEF Slot
<1>5. ASSUME NEW b \in Bodies, NEW r \in Requests
      PROVE  [slot[s] EXCEPT !.key = KeyFor(s, b), !.sent = b, !.last = r] \in Slot
  <2>1. KeyFor(s, b) \in Nat
    BY <1>1 DEF KeyFor, Slot
  <2> QED
    BY <1>1, <2>1 DEF Slot
<1> QED
  BY <1>2, <1>3, <1>4, <1>5

\* What a look for a key does to the request that looks.
LEMMA ReplayCases ==
  ASSUME NEW r \in Requests, NEW from, NEW to, Replay(r, from, to)
  PROVE  /\ records' = records \ lapsed
         /\ UNCHANGED <<slot, tasks, lapsed, made, account, wipe, spent>>
         /\ lock' \in {lock, NoRequest}
         /\ \/ request' = [request EXCEPT ![r].pc = to]
            \/ \E q \in Named(r) :
                 request' = [request EXCEPT ![r].pc = "done", ![r].answer = Verdict(r, q),
                               ![r].task = IF Verdict(r, q) = "task" THEN q ELSE NoRequest]
BY DEF Replay, Unlocked

\* A step of the transaction that deletes the account.
Wiping == WipeRecords \/ WipeTasks \/ WipeUser \/ WipeFails

LEMMA NextTypeOK == TypeOK /\ [Next]_vars => TypeOK'
<1> SUFFICES ASSUME TypeOK, [Next]_vars PROVE TypeOK'
  OBVIOUS
<1> USE DEF TypeOK
<1>v. \A r \in Requests : \A q : Verdict(r, q) \in Answers
  BY DEF Verdict, Answers
<1>n. \A r \in Requests : Named(r) \subseteq Requests
  BY DEF Named
<1>u. \A r \in Requests : Unlocked(r) \in Requests \cup {NoRequest}
  BY DEF Unlocked
<1>1. ASSUME NEW s \in Slots, Open(s) PROVE TypeOK'
  <2>1. [Fresh(s) EXCEPT !.open = TRUE, !.last = NoRequest] \in Slot
    BY SlotUpdates
  <2> QED
    BY <1>1, <2>1 DEF Open
<1>2. ASSUME NEW s \in Slots, NEW r \in Requests, NEW b \in Bodies, Send(s, r, b) PROVE TypeOK'
  <2>1. KeyFor(s, b) \in Nat
    BY DEF KeyFor, Slot
  <2>2. [Unsent EXCEPT !.pc = "sent", !.slot = s, !.body = b, !.key = KeyFor(s, b),
                       !.heard = "waiting"] \in Request
    BY <2>1 DEF Unsent, Request, Working, Answers
  <2>3. slot' \in [Slots -> Slot]
    BY <1>2, SlotUpdates DEF Send
  <2> QED
    BY <1>2, <2>2, <2>3 DEF Send
<1>3. ASSUME NEW r \in Requests, NEW from, NEW to \in Working, Replay(r, from, to) PROVE TypeOK'
  <2>1. request' \in [Requests -> Request]
    <3>1. CASE request' = [request EXCEPT ![r].pc = to]
      <4>1. [request[r] EXCEPT !.pc = to] \in Request
        BY RequestUpdates
      <4> QED
        BY <3>1, <4>1
    <3>2. CASE \E q \in Named(r) :
                 request' = [request EXCEPT ![r].pc = "done", ![r].answer = Verdict(r, q),
                               ![r].task = IF Verdict(r, q) = "task" THEN q ELSE NoRequest]
      <4>1. \A q \in Named(r) :
              [request[r] EXCEPT !.pc = "done", !.answer = Verdict(r, q),
                 !.task = IF Verdict(r, q) = "task" THEN q ELSE NoRequest] \in Request
        BY <1>v, <1>n, RequestUpdates
      <4> QED
        BY <3>2, <4>1
    <3> QED
      BY <1>3, <3>1, <3>2, ReplayCases
  <2> QED
    BY <1>3, <2>1, ReplayCases
<1>4. ASSUME NEW r \in Requests, Enter(r) PROVE TypeOK'
  <2>1. [request[r] EXCEPT !.pc = "inside"] \in Request
    BY RequestUpdates DEF Working
  <2> QED
    BY <1>4, <2>1 DEF Enter
<1>5. ASSUME NEW r \in Requests, Save(r) PROVE TypeOK'
  <2>1. /\ [request[r] EXCEPT !.pc = "done", !.answer = "task", !.task = r] \in Request
        /\ [request[r] EXCEPT !.pc = "again"] \in Request
        /\ [request[r] EXCEPT !.pc = "done", !.answer = "error"] \in Request
    BY RequestUpdates DEF Working, Answers
  <2>2. /\ slot' = slot /\ lapsed' = lapsed /\ account' = account /\ spent' = spent
        /\ lock' = Unlocked(r)
    BY <1>5 DEF Save
  <2>3. /\ tasks' \in {tasks, tasks \cup {r}} /\ records' \in {records, records \cup {r}}
        /\ made' \in {made, made \cup {r}}
    BY <1>5 DEF Save
  <2>4. \E q \in Request : request' = [request EXCEPT ![r] = q]
    BY <1>5, <2>1 DEF Save, Refuse
  <2>5. wipe' \in WipeState
    <3>1. wipe' \in {wipe, [wipe EXCEPT !.during = @ \cup {r}]}
      BY <1>5 DEF Save
    <3> QED
      BY <3>1 DEF WipeState
  <2> QED
    BY <1>u, <2>2, <2>3, <2>4, <2>5
<1>6. ASSUME NEW r \in Requests, AfterConflict(r) PROVE TypeOK'
  <2>1. [request[r] EXCEPT !.pc = "done", !.answer = "error"] \in Request
    BY RequestUpdates DEF Answers
  <2>2. \A q \in Named(r) :
          [request[r] EXCEPT !.pc = "done", !.answer = Verdict(r, q),
             !.task = IF Verdict(r, q) = "task" THEN q ELSE NoRequest] \in Request
    BY <1>v, <1>n, RequestUpdates
  <2> QED
    BY <1>6, <2>1, <2>2 DEF AfterConflict, Refuse
<1>7. ASSUME NEW r \in Requests, Hear(r) PROVE TypeOK'
  <2>1. request' \in [Requests -> Request]
    <3>1. \E h \in {"ok", "gone", "failed"} : request' = [request EXCEPT ![r].heard = h]
      BY <1>7 DEF Hear
    <3> QED
      <4>1. \A h \in {"ok", "gone", "failed"} : [request[r] EXCEPT !.heard = h] \in Request
        BY RequestUpdates
      <4> QED
        BY <3>1, <4>1
  <2>2. slot' \in [Slots -> Slot]
    <3> DEFINE s == request[r].slot
    <3>1. \/ slot' = [slot EXCEPT ![s] = [slot[s] EXCEPT !.open = FALSE]]
          \/ slot' = [slot EXCEPT ![s] = Fresh(s)]
          \/ slot' = [slot EXCEPT ![s] = slot[s]]
      BY <1>7 DEF Hear
    <3>2. CASE s \in Slots
      BY <3>1, <3>2, SlotUpdates
    <3>3. CASE s \notin Slots
      BY <3>1, <3>3
    <3> QED
      BY <3>2, <3>3
  <2> QED
    BY <1>7, <2>1, <2>2 DEF Hear
<1>8. ASSUME NEW r \in Requests, Unheard(r) \/ Die(r) PROVE TypeOK'
  <2>1. /\ [request[r] EXCEPT !.heard = "failed"] \in Request
        /\ [request[r] EXCEPT !.pc = "dead"] \in Request
    BY RequestUpdates
  <2> QED
    BY <1>8, <1>u, <2>1 DEF Unheard, Die
<1>9. ASSUME NEW q \in Requests, Remove(q) \/ Lapse(q) PROVE TypeOK'
  BY <1>9 DEF Remove, Lapse, KeyAfter
<1>10. CASE LoseLock
  BY <1>10 DEF LoseLock
<1>11. CASE Wiping
  <2>1. wipe' \in WipeState
    <3>1. CASE WipeRecords
      BY <3>1 DEF WipeRecords, NoWipe, WipeState
    <3>2. CASE WipeTasks
      BY <3>2 DEF WipeTasks, WipeState
    <3>3. CASE WipeUser
      BY <3>3 DEF WipeUser, NoWipe, WipeState
    <3>4. CASE WipeFails
      BY <3>4 DEF WipeFails, NoWipe, WipeState
    <3> QED
      BY <1>11, <3>1, <3>2, <3>3, <3>4 DEF Wiping
  <2>2. /\ tasks' \subseteq tasks /\ records' \subseteq records /\ account' \in {account, FALSE}
        /\ UNCHANGED <<slot, request, lapsed, made, lock, spent>>
    BY <1>11 DEF Wiping, WipeRecords, WipeTasks, WipeUser, WipeFails
  <2> QED
    BY <2>1, <2>2
<1>12. CASE UNCHANGED vars
  BY <1>12 DEF vars
<1> QED
  BY <1>1, <1>2, <1>3, <1>4, <1>5, <1>6, <1>7, <1>8, <1>9, <1>10, <1>11, <1>12
  DEF Next, Wiping, Look, LookAgain, Working

-----------------------------------------------------------------------------
(* Keys.  A key of a slot was only ever sent with one content, and the next *)
(* key of the slot was never sent.                                          *)

Sent(r) == ~Is(r, "unsent")

KeysInv ==
    /\ \A r \in Requests : ~Sent(r) => request[r].answer = "none" /\ request[r].heard = "none"
    /\ \A r \in Requests : Sent(r) =>
         /\ request[r].slot \in Slots /\ request[r].body \in Bodies
         /\ request[r].key <= slot[request[r].slot].key
         /\ request[r].key = slot[request[r].slot].key => slot[request[r].slot].sent = request[r].body
    /\ \A q, r \in Requests : Sent(q) /\ Sent(r) /\ SameKey(q, r) => SameBody(q, r)

\* A step that sends nothing: what was sent stays as it is, and a slot keeps its
\* key or takes the next one.
Kept ==
    \A q \in Requests :
      /\ request'[q].slot = request[q].slot
      /\ request'[q].key = request[q].key
      /\ request'[q].body = request[q].body
      /\ request'[q].pc = "unsent" <=> request[q].pc = "unsent"
      /\ request[q].pc = "unsent" => request'[q] = request[q]
SlotKept ==
    \A s \in Slots :
      \/ slot'[s].key = slot[s].key /\ slot'[s].sent = slot[s].sent
      \/ slot'[s].key = slot[s].key + 1

\* A request that was sent changes, but not in what names it.
LEMMA KeptBy ==
  ASSUME TypeOK, NEW r \in Requests, request[r].pc # "unsent",
         \/ \E h : request' = [request EXCEPT ![r].heard = h]
         \/ \E y \in Working \cup {"done", "dead"} : \E a, t :
              \/ request' = [request EXCEPT ![r].pc = y]
              \/ request' = [request EXCEPT ![r].pc = y, ![r].answer = a]
              \/ request' = [request EXCEPT ![r].pc = y, ![r].answer = a, ![r].task = t]
  PROVE  Kept
<1> DEFINE x == request[r]
<1>0. request \in [Requests -> Request] /\ x \in Request
  BY DEF TypeOK
<1>1. \A q \in Requests : q # r => request'[q] = request[q]
  BY <1>0
<1>2. /\ request'[r].slot = x.slot /\ request'[r].key = x.key /\ request'[r].body = x.body
      /\ request'[r].pc # "unsent"
  <2>1. CASE \E h : request' = [request EXCEPT ![r].heard = h]
    <3>1. PICK h : request' = [request EXCEPT ![r].heard = h]
      BY <2>1
    <3>2. request'[r] = [x EXCEPT !.heard = h]
      BY <1>0, <3>1
    <3> QED
      BY <1>0, <3>2 DEF Request
  <2>2. CASE \E y \in Working \cup {"done", "dead"} : \E a, t :
               \/ request' = [request EXCEPT ![r].pc = y]
               \/ request' = [request EXCEPT ![r].pc = y, ![r].answer = a]
               \/ request' = [request EXCEPT ![r].pc = y, ![r].answer = a, ![r].task = t]
    <3>0. PICK y \in Working \cup {"done", "dead"} : \E a, t :
               \/ request' = [request EXCEPT ![r].pc = y]
               \/ request' = [request EXCEPT ![r].pc = y, ![r].answer = a]
               \/ request' = [request EXCEPT ![r].pc = y, ![r].answer = a, ![r].task = t]
      BY <2>2
    <3>1. PICK a, t :
               \/ request' = [request EXCEPT ![r].pc = y]
               \/ request' = [request EXCEPT ![r].pc = y, ![r].answer = a]
               \/ request' = [request EXCEPT ![r].pc = y, ![r].answer = a, ![r].task = t]
      BY <3>0
    <3>2. \/ request'[r] = [x EXCEPT !.pc = y]
          \/ request'[r] = [x EXCEPT !.pc = y, !.answer = a]
          \/ request'[r] = [x EXCEPT !.pc = y, !.answer = a, !.task = t]
      BY <1>0, <3>1
    <3> QED
      BY <1>0, <3>2 DEF Request, Working
  <2> QED
    BY <2>1, <2>2
<1>3. \A q \in Requests :
        /\ request'[q].slot = request[q].slot /\ request'[q].key = request[q].key
        /\ request'[q].body = request[q].body
        /\ request'[q].pc = "unsent" <=> request[q].pc = "unsent"
        /\ request[q].pc = "unsent" => request'[q] = request[q]
  <2>1. request[r].pc # "unsent"
    OBVIOUS
  <2> QED
    BY ONLY <1>1, <1>2, <2>1
<1> QED
  BY ONLY <1>3 DEF Kept

\* Every step but a send.
Other ==
    \/ \E s \in Slots : Open(s)
    \/ \E r \in Requests : Look(r) \/ Enter(r) \/ LookAgain(r) \/ Save(r) \/ AfterConflict(r)
                            \/ Hear(r) \/ Unheard(r) \/ Remove(r) \/ Lapse(r) \/ Die(r)
    \/ LoseLock
    \/ Wiping
    \/ UNCHANGED vars

LEMMA SendOrOther ==
  [Next]_vars <=> Other \/ \E s \in Slots, r \in Requests, b \in Bodies : Send(s, r, b)
BY DEF Next, Other, Wiping

\* Every step but a send keeps what was sent.
LEMMA OtherKept ==
  ASSUME TypeOK, KeysInv, Other
  PROVE  Kept /\ SlotKept
<1>s. slot' = slot => SlotKept
  BY DEF SlotKept
<1>r. request' = request => Kept
  BY DEF Kept
<1>t. slot \in [Slots -> Slot]
  BY DEF TypeOK
<1>f. ASSUME NEW s, \/ slot' = [slot EXCEPT ![s] = [slot[s] EXCEPT !.open = FALSE]]
                    \/ slot' = [slot EXCEPT ![s] = Fresh(s)]
                    \/ slot' = [slot EXCEPT ![s] = [Fresh(s) EXCEPT !.open = TRUE, !.last = NoRequest]]
                    \/ slot' = [slot EXCEPT ![s] = slot[s]]
      PROVE  SlotKept
  <2>1. \A u \in Slots : u # s => slot'[u] = slot[u]
    BY <1>f, <1>t
  <2>2. s \in Slots => \/ slot'[s] = [slot[s] EXCEPT !.open = FALSE]
                       \/ slot'[s] = Fresh(s)
                       \/ slot'[s] = [Fresh(s) EXCEPT !.open = TRUE, !.last = NoRequest]
                       \/ slot'[s] = slot[s]
    BY <1>f, <1>t
  <2>3. s \in Slots => slot[s] \in Slot
    BY <1>t
  <2>4. s \in Slots => \/ slot'[s].key = slot[s].key /\ slot'[s].sent = slot[s].sent
                       \/ slot'[s].key = slot[s].key + 1
    BY <2>2, <2>3 DEF Fresh, Slot
  <2> QED
    BY <2>1, <2>4 DEF SlotKept
<1>1. ASSUME NEW s \in Slots, Open(s) PROVE Kept /\ SlotKept
  BY <1>1, <1>f, <1>r DEF Open
<1>2. ASSUME NEW r \in Requests, NEW from \in Working, NEW to \in Working, Replay(r, from, to)
      PROVE  Kept /\ SlotKept
  <2>1. request[r].pc # "unsent" /\ slot' = slot
    BY <1>2 DEF Replay, Is, Working
  <2>2. \E y \in {"done", to} : \E a, t :
          \/ request' = [request EXCEPT ![r].pc = y]
          \/ request' = [request EXCEPT ![r].pc = y, ![r].answer = a, ![r].task = t]
    BY <1>2 DEF Replay
  <2>3. {"done", to} \subseteq Working \cup {"done", "dead"}
    OBVIOUS
  <2>4. Kept
    BY <2>1, <2>2, <2>3, KeptBy
  <2> QED
    BY <2>1, <2>4, <1>s
<1>3. ASSUME NEW r \in Requests, Enter(r) \/ Save(r) \/ AfterConflict(r) \/ Die(r) PROVE Kept /\ SlotKept
  <2>1. request[r].pc # "unsent" /\ slot' = slot
    BY <1>3 DEF Enter, Save, AfterConflict, Die, Is, Working
  <2>2. \E y \in {"done", "inside", "again", "dead"} : \E a, t :
          \/ request' = [request EXCEPT ![r].pc = y]
          \/ request' = [request EXCEPT ![r].pc = y, ![r].answer = a]
          \/ request' = [request EXCEPT ![r].pc = y, ![r].answer = a, ![r].task = t]
    <3>1. ASSUME Enter(r) \/ Die(r) PROVE \E y \in {"inside", "dead"} : request' = [request EXCEPT ![r].pc = y]
      BY <3>1 DEF Enter, Die
    <3>2. ASSUME Save(r) PROVE \/ request' = [request EXCEPT ![r].pc = "again"]
                               \/ request' = [request EXCEPT ![r].pc = "done", ![r].answer = "error"]
                               \/ request' = [request EXCEPT ![r].pc = "done", ![r].answer = "task", ![r].task = r]
      BY <3>2 DEF Save, Refuse
    <3>3. ASSUME AfterConflict(r)
          PROVE  \/ request' = [request EXCEPT ![r].pc = "done", ![r].answer = "error"]
                 \/ \E a, t : request' = [request EXCEPT ![r].pc = "done", ![r].answer = a, ![r].task = t]
      BY <3>3 DEF AfterConflict, Refuse
    <3> QED
      BY <1>3, <3>1, <3>2, <3>3
  <2> QED
    BY <2>1, <2>2, <1>s, KeptBy DEF Working
<1>4. ASSUME NEW r \in Requests, Hear(r) PROVE Kept /\ SlotKept
  <2>1. request[r].pc # "unsent" /\ \E h : request' = [request EXCEPT ![r].heard = h]
    BY <1>4 DEF Hear, Is
  <2>2. Kept
    <3>1. r \in Requests
      OBVIOUS
    <3> QED
      BY <2>1, <3>1, KeptBy
  <2>3. \/ slot' = [slot EXCEPT ![request[r].slot] = [slot[request[r].slot] EXCEPT !.open = FALSE]]
        \/ slot' = [slot EXCEPT ![request[r].slot] = Fresh(request[r].slot)]
        \/ slot' = [slot EXCEPT ![request[r].slot] = slot[request[r].slot]]
    BY <1>4 DEF Hear
  <2> QED
    BY <2>2, <2>3, <1>f
<1>5. ASSUME NEW r \in Requests, Unheard(r) PROVE Kept /\ SlotKept
  <2>1. request[r].pc # "unsent"
    BY <1>5 DEF Unheard, KeysInv, Sent, Is
  <2>2. \E h : request' = [request EXCEPT ![r].heard = h]
    BY <1>5 DEF Unheard
  <2> QED
    BY <1>5, <2>1, <2>2, <1>s, KeptBy DEF Unheard
<1>6. ASSUME NEW r \in Requests, Remove(r) \/ Lapse(r) PROVE Kept /\ SlotKept
  BY <1>6, <1>s, <1>r DEF Remove, Lapse
<1>7. CASE LoseLock \/ Wiping \/ UNCHANGED vars
  BY <1>7, <1>s, <1>r DEF LoseLock, Wiping, WipeRecords, WipeTasks, WipeUser, WipeFails, vars
<1> QED
  BY <1>1, <1>2, <1>3, <1>4, <1>5, <1>6, <1>7 DEF Other, Look, LookAgain, Working

\* The step of a send.
LEMMA SendEffect ==
  ASSUME TypeOK, NEW s \in Slots, NEW r \in Requests, NEW b \in Bodies, Send(s, r, b)
  PROVE  /\ ~Sent(r) /\ request'[r].pc = "sent"
         /\ request'[r].slot = s /\ request'[r].body = b /\ request'[r].key = slot'[s].key
         /\ request'[r].answer = "none" /\ request'[r].heard = "waiting"
         /\ slot'[s].sent = b /\ slot'[s].last = r
         /\ \/ slot'[s].key = slot[s].key /\ slot[s].sent \in {NoBody, b}
            \/ slot'[s].key = slot[s].key + 1
         /\ \A q \in Requests : q # r => request'[q] = request[q]
         /\ \A u \in Slots : u # s => slot'[u] = slot[u]
         /\ UNCHANGED <<tasks, records, lapsed, made, lock, account, wipe>>
<1>1. /\ slot \in [Slots -> Slot] /\ slot[s] \in Slot
      /\ request \in [Requests -> Request]
  BY DEF TypeOK
<1>2. slot'[s] = [slot[s] EXCEPT !.key = KeyFor(s, b), !.sent = b, !.last = r]
  BY <1>1 DEF Send
<1>3. /\ slot'[s].key = KeyFor(s, b) /\ slot'[s].sent = b /\ slot'[s].last = r
  BY <1>1, <1>2 DEF Slot
<1>4. request'[r] = [Unsent EXCEPT !.pc = "sent", !.slot = s, !.body = b,
                                   !.key = KeyFor(s, b), !.heard = "waiting"]
  BY <1>1 DEF Send
<1>5. /\ request'[r].slot = s /\ request'[r].body = b /\ request'[r].key = KeyFor(s, b)
      /\ request'[r].answer = "none" /\ request'[r].heard = "waiting" /\ request'[r].pc = "sent"
  BY <1>4 DEF Unsent
<1>6. \/ KeyFor(s, b) = slot[s].key /\ slot[s].sent \in {NoBody, b}
      \/ KeyFor(s, b) = slot[s].key + 1
  BY DEF KeyFor
<1>7. /\ \A q \in Requests : q # r => request'[q] = request[q]
      /\ \A u \in Slots : u # s => slot'[u] = slot[u]
  BY <1>1 DEF Send
<1> QED
  BY <1>3, <1>5, <1>6, <1>7 DEF Send, Sent, Is

\* Every step keeps the keys of the slots apart.
LEMMA NextKeysInv ==
  ASSUME TypeOK, KeysInv, [Next]_vars
  PROVE  KeysInv'
<1>t. /\ \A q \in Requests : request[q].key \in Nat /\ request[q].body \in Bodies \cup {NoBody}
      /\ \A s \in Slots : slot[s].key \in Nat /\ slot[s].sent \in Bodies \cup {NoBody}
  BY DEF TypeOK, Request, Slot
<1>1. ASSUME NEW s \in Slots, NEW r \in Requests, NEW b \in Bodies, Send(s, r, b) PROVE KeysInv'
  <2>1. /\ ~Sent(r) /\ request'[r].pc = "sent"
        /\ request'[r].slot = s /\ request'[r].body = b /\ request'[r].key = slot'[s].key
        /\ slot'[s].sent = b
        /\ \/ slot'[s].key = slot[s].key /\ slot[s].sent \in {NoBody, b}
           \/ slot'[s].key = slot[s].key + 1
        /\ \A q \in Requests : q # r => request'[q] = request[q]
        /\ \A u \in Slots : u # s => slot'[u] = slot[u]
    BY <1>1, SendEffect
  <2>2. \A q \in Requests : Sent(q) /\ request[q].slot = s =>
          /\ request[q].key <= slot'[s].key
          /\ request[q].key = slot'[s].key => request[q].body = b
    BY <2>1, <1>t, NoBodyAssumption DEF KeysInv
  <2>3. \A q \in Requests : q # r => (Sent(q)' <=> Sent(q))
    BY <2>1 DEF Sent, Is
  <2>4. \A q \in Requests : ~Sent(q)' => request'[q].answer = "none" /\ request'[q].heard = "none"
    BY <2>1, <2>3 DEF KeysInv, Sent, Is
  <2>5. \A q \in Requests : Sent(q)' =>
          /\ request'[q].slot \in Slots /\ request'[q].body \in Bodies
          /\ request'[q].key <= slot'[request'[q].slot].key
          /\ request'[q].key = slot'[request'[q].slot].key =>
               slot'[request'[q].slot].sent = request'[q].body
    <3> SUFFICES ASSUME NEW q \in Requests, Sent(q)'
                 PROVE  /\ request'[q].slot \in Slots /\ request'[q].body \in Bodies
                        /\ request'[q].key <= slot'[request'[q].slot].key
                        /\ request'[q].key = slot'[request'[q].slot].key =>
                             slot'[request'[q].slot].sent = request'[q].body
      OBVIOUS
    <3>1. CASE q = r
      <4>1. slot'[s].key \in Nat
        BY <2>1, <1>t
      <4> QED
        BY <3>1, <4>1, <2>1
    <3>2. CASE q # r /\ request[q].slot = s
      BY <3>2, <2>1, <2>2, <2>3 DEF KeysInv
    <3>3. CASE q # r /\ request[q].slot # s
      BY <3>3, <2>1, <2>3 DEF KeysInv
    <3> QED
      BY <3>1, <3>2, <3>3
  <2>6. \A p, q \in Requests : Sent(p)' /\ Sent(q)' /\ SameKey(p, q)' => SameBody(p, q)'
    BY <2>1, <2>2, <2>3 DEF KeysInv, SameKey, SameBody
  <2> QED
    BY <2>4, <2>5, <2>6 DEF KeysInv
<1>2. CASE Kept /\ SlotKept
  <2>1. \A q \in Requests : /\ Sent(q)' <=> Sent(q)
                            /\ request'[q].slot = request[q].slot
                            /\ request'[q].key = request[q].key
                            /\ request'[q].body = request[q].body
                            /\ ~Sent(q) => request'[q] = request[q]
    BY <1>2 DEF Kept, Sent, Is
  <2>2. \A q \in Requests : Sent(q) =>
          /\ request[q].slot \in Slots /\ request[q].body \in Bodies
          /\ request[q].key <= slot'[request[q].slot].key
          /\ request[q].key = slot'[request[q].slot].key => slot'[request[q].slot].sent = request[q].body
    BY <1>2, <1>t DEF KeysInv, SlotKept
  <2> QED
    BY <2>1, <2>2 DEF KeysInv, SameKey, SameBody
<1> QED
  BY <1>1, <1>2, SendOrOther, OtherKept

-----------------------------------------------------------------------------
(* The store.  A record goes with every task ever made until it lapses, and *)
(* no two records have one key.  While the account is being deleted, every  *)
(* record is one the deletion found or of a create that committed since.    *)

WipeInv ==
    /\ wipe.at # "none" => account /\ records \subseteq wipe.records \cup wipe.during
    /\ WipedStaysEmpty

StoreInv ==
    /\ \A r \in made : Is(r, "done")
    /\ tasks \subseteq made /\ records \subseteq made
    /\ \A q, r \in records : SameKey(q, r) => q = r
    /\ account => made \subseteq records \cup lapsed
    /\ WipeInv
    /\ AnswerIsOwn
    /\ NeverRefused
    /\ OneTaskPerKey

\* A record found under a request's key answers with a task of its own, or with
\* no task.
LEMMA Found ==
  ASSUME TypeOK, KeysInv, StoreInv, NEW r \in Requests, Sent(r), NEW q \in Named(r)
  PROVE  /\ q \in made /\ SameKey(q, r) /\ SameBody(q, r)
         /\ Verdict(r, q) \in {"task", "gone"}
<1>1. q \in records /\ q \in made /\ SameKey(q, r) /\ q \in Requests
  BY DEF Named, StoreInv, TypeOK
<1>2. Sent(q)
  BY <1>1 DEF StoreInv, Sent, Is
<1>3. SameBody(q, r)
  BY <1>1, <1>2 DEF KeysInv
<1> QED
  BY <1>1, <1>3 DEF Verdict

\* A step that answers no request: its answers stay true while made grows.
LEMMA AnswersKept ==
  ASSUME TypeOK, StoreInv, Kept, made \subseteq made', made' \subseteq Requests,
         NEW X \in SUBSET Requests,
         \A r \in Requests \ X : request'[r].answer = request[r].answer /\ request'[r].task = request[r].task,
         \A r \in X : /\ request'[r].answer \in {"task", "gone", "error"}
                      /\ request'[r].answer = "task" =>
                           /\ request'[r].task \in made'
                           /\ SameKey(request'[r].task, r)
                           /\ SameBody(request'[r].task, r)
  PROVE  AnswerIsOwn' /\ NeverRefused'
<1>1. \A q, r \in Requests : (SameKey(q, r) <=> SameKey(q, r)') /\ (SameBody(q, r) <=> SameBody(q, r)')
  BY DEF Kept, SameKey, SameBody
<1>2. NeverRefused'
  BY DEF StoreInv, NeverRefused
<1>3. ASSUME NEW r \in Requests, request'[r].answer = "task"
      PROVE  /\ request'[r].task \in made'
             /\ SameKey(request[r].task, r)' /\ SameBody(request[r].task, r)'
  <2>1. /\ request'[r].task \in made'
        /\ SameKey(request'[r].task, r) /\ SameBody(request'[r].task, r)
    BY <1>3 DEF StoreInv, AnswerIsOwn
  <2>2. \A q \in Requests : SameKey(q, r) => /\ request'[q].slot = request'[r].slot
                                           /\ request'[q].key = request'[r].key
    BY <1>1 DEF SameKey
  <2>3. \A q \in Requests : SameBody(q, r) => request'[q].body = request'[r].body
    BY <1>1 DEF SameBody
  <2> QED
    BY <2>1, <2>2, <2>3 DEF SameKey, SameBody
<1> QED
  BY <1>2, <1>3 DEF AnswerIsOwn

\* A step that makes no task and answers no request, or answers some rightly,
\* and takes from the store only lapsed records, or what goes with the user.
LEMMA StoreKept ==
  ASSUME TypeOK, StoreInv, Kept, made' = made, lapsed \subseteq lapsed',
         tasks' \subseteq tasks, records' \subseteq records,
         account' => account /\ records \subseteq records' \cup lapsed',
         UNCHANGED <<account, wipe>> \/ WipeInv',
         \A r \in made : request'[r].pc = "done",
         AnswerIsOwn', NeverRefused'
  PROVE  StoreInv'
<1>1. \A q, r \in Requests : SameKey(q, r)' <=> SameKey(q, r)
  BY DEF Kept, SameKey
<1>2. \A q, r \in records' : SameKey(q, r)' => q = r
  BY <1>1 DEF StoreInv, TypeOK
<1>3. OneTaskPerKey'
  BY <1>1 DEF StoreInv, OneTaskPerKey, TypeOK
<1>4. account' => made' \subseteq records' \cup lapsed'
  BY DEF StoreInv
<1>5. WipeInv'
  BY DEF StoreInv, WipeInv, WipedStaysEmpty
<1> QED
  BY <1>2, <1>3, <1>4, <1>5 DEF StoreInv, Is

LEMMA NextStoreInv ==
  ASSUME TypeOK, KeysInv, StoreInv, [Next]_vars
  PROVE  StoreInv'
<1>t. /\ request \in [Requests -> Request]
      /\ tasks \subseteq Requests /\ records \subseteq Requests
      /\ lapsed \subseteq Requests /\ made \subseteq Requests
  BY DEF TypeOK
<1>d. \A r \in made : request[r].pc = "done"
  BY DEF StoreInv, Is
<1>a. ASSUME Kept, made' = made, \A r \in Requests : request'[r].answer = request[r].answer
                                                /\ request'[r].task = request[r].task
      PROVE  AnswerIsOwn' /\ NeverRefused'
  <2>1. {} \in SUBSET Requests
    OBVIOUS
  <2> QED
    BY <1>a, <1>t, <2>1, AnswersKept
<1>1. ASSUME NEW s \in Slots, NEW r \in Requests, NEW b \in Bodies, Send(s, r, b) PROVE StoreInv'
  <2>1. /\ ~Sent(r) /\ request'[r].answer = "none"
        /\ \A q \in Requests : q # r => request'[q] = request[q]
        /\ UNCHANGED <<tasks, records, lapsed, made, lock, account, wipe>>
    BY <1>1, SendEffect
  <2>2. r \notin made
    BY <2>1, <1>d DEF Sent, Is
  <2>3. \A q \in made : q \in Requests /\ request'[q] = request[q]
    BY <2>1, <2>2, <1>t
  <2>4. \A p, q \in made : SameKey(p, q)' <=> SameKey(p, q)
    BY <2>3 DEF SameKey
  <2>5. AnswerIsOwn'
    <3> SUFFICES ASSUME NEW x \in Requests, request'[x].answer = "task"
                 PROVE  /\ request'[x].task \in made'
                        /\ SameKey(request[x].task, x)' /\ SameBody(request[x].task, x)'
      BY DEF AnswerIsOwn
    <3>1. x # r /\ request'[x] = request[x]
      BY <2>1
    <3>2. /\ request[x].task \in made /\ SameKey(request[x].task, x) /\ SameBody(request[x].task, x)
      BY <3>1 DEF StoreInv, AnswerIsOwn
    <3> QED
      BY <3>1, <3>2, <2>1, <2>3 DEF SameKey, SameBody
  <2>6. NeverRefused'
    BY <2>1 DEF StoreInv, NeverRefused
  <2>7. \A p, q \in records' : SameKey(p, q)' => p = q
    BY <2>1, <2>4 DEF StoreInv
  <2>8. OneTaskPerKey'
    BY <2>1, <2>4 DEF StoreInv, OneTaskPerKey
  <2>9. \A q \in made' : Is(q, "done")'
    BY <2>1, <2>3, <1>d DEF Is
  <2> QED
    BY <2>1, <2>5, <2>6, <2>7, <2>8, <2>9 DEF StoreInv, WipeInv, WipedStaysEmpty
<1>2. ASSUME Other, UNCHANGED <<request, tasks, records, lapsed, made, account, wipe>> PROVE StoreInv'
  <2>1. Kept
    BY <1>2, OtherKept
  <2>2. AnswerIsOwn' /\ NeverRefused'
    BY <1>2, <2>1, <1>a
  <2> QED
    BY <1>2, <2>1, <2>2, <1>d, StoreKept DEF StoreInv
<1>3. ASSUME NEW r \in Requests, NEW from \in Working, NEW to \in Working, Replay(r, from, to), Kept
      PROVE  StoreInv'
  <2>1. /\ records' = records \ lapsed /\ request[r].pc = from /\ from # "done"
        /\ UNCHANGED <<tasks, lapsed, made, account, wipe>>
    BY <1>3 DEF Replay, Is, Working
  <2>2. \A q \in Requests : q # r => request'[q] = request[q]
    BY <1>3, <1>t DEF Replay
  <2>3. Sent(r)
    BY <2>1 DEF Sent, Is, Working
  <2>4. AnswerIsOwn' /\ NeverRefused'
    <3>1. CASE request' = [request EXCEPT ![r].pc = to]
      <4>1. \A q \in Requests : request'[q].answer = request[q].answer /\ request'[q].task = request[q].task
        <5>1. request[r] \in Request /\ request'[r] = [request[r] EXCEPT !.pc = to]
          BY <3>1, <1>t
        <5> QED
          BY <5>1, <2>2 DEF Request
      <4> QED
        BY <4>1, <2>1, <1>3, <1>a
    <3>2. ASSUME NEW q \in Named(r),
                 request' = [request EXCEPT ![r].pc = "done", ![r].answer = Verdict(r, q),
                               ![r].task = IF Verdict(r, q) = "task" THEN q ELSE NoRequest]
          PROVE  AnswerIsOwn' /\ NeverRefused'
      <4>1. /\ q \in made /\ SameKey(q, r) /\ SameBody(q, r) /\ Verdict(r, q) \in {"task", "gone"}
        BY <2>3, Found
      <4>2. /\ request[r] \in Request
            /\ request'[r] = [request[r] EXCEPT !.pc = "done", !.answer = Verdict(r, q),
                                !.task = IF Verdict(r, q) = "task" THEN q ELSE NoRequest]
        BY <3>2, <1>t
      <4>3. request'[r].answer = Verdict(r, q) /\ (Verdict(r, q) = "task" => request'[r].task = q)
        BY <4>2 DEF Request
      <4>4. {r} \in SUBSET Requests
        OBVIOUS
      <4> QED
        BY <4>1, <4>3, <4>4, <2>1, <2>2, <1>3, <1>t, AnswersKept
    <3> QED
      BY <3>1, <3>2, <1>3, ReplayCases
  <2>5. \A q \in made : request'[q].pc = "done"
    BY <2>1, <2>2, <1>d, <1>t
  <2> QED
    BY <2>1, <2>4, <2>5, <1>3, StoreKept DEF StoreInv
<1>4. ASSUME NEW r \in Requests, Enter(r) \/ Die(r), Kept PROVE StoreInv'
  <2>1. /\ request[r].pc # "done"
        /\ \E y : request' = [request EXCEPT ![r].pc = y]
        /\ UNCHANGED <<tasks, records, lapsed, made, account, wipe>>
    BY <1>4 DEF Enter, Die, Is, Working
  <2>2. PICK y : request' = [request EXCEPT ![r].pc = y]
    BY <2>1
  <2>3. /\ request[r] \in Request /\ request'[r] = [request[r] EXCEPT !.pc = y]
        /\ \A q \in Requests : q # r => request'[q] = request[q]
    BY <2>2, <1>t
  <2>4. \A q \in Requests : request'[q].answer = request[q].answer /\ request'[q].task = request[q].task
    BY <2>3 DEF Request
  <2>5. AnswerIsOwn' /\ NeverRefused'
    BY <2>1, <2>4, <1>4, <1>a
  <2>6. \A q \in made : request'[q].pc = "done"
    BY <2>1, <2>3, <1>d, <1>t
  <2> QED
    BY <2>1, <2>5, <2>6, <1>4, StoreKept DEF StoreInv
<1>5. ASSUME NEW r \in Requests, Hear(r) \/ Unheard(r), Kept PROVE StoreInv'
  <2>1. /\ \E h : request' = [request EXCEPT ![r].heard = h]
        /\ UNCHANGED <<tasks, records, lapsed, made, account, wipe>>
    BY <1>5 DEF Hear, Unheard
  <2>2. PICK h : request' = [request EXCEPT ![r].heard = h]
    BY <2>1
  <2>3. /\ request[r] \in Request /\ request'[r] = [request[r] EXCEPT !.heard = h]
        /\ \A q \in Requests : q # r => request'[q] = request[q]
    BY <2>2, <1>t
  <2>4. \A q \in Requests : /\ request'[q].answer = request[q].answer /\ request'[q].task = request[q].task
                            /\ request'[q].pc = request[q].pc
    BY <2>3 DEF Request
  <2>5. AnswerIsOwn' /\ NeverRefused'
    BY <2>1, <2>4, <1>5, <1>a
  <2>6. \A q \in made : request'[q].pc = "done"
    BY <2>4, <1>d, <1>t
  <2> QED
    BY <2>1, <2>5, <2>6, <1>5, StoreKept DEF StoreInv
<1>6. ASSUME NEW r \in Requests, Save(r), Kept PROVE StoreInv'
  <2>1. request[r].pc = "saving" /\ r \notin made
    BY <1>6, <1>d DEF Save, Is
  <2>2. \A q \in Requests : q # r => request'[q] = request[q]
    BY <1>6, <1>t DEF Save, Refuse
  <2>3. CASE UNCHANGED <<tasks, records, made>>
    <3>1. UNCHANGED <<lapsed, account, wipe>>
      <4>1. ~(made' = made \cup {r})
        BY <2>3, <2>1
      <4> QED
        BY <4>1, <1>6 DEF Save
    <3>2. \/ request' = [request EXCEPT ![r].pc = "again"]
          \/ request' = [request EXCEPT ![r].pc = "done", ![r].answer = "error"]
      <4>1. r \notin made'
        BY <2>3, <2>1
      <4>2. ~(made' = made \cup {r})
        BY <4>1
      <4>3. \/ made' = made \cup {r}
            \/ request' = [request EXCEPT ![r].pc = "again"]
            \/ request' = [request EXCEPT ![r].pc = "done", ![r].answer = "error"]
        BY ONLY <1>6 DEF Save, Refuse
      <4> QED
        BY ONLY <4>2, <4>3
    <3>3. AnswerIsOwn' /\ NeverRefused'
      <4>1. CASE request' = [request EXCEPT ![r].pc = "again"]
        <5>1. request[r] \in Request /\ request'[r] = [request[r] EXCEPT !.pc = "again"]
          BY <4>1, <1>t
        <5>2. \A q \in Requests : request'[q].answer = request[q].answer /\ request'[q].task = request[q].task
          BY <5>1, <2>2 DEF Request
        <5> QED
          BY <5>2, <2>3, <1>6, <1>a
      <4>2. CASE request' = [request EXCEPT ![r].pc = "done", ![r].answer = "error"]
        <5>1. /\ request[r] \in Request
              /\ request'[r] = [request[r] EXCEPT !.pc = "done", !.answer = "error"]
          BY <4>2, <1>t
        <5>2. request'[r].answer = "error" /\ {r} \in SUBSET Requests
          BY <5>1 DEF Request
        <5> QED
          BY <5>2, <2>2, <2>3, <1>6, <1>t, AnswersKept
      <4> QED
        BY <3>2, <4>1, <4>2
    <3>4. \A q \in made : request'[q].pc = "done"
      BY <2>1, <2>2, <1>d, <1>t
    <3> QED
      BY <2>3, <3>1, <3>3, <3>4, <1>6, StoreKept DEF StoreInv
  <2>4. ASSUME account, ~Taken(r),
               tasks' = tasks \cup {r}, records' = records \cup {r}, made' = made \cup {r},
               request' = [request EXCEPT ![r].pc = "done", ![r].answer = "task", ![r].task = r],
               wipe' = IF wipe.at = "none" THEN wipe ELSE [wipe EXCEPT !.during = @ \cup {r}]
        PROVE  StoreInv'
    <3>1. UNCHANGED <<lapsed, account>>
      BY <1>6 DEF Save
    <3>2. /\ request[r] \in Request
          /\ request'[r] = [request[r] EXCEPT !.pc = "done", !.answer = "task", !.task = r]
      BY <2>4, <1>t
    <3>3. request'[r].answer = "task" /\ request'[r].task = r /\ request'[r].pc = "done"
      BY <3>2 DEF Request
    <3>4. AnswerIsOwn' /\ NeverRefused'
      <4>1. {r} \in SUBSET Requests /\ SameKey(r, r) /\ SameBody(r, r) /\ made' \subseteq Requests
        BY <2>4, <1>t DEF SameKey, SameBody
      <4>2. \A x \in {r} : /\ request'[x].answer \in {"task", "gone", "error"}
                           /\ request'[x].task \in made'
                           /\ SameKey(request'[x].task, x) /\ SameBody(request'[x].task, x)
        BY <4>1, <3>3, <2>4
      <4>3. \A x \in Requests \ {r} : request'[x].answer = request[x].answer /\ request'[x].task = request[x].task
        BY <2>2
      <4>4. made \subseteq made'
        BY <2>4
      <4> QED
        BY <4>1, <4>2, <4>3, <4>4, <1>6, AnswersKept
    <3>5. \A p, q \in Requests : SameKey(p, q)' <=> SameKey(p, q)
      BY <1>6 DEF Kept, SameKey
    <3>6. \A q \in records : ~SameKey(q, r) /\ ~SameKey(r, q)
      BY <2>4 DEF Taken, SameKey
    <3>7. \A p, q \in records' : SameKey(p, q)' => p = q
      BY <3>5, <3>6, <2>4, <1>t DEF StoreInv
    <3>8. \A q \in made : SameKey(q, r) \/ SameKey(r, q) => q \in lapsed
      BY <3>6, <2>4 DEF StoreInv
    <3>9. OneTaskPerKey'
      BY <3>1, <3>5, <3>8, <2>4, <1>t DEF StoreInv, OneTaskPerKey
    <3>10. \A q \in made' : Is(q, "done")'
      BY <3>3, <2>2, <2>4, <1>d, <1>t DEF Is
    <3>11. WipeInv'
      <4>1. CASE wipe.at = "none"
        BY <4>1, <3>1, <2>4 DEF WipeInv, WipedStaysEmpty
      <4>2. CASE wipe.at # "none"
        <5>1. /\ wipe'.records = wipe.records /\ wipe'.during = wipe.during \cup {r}
          BY <4>2, <2>4 DEF TypeOK, WipeState
        <5>2. records \subseteq wipe.records \cup wipe.during
          BY <4>2 DEF StoreInv, WipeInv
        <5> QED
          BY <5>1, <5>2, <3>1, <2>4 DEF WipeInv, WipedStaysEmpty
      <4> QED
        BY <4>1, <4>2
    <3> QED
      BY <3>1, <3>4, <3>7, <3>9, <3>10, <3>11, <2>4 DEF StoreInv
  <2> QED
    BY <2>3, <2>4, <1>6 DEF Save, UserThere
<1>7. ASSUME NEW r \in Requests, AfterConflict(r), Kept PROVE StoreInv'
  <2>1. /\ request[r].pc = "again" /\ Sent(r)
        /\ records' = records \ lapsed /\ UNCHANGED <<tasks, lapsed, made, account, wipe>>
    BY <1>7 DEF AfterConflict, Is, Sent
  <2>2. \A q \in Requests : q # r => request'[q] = request[q]
    BY <1>7, <1>t DEF AfterConflict, Refuse
  <2>3. /\ request'[r].answer \in {"task", "gone", "error"}
        /\ request'[r].answer = "task" => /\ request'[r].task \in made'
                                          /\ SameKey(request'[r].task, r)
                                          /\ SameBody(request'[r].task, r)
    <3>1. CASE request' = [request EXCEPT ![r].pc = "done", ![r].answer = "error"]
      <4>1. /\ request[r] \in Request
            /\ request'[r] = [request[r] EXCEPT !.pc = "done", !.answer = "error"]
        BY <3>1, <1>t
      <4> QED
        BY <4>1 DEF Request
    <3>2. ASSUME NEW q \in Named(r),
                 request' = [request EXCEPT ![r].pc = "done", ![r].answer = Verdict(r, q),
                               ![r].task = IF Verdict(r, q) = "task" THEN q ELSE NoRequest]
          PROVE  /\ request'[r].answer \in {"task", "gone", "error"}
                 /\ request'[r].answer = "task" => /\ request'[r].task \in made'
                                                   /\ SameKey(request'[r].task, r)
                                                   /\ SameBody(request'[r].task, r)
      <4>1. /\ q \in made /\ SameKey(q, r) /\ SameBody(q, r) /\ Verdict(r, q) \in {"task", "gone"}
        BY <2>1, Found
      <4>2. /\ request[r] \in Request
            /\ request'[r] = [request[r] EXCEPT !.pc = "done", !.answer = Verdict(r, q),
                                !.task = IF Verdict(r, q) = "task" THEN q ELSE NoRequest]
        BY <3>2, <1>t
      <4>3. request'[r].answer = Verdict(r, q) /\ (Verdict(r, q) = "task" => request'[r].task = q)
        BY <4>2 DEF Request
      <4> QED
        BY <4>1, <4>3, <2>1
    <3> QED
      BY <3>1, <3>2, <1>7 DEF AfterConflict, Refuse
  <2>4. AnswerIsOwn' /\ NeverRefused'
    <3>1. {r} \in SUBSET Requests
      OBVIOUS
    <3> QED
      BY <3>1, <2>1, <2>2, <2>3, <1>7, <1>t, AnswersKept
  <2>5. \A q \in made : request'[q].pc = "done"
    BY <2>1, <2>2, <1>d, <1>t
  <2> QED
    BY <2>1, <2>4, <2>5, <1>7, StoreKept DEF StoreInv
<1>8. ASSUME Kept, UNCHANGED <<request, made>>,
             \/ \E q \in Requests : Remove(q) \/ Lapse(q)
             \/ Wiping
      PROVE  StoreInv'
  <2>1. AnswerIsOwn' /\ NeverRefused'
    BY <1>8, <1>a
  <2>2. /\ lapsed \subseteq lapsed' /\ tasks' \subseteq tasks /\ records' \subseteq records
        /\ account' => account /\ records \subseteq records' \cup lapsed'
        /\ UNCHANGED <<account, wipe>> \/ WipeInv'
    <3>1. CASE Wiping
      <4>1. CASE WipeRecords \/ WipeTasks \/ WipeFails
        <5>1. /\ UNCHANGED <<tasks, records, lapsed, account>>
              /\ wipe.at # "none" => account
              /\ WipeRecords => account
          BY <4>1 DEF WipeRecords, WipeTasks, WipeFails, StoreInv, WipeInv
        <5>2. WipeInv'
          <6>1. account
            BY <5>1, <4>1 DEF WipeTasks, WipeFails
          <6>2. wipe'.at # "none" => records \subseteq wipe'.records \cup wipe'.during
            <7>1. CASE WipeRecords
              BY <7>1 DEF WipeRecords, NoWipe
            <7>2. CASE WipeTasks
              BY <7>2 DEF WipeTasks, StoreInv, WipeInv, TypeOK, WipeState
            <7>3. CASE WipeFails
              BY <7>3 DEF WipeFails, NoWipe
            <7> QED
              BY <4>1, <7>1, <7>2, <7>3
          <6> QED
            BY <5>1, <6>1, <6>2 DEF WipeInv, WipedStaysEmpty
        <5> QED
          BY <5>1, <5>2
      <4>2. CASE WipeUser
        <5>1. /\ account' = FALSE /\ tasks' = {} /\ records' = records \ wipe.records
              /\ lapsed' = lapsed
              /\ wipe'.at = "none" /\ wipe'.during = wipe.during
          BY <4>2 DEF WipeUser, NoTaskRefers, NoWipe
        <5>2. records \subseteq wipe.records \cup wipe.during
          BY <4>2 DEF WipeUser, StoreInv, WipeInv
        <5>3. WipeInv'
          BY <5>1, <5>2 DEF WipeInv, WipedStaysEmpty
        <5> QED
          BY <5>1, <5>3
      <4> QED
        BY <3>1, <4>1, <4>2 DEF Wiping
    <3>2. CASE \E q \in Requests : Remove(q) \/ Lapse(q)
      BY <3>2 DEF Remove, Lapse, KeyAfter
    <3> QED
      BY <3>1, <3>2, <1>8
  <2> QED
    BY <1>8, <2>1, <2>2, <1>d, StoreKept
<1>9. ASSUME Other PROVE StoreInv'
  <2>1. Kept
    BY <1>9, OtherKept
  <2>2. ASSUME NEW r \in Requests, Look(r) \/ LookAgain(r) PROVE StoreInv'
    BY <2>1, <2>2, <1>3 DEF Look, LookAgain, Working
  <2>3. ASSUME \/ \E s \in Slots : Open(s)
               \/ LoseLock
               \/ UNCHANGED vars
        PROVE  StoreInv'
    BY <1>9, <2>3, <1>2 DEF Open, LoseLock, vars
  <2>4. ASSUME \/ \E q \in Requests : Remove(q) \/ Lapse(q)
               \/ Wiping
        PROVE  StoreInv'
    <3>1. UNCHANGED <<request, made>>
      BY <2>4 DEF Remove, Lapse, Wiping, WipeRecords, WipeTasks, WipeUser, WipeFails
    <3> QED
      BY <2>1, <2>4, <3>1, <1>8
  <2> QED
    BY <1>9, <2>1, <2>2, <2>3, <2>4, <1>4, <1>5, <1>6, <1>7 DEF Other
<1> QED
  BY <1>1, <1>9, SendOrOther

-----------------------------------------------------------------------------
(* The form.  Only its last send can be under way, or one of an opening     *)
(* before the last; until its last send succeeds or is gone the form holds  *)
(* its key.                                                                 *)

FormInv ==
    /\ \A s \in Forms, r \in Requests :
         request[r].slot = s /\ request[r].heard = "waiting" => slot[s].last \in {r, NoRequest}
    /\ \A s \in Forms : slot[s].last # NoRequest =>
         /\ slot[s].last \in Requests
         /\ Sent(slot[s].last) /\ request[slot[s].last].slot = s
         /\ request[slot[s].last].heard \notin {"ok", "gone"} =>
              request[slot[s].last].key = slot[s].key

\* A step that leaves forms and what the browser heard alone.
LEMMA FormKept ==
  ASSUME FormInv, Kept, NEW F \in SUBSET Forms,
         \A r \in Requests : request'[r].heard = request[r].heard,
         \A s \in Forms \ F : slot'[s] = slot[s],
         \A s \in F : slot'[s].last = NoRequest
  PROVE  FormInv'
<1> USE FormsAssumption
<1>k. \A q \in Requests : request'[q].slot = request[q].slot /\ request'[q].key = request[q].key
                          /\ (Sent(q)' <=> Sent(q))
  BY DEF Kept, Sent, Is
<1>1. ASSUME NEW s \in Forms, NEW r \in Requests, request'[r].slot = s, request'[r].heard = "waiting"
      PROVE  slot'[s].last \in {r, NoRequest}
  <2>1. request[r].slot = s /\ request[r].heard = "waiting"
    BY <1>1, <1>k
  <2> QED
    BY <2>1 DEF FormInv
<1>2. ASSUME NEW s \in Forms, slot'[s].last # NoRequest
      PROVE  /\ slot'[s].last \in Requests
             /\ Sent(slot[s].last)' /\ request'[slot'[s].last].slot = s
             /\ request'[slot'[s].last].heard \notin {"ok", "gone"} =>
                  request'[slot'[s].last].key = slot'[s].key
  <2>1. slot'[s] = slot[s]
    BY <1>2
  <2>2. /\ slot[s].last \in Requests /\ Sent(slot[s].last) /\ request[slot[s].last].slot = s
        /\ request[slot[s].last].heard \notin {"ok", "gone"} =>
             request[slot[s].last].key = slot[s].key
    BY <1>2, <2>1 DEF FormInv
  <2>3. Sent(slot[s].last)'
    BY <2>1, <2>2, <1>k DEF Sent, Is
  <2> QED
    BY <2>1, <2>2, <2>3, <1>k
<1> QED
  BY <1>1, <1>2 DEF FormInv

\* What the steps of the server leave alone.
LEMMA ServerEffect ==
  ASSUME TypeOK, NEW r \in Requests,
         \E y, a, t : \/ request' = [request EXCEPT ![r].pc = y]
                      \/ request' = [request EXCEPT ![r].pc = y, ![r].answer = a]
                      \/ request' = [request EXCEPT ![r].pc = y, ![r].answer = a, ![r].task = t]
  PROVE  \A q \in Requests : request'[q].heard = request[q].heard
<1>0. request \in [Requests -> Request] /\ request[r] \in Request
  BY DEF TypeOK
<1>1. PICK y, a, t : \/ request' = [request EXCEPT ![r].pc = y]
                     \/ request' = [request EXCEPT ![r].pc = y, ![r].answer = a]
                     \/ request' = [request EXCEPT ![r].pc = y, ![r].answer = a, ![r].task = t]
  OBVIOUS
<1>2. /\ \A q \in Requests : q # r => request'[q] = request[q]
      /\ \/ request'[r] = [request[r] EXCEPT !.pc = y]
         \/ request'[r] = [request[r] EXCEPT !.pc = y, !.answer = a]
         \/ request'[r] = [request[r] EXCEPT !.pc = y, !.answer = a, !.task = t]
  BY <1>0, <1>1
<1> QED
  BY <1>0, <1>2 DEF Request

LEMMA NextFormInv ==
  ASSUME TypeOK, KeysInv, FormInv, [Next]_vars
  PROVE  FormInv'
<1> USE FormsAssumption, RequestsAssumption
<1>t. /\ request \in [Requests -> Request] /\ slot \in [Slots -> Slot]
  BY DEF TypeOK
<1>e. {} \in SUBSET Forms
  OBVIOUS
<1>1. ASSUME NEW s \in Slots, NEW r \in Requests, NEW b \in Bodies, Send(s, r, b) PROVE FormInv'
  <2>1. /\ ~Sent(r) /\ request'[r].pc = "sent" /\ request'[r].slot = s
        /\ request'[r].key = slot'[s].key /\ slot'[s].last = r
        /\ \A q \in Requests : q # r => request'[q] = request[q]
        /\ \A u \in Slots : u # s => slot'[u] = slot[u]
    BY <1>1, SendEffect
  <2>2. s \in Forms => ~Submitting(s)
    BY <1>1 DEF Send
  <2>3. ASSUME NEW u \in Forms, NEW q \in Requests, request'[q].slot = u, request'[q].heard = "waiting"
        PROVE  slot'[u].last \in {q, NoRequest}
    <3>1. CASE u = s
      BY <2>1, <2>2, <2>3, <3>1 DEF Submitting
    <3>2. CASE u # s
      BY <2>1, <2>3, <3>2 DEF FormInv
    <3> QED
      BY <3>1, <3>2
  <2>4. ASSUME NEW u \in Forms, slot'[u].last # NoRequest
        PROVE  /\ slot'[u].last \in Requests
               /\ Sent(slot[u].last)' /\ request'[slot'[u].last].slot = u
               /\ request'[slot'[u].last].heard \notin {"ok", "gone"} =>
                    request'[slot'[u].last].key = slot'[u].key
    <3>1. CASE u = s
      BY <2>1, <3>1 DEF Sent, Is
    <3>2. CASE u # s
      <4>1. /\ slot'[u] = slot[u] /\ slot[u].last \in Requests /\ Sent(slot[u].last)
            /\ request[slot[u].last].slot = u
            /\ request[slot[u].last].heard \notin {"ok", "gone"} =>
                 request[slot[u].last].key = slot[u].key
        BY <2>1, <2>4, <3>2 DEF FormInv
      <4>2. slot[u].last # r
        BY <4>1, <2>1
      <4>3. request'[slot[u].last] = request[slot[u].last]
        BY <4>1, <4>2, <2>1
      <4> QED
        BY <4>1, <4>3 DEF Sent, Is
    <3> QED
      BY <3>1, <3>2
  <2> QED
    BY <2>3, <2>4 DEF FormInv
<1>2. ASSUME NEW s \in Slots, Open(s), Kept PROVE FormInv'
  <2>1. s \in Forms /\ {s} \in SUBSET Forms
    BY <1>2 DEF Open
  <2>2. slot'[s] = [Fresh(s) EXCEPT !.open = TRUE, !.last = NoRequest]
        /\ \A u \in Slots : u # s => slot'[u] = slot[u]
    BY <1>2, <1>t DEF Open
  <2>3. slot'[s].last = NoRequest
    BY <2>2, <1>t DEF Fresh, Slot
  <2>4. request' = request
    BY <1>2 DEF Open
  <2> QED
    BY <2>1, <2>2, <2>3, <2>4, <1>2, FormKept
<1>3. ASSUME Kept, slot' = slot, \A q \in Requests : request'[q].heard = request[q].heard
      PROVE  FormInv'
  BY <1>3, <1>e, FormKept
<1>4. ASSUME NEW r \in Requests, Look(r) \/ LookAgain(r) \/ Enter(r) \/ Save(r) \/ AfterConflict(r) \/ Die(r), Kept
      PROVE  FormInv'
  <2>1. slot' = slot
    BY <1>4 DEF Look, LookAgain, Replay, Enter, Save, AfterConflict, Die
  <2>2. ASSUME Look(r) \/ LookAgain(r) PROVE \A q \in Requests : request'[q].heard = request[q].heard
    <3>1. \E y, a, t : \/ request' = [request EXCEPT ![r].pc = y]
                       \/ request' = [request EXCEPT ![r].pc = y, ![r].answer = a, ![r].task = t]
      BY <2>2 DEF Look, LookAgain, Replay
    <3> QED
      BY <3>1, ServerEffect
  <2>3. ASSUME Enter(r) \/ Die(r) PROVE \A q \in Requests : request'[q].heard = request[q].heard
    <3>1. \E y : request' = [request EXCEPT ![r].pc = y]
      BY <2>3 DEF Enter, Die
    <3> QED
      BY <3>1, ServerEffect
  <2>4. ASSUME Save(r) PROVE \A q \in Requests : request'[q].heard = request[q].heard
    <3>1. \/ request' = [request EXCEPT ![r].pc = "again"]
          \/ request' = [request EXCEPT ![r].pc = "done", ![r].answer = "error"]
          \/ request' = [request EXCEPT ![r].pc = "done", ![r].answer = "task", ![r].task = r]
      BY <2>4 DEF Save, Refuse
    <3> QED
      BY <3>1, ServerEffect
  <2>5. ASSUME AfterConflict(r) PROVE \A q \in Requests : request'[q].heard = request[q].heard
    <3>1. \/ request' = [request EXCEPT ![r].pc = "done", ![r].answer = "error"]
          \/ \E a, t : request' = [request EXCEPT ![r].pc = "done", ![r].answer = a, ![r].task = t]
      BY <2>5 DEF AfterConflict, Refuse
    <3> QED
      BY <3>1, ServerEffect
  <2> QED
    BY <2>1, <2>2, <2>3, <2>4, <2>5, <1>3, <1>4
<1>5. ASSUME NEW r \in Requests, Hear(r) \/ Unheard(r), Kept PROVE FormInv'
  <2> DEFINE s == request[r].slot
  <2>1. request[r].heard = "waiting" /\ \A u \in Slots : u # s => slot'[u] = slot[u]
    BY <1>5, <1>t DEF Hear, Unheard
  <2>2. PICK h \in {"ok", "gone", "failed"} : request' = [request EXCEPT ![r].heard = h]
    BY <1>5 DEF Hear, Unheard
  <2>3. /\ request'[r].heard = h
        /\ \A q \in Requests : q # r => request'[q] = request[q]
    BY <2>2, <1>t DEF Request
  <2>4. s \in Slots => slot'[s].last = slot[s].last
    <3>1. \/ slot' = [slot EXCEPT ![s] = [slot[s] EXCEPT !.open = FALSE]]
          \/ slot' = [slot EXCEPT ![s] = Fresh(s)]
          \/ slot' = slot
      BY <1>5, <1>t DEF Hear, Unheard
    <3>2. s \in Slots => slot[s] \in Slot
      BY <1>t
    <3>3. s \in Slots => \/ slot'[s] = [slot[s] EXCEPT !.open = FALSE]
                         \/ slot'[s] = Fresh(s)
                         \/ slot'[s] = slot[s]
      BY <3>1, <1>t
    <3> QED
      BY <3>2, <3>3 DEF Fresh, Slot
  <2>5. s \in Forms /\ h = "failed" => slot'[s].key = slot[s].key
    <3>1. CASE Unheard(r)
      BY <3>1 DEF Unheard
    <3>2. CASE Hear(r)
      <4>1. ASSUME h = "failed" PROVE request[r].answer \notin {"task", "gone"}
        <5>1. request'[r].heard = CASE request[r].answer = "task" -> "ok"
                                    [] request[r].answer = "gone" -> "gone"
                                    [] OTHER -> "failed"
          BY <3>2, <1>t DEF Hear, Request
        <5> QED
          BY <4>1, <5>1, <2>3
      <4> QED
        BY <4>1, <3>2, <1>t DEF Hear
    <3> QED
      BY <3>1, <3>2, <1>5
  <2>6. \A q \in Requests : /\ request'[q].slot = request[q].slot /\ request'[q].key = request[q].key
                            /\ request'[q].pc = "unsent" <=> request[q].pc = "unsent"
    BY <1>5 DEF Kept
  <2>7. ASSUME NEW u \in Forms, NEW q \in Requests, request'[q].slot = u, request'[q].heard = "waiting"
        PROVE  slot'[u].last \in {q, NoRequest}
    <3>1. q # r /\ request[q].slot = u /\ request[q].heard = "waiting"
      BY <2>3, <2>6, <2>7
    <3>2. slot[u].last \in {q, NoRequest}
      BY <3>1 DEF FormInv
    <3> QED
      BY <3>2, <2>1, <2>4
  <2>8. ASSUME NEW u \in Forms, slot'[u].last # NoRequest
        PROVE  /\ slot'[u].last \in Requests
               /\ Sent(slot[u].last)' /\ request'[slot'[u].last].slot = u
               /\ request'[slot'[u].last].heard \notin {"ok", "gone"} =>
                    request'[slot'[u].last].key = slot'[u].key
    <3>1. slot'[u].last = slot[u].last
      BY <2>1, <2>4
    <3>2. /\ slot[u].last \in Requests /\ Sent(slot[u].last) /\ request[slot[u].last].slot = u
          /\ request[slot[u].last].heard \notin {"ok", "gone"} =>
               request[slot[u].last].key = slot[u].key
      BY <2>8, <3>1 DEF FormInv
    <3>3. Sent(slot[u].last)'
      BY <3>1, <3>2, <2>6 DEF Sent, Is
    <3>4. CASE u = s
      <4>1. slot[u].last = r
        BY <3>1, <3>4, <2>1, <2>8 DEF FormInv
      <4> QED
        BY <3>1, <3>2, <3>3, <3>4, <4>1, <2>1, <2>3, <2>5, <2>6
    <3>5. CASE u # s
      <4>1. slot[u].last # r /\ slot'[u] = slot[u]
        BY <3>2, <3>5, <2>1
      <4> QED
        BY <3>1, <3>2, <3>3, <4>1, <2>3, <2>6
    <3> QED
      BY <3>4, <3>5
  <2> QED
    BY <2>7, <2>8 DEF FormInv
<1>6. ASSUME Other PROVE FormInv'
  <2>1. Kept
    BY <1>6, OtherKept
  <2>2. ASSUME NEW q \in Requests, Remove(q) \/ Lapse(q) PROVE FormInv'
    BY <2>1, <2>2, <1>3 DEF Remove, Lapse
  <2>3. ASSUME LoseLock \/ Wiping \/ UNCHANGED vars PROVE FormInv'
    BY <2>1, <2>3, <1>3 DEF LoseLock, Wiping, WipeRecords, WipeTasks, WipeUser, WipeFails, vars
  <2> QED
    BY <1>6, <2>1, <2>2, <2>3, <1>2, <1>4, <1>5 DEF Other
<1> QED
  BY <1>1, <1>6, SendOrOther

-----------------------------------------------------------------------------

LEMMA InitInv == Init => KeysInv /\ StoreInv /\ FormInv
<1> SUFFICES ASSUME Init PROVE KeysInv /\ StoreInv /\ FormInv
  OBVIOUS
<1>1. \A r \in Requests : request[r].pc = "unsent" /\ request[r].answer = "none" /\ request[r].heard = "none"
  BY DEF Init, Unsent
<1>2. KeysInv
  BY <1>1 DEF KeysInv, Sent, Is
<1>3. StoreInv
  BY <1>1 DEF Init, NoWipe, StoreInv, WipeInv, WipedStaysEmpty, AnswerIsOwn, NeverRefused, OneTaskPerKey
<1>4. FormInv
  BY <1>1, FormsAssumption DEF Init, FormInv
<1> QED
  BY <1>2, <1>3, <1>4

Inv == TypeOK /\ KeysInv /\ StoreInv /\ FormInv

LEMMA Invariance == Spec => []Inv
<1>1. Init => Inv
  BY InitTypeOK, InitInv DEF Inv
<1>2. Inv /\ [Next]_vars => Inv'
  BY NextTypeOK, NextKeysInv, NextStoreInv, NextFormInv DEF Inv
<1> QED
  BY <1>1, <1>2, PTL DEF Spec

\* Every variable of TaskCreate keeps its type (what create, replayCreate and
\* the browser keep of a request).
THEOREM SpecTypeOK == Spec => []TypeOK
BY Invariance, PTL DEF Inv

\* One Idempotency-Key makes one task, for any number of requests, lost locks
\* and deaths (create in tasks.service.ts).
THEOREM SpecOneTaskPerKey == Spec => []OneTaskPerKey
BY Invariance, PTL DEF Inv, StoreInv

\* A create answers with a task of its own key and content (replayCreate).
THEOREM SpecAnswerIsOwn == Spec => []AnswerIsOwn
BY Invariance, PTL DEF Inv, StoreInv

\* The server's 422 never meets what the browser sends (keyForSubmission).
THEOREM SpecNeverRefused == Spec => []NeverRefused
BY Invariance, PTL DEF Inv, StoreInv

\* Both together: what a create answers fits what was asked.
THEOREM SpecAnswersFit == Spec => []AnswersFit
BY SpecAnswerIsOwn, SpecNeverRefused, PTL DEF AnswersFit

\* No create brings a task back after the account was wiped, or leaves a key
\* unless it committed while wipeLocalData was under way.
THEOREM SpecWipedStaysEmpty == Spec => []WipedStaysEmpty
BY Invariance, PTL DEF Inv, StoreInv, WipeInv

\* A step that sends from a form keeps the key of the last send (keyForSubmission,
\* keyAfterFailure, openCreate).
LEMMA StepRetry == Inv /\ [Next]_vars => RetryKeepsKey(Forms)
<1> SUFFICES ASSUME Inv, [Next]_vars, NEW s \in Forms, NEW r \in Requests,
                    slot[s].last # NoRequest, slot'[s].last = r, r # slot[s].last,
                    request[slot[s].last].heard \notin {"ok", "gone"},
                    request'[r].body = request[slot[s].last].body
             PROVE  request'[r].key = request[slot[s].last].key
  BY DEF RetryKeepsKey
<1> USE FormsAssumption, RequestsAssumption
<1>t. slot \in [Slots -> Slot] /\ request \in [Requests -> Request]
  BY DEF Inv, TypeOK
<1>1. /\ slot[s].last \in Requests /\ Sent(slot[s].last) /\ request[slot[s].last].slot = s
      /\ request[slot[s].last].key = slot[s].key
  BY DEF Inv, FormInv
<1>2. slot[s].sent = request[slot[s].last].body
  BY <1>1 DEF Inv, KeysInv
<1>3. ASSUME NEW u \in Slots, NEW q \in Requests, NEW b \in Bodies, Send(u, q, b)
      PROVE  request'[r].key = request[slot[s].last].key
  <2>1. /\ request'[q].body = b /\ request'[q].key = slot'[u].key /\ slot'[u].last = q
        /\ \A v \in Slots : v # u => slot'[v] = slot[v]
    BY <1>3, SendEffect DEF Inv
  <2>2. u = s /\ q = r
    BY <2>1
  <2>3. KeyFor(s, b) = slot[s].key
    BY <1>2, <2>1, <2>2 DEF KeyFor
  <2>4. slot'[s].key = KeyFor(s, b)
    BY <1>3, <2>2, <1>t DEF Send, Slot
  <2> QED
    BY <1>1, <2>1, <2>2, <2>3, <2>4
<1>4. ASSUME Other PROVE FALSE
  <2>1. \/ slot'[s].last = slot[s].last
        \/ slot'[s].last = NoRequest
    <3>0. slot[s] \in Slot
      BY <1>t
    <3>1. ASSUME NEW u \in Slots, Open(u) PROVE slot'[s].last \in {slot[s].last, NoRequest}
      <4>1. \/ slot'[s] = slot[s]
            \/ slot'[s] = [Fresh(s) EXCEPT !.open = TRUE, !.last = NoRequest]
        BY <3>1, <1>t DEF Open
      <4> QED
        BY <3>0, <4>1 DEF Fresh, Slot
    <3>2. ASSUME NEW q \in Requests, Hear(q) PROVE slot'[s].last = slot[s].last
      <4>1. \/ slot'[s] = slot[s]
            \/ slot'[s] = [slot[s] EXCEPT !.open = FALSE]
            \/ slot'[s] = Fresh(s)
        BY <3>2, <1>t DEF Hear
      <4> QED
        BY <3>0, <4>1 DEF Fresh, Slot
    <3>3. ASSUME NEW q \in Requests,
                 Look(q) \/ Enter(q) \/ LookAgain(q) \/ Save(q) \/ AfterConflict(q) \/ Unheard(q)
                 \/ Remove(q) \/ Lapse(q) \/ Die(q)
          PROVE  slot' = slot
      BY <3>3 DEF Look, Enter, LookAgain, Save, AfterConflict, Unheard, Remove, Lapse, Die, Replay
    <3>4. ASSUME LoseLock \/ Wiping \/ UNCHANGED vars PROVE slot' = slot
      BY <3>4 DEF LoseLock, Wiping, WipeRecords, WipeTasks, WipeUser, WipeFails, vars
    <3> QED
      BY <1>4, <3>1, <3>2, <3>3, <3>4 DEF Other
  <2> QED
    BY <2>1
<1> QED
  BY <1>3, <1>4, SendOrOther

\* In a form, Save after an error or a lost answer sends the key of the first
\* press, for as long as the content is the same.
THEOREM SpecFormRetryKeepsKey == Spec => FormRetryKeepsKey
<1>1. Inv /\ [Next]_vars => [RetryKeepsKey(Forms)]_vars
  BY StepRetry
<1> QED
  BY <1>1, Invariance, PTL DEF Spec, FormRetryKeepsKey
=============================================================================
