------------------------- MODULE VoiceSessionProofs -------------------------
(***************************************************************************)
(* Proofs about VoiceSession, for every set of operations, plans and rows, *)
(* every number of turns, panels, sessions, edits and restarts.            *)
(***************************************************************************)
EXTENDS VoiceSession, TLAPS

-----------------------------------------------------------------------------
(* Types *)

Preview == [exec : Nat, rev : Nat, state : {"open", "superseded", "dispatched"}]
Dispatched == [exec : Nat, keys : SUBSET Ops, reported : BOOLEAN]
Turns == [req : Requests, s : Entry, catalog : [Entities -> Nat],
          stage : {"think", "read"}, reads : [Entities -> Int]]

LEMMA EntryFields ==
  ASSUME NEW s \in Entry
  PROVE  /\ s.epoch \in 1..MaxEpochs /\ s.epoch \in Nat /\ s.epoch # 0
         /\ s.version \in Nat /\ s.ops \in [Ops -> Int] /\ s.fp \in [Entities -> Int]
         /\ s.preview \in {NoPreview} \cup Preview
         /\ s.intents \subseteq Ops /\ s.question \in BOOLEAN /\ s.blocks \in BOOLEAN
         /\ s.draft \in BOOLEAN /\ s.ledger \in [Ops -> Statuses]
         /\ s.sent \subseteq Dispatched /\ s.dropped \subseteq Ops
         /\ s # Gone
<1>1. MaxEpochs \in Nat
  BY Bounds
<1>2. s.epoch \in 1..MaxEpochs
  BY DEF Entry
<1>3. s.epoch \in Nat /\ s.epoch # 0
  BY <1>1, <1>2
<1>4. s # Gone
  BY <1>3 DEF Gone
<1> QED
  BY <1>2, <1>3, <1>4 DEF Entry, Preview, Dispatched

LEMMA PreviewFields ==
  /\ NoPreview \notin Preview
  /\ \A p \in Preview : p.exec \in Nat /\ p.rev \in Nat /\ p.state \in {"open", "superseded", "dispatched"}
  /\ \A p \in Preview, x \in {"open", "superseded", "dispatched"} : [p EXCEPT !.state = x] \in Preview
  /\ NoPreview.exec = 0
<1>1. \A p \in Preview : "state" \in DOMAIN p
  BY DEF Preview
<1>2. "state" \notin DOMAIN NoPreview
  BY DEF NoPreview
<1>3. \A p \in Preview, x \in {"open", "superseded", "dispatched"} : [p EXCEPT !.state = x] \in Preview
  BY DEF Preview
<1>4. \A p \in Preview : p.exec \in Nat /\ p.rev \in Nat /\ p.state \in {"open", "superseded", "dispatched"}
  BY DEF Preview
<1>5. NoPreview.exec = 0
  BY DEF NoPreview
<1> QED
  BY <1>1, <1>2, <1>3, <1>4, <1>5

\* An entry with one field replaced.
LEMMA EntryUpdates ==
  ASSUME NEW s \in Entry
  PROVE  /\ \A v \in Nat : [s EXCEPT !.version = v] \in Entry
         /\ \A p \in Preview : [s EXCEPT !.preview = p] \in Entry
         /\ \A x \in SUBSET Ops : [s EXCEPT !.intents = x] \in Entry
         /\ \A x \in SUBSET Ops : [s EXCEPT !.dropped = x] \in Entry
         /\ \A b \in BOOLEAN : [s EXCEPT !.question = b] \in Entry
         /\ \A b \in BOOLEAN : [s EXCEPT !.blocks = b] \in Entry
         /\ \A b \in BOOLEAN : [s EXCEPT !.draft = b] \in Entry
         /\ \A x \in [Ops -> Int] : [s EXCEPT !.ops = x] \in Entry
         /\ \A x \in [Entities -> Int] : [s EXCEPT !.fp = x] \in Entry
         /\ \A x \in [Ops -> Statuses] : [s EXCEPT !.ledger = x] \in Entry
         /\ \A x \in SUBSET Dispatched : [s EXCEPT !.sent = x] \in Entry
<1>1. \A v \in Nat : [s EXCEPT !.version = v] \in Entry
  BY DEF Entry
<1>2. \A p \in Preview : [s EXCEPT !.preview = p] \in Entry
  BY DEF Entry, Preview
<1>3. /\ \A x \in SUBSET Ops : [s EXCEPT !.intents = x] \in Entry
      /\ \A x \in SUBSET Ops : [s EXCEPT !.dropped = x] \in Entry
  BY DEF Entry
<1>4. /\ \A b \in BOOLEAN : [s EXCEPT !.question = b] \in Entry
      /\ \A b \in BOOLEAN : [s EXCEPT !.blocks = b] \in Entry
      /\ \A b \in BOOLEAN : [s EXCEPT !.draft = b] \in Entry
  BY DEF Entry
<1>5. /\ \A x \in [Ops -> Int] : [s EXCEPT !.ops = x] \in Entry
      /\ \A x \in [Entities -> Int] : [s EXCEPT !.fp = x] \in Entry
  BY DEF Entry
<1>6. \A x \in [Ops -> Statuses] : [s EXCEPT !.ledger = x] \in Entry
  BY DEF Entry
<1>7. \A x \in SUBSET Dispatched : [s EXCEPT !.sent = x] \in Entry
  BY DEF Entry, Dispatched
<1> QED
  BY <1>1, <1>2, <1>3, <1>4, <1>5, <1>6, <1>7

-----------------------------------------------------------------------------
(* What a turn makes of its session *)

\* It asks, locks, clears or retires: nothing new can be handed over.
Softens(s, q) ==
  /\ q \in Entry /\ q.epoch = s.epoch /\ s.version <= q.version
  /\ q.preview # NoPreview => s.preview # NoPreview /\ q.preview.exec = s.preview.exec
  /\ IsOpen(q) => IsOpen(s)
  /\ q.intents \in {s.intents, {}}
  /\ q.ops = s.ops /\ q.fp = s.fp /\ q.ledger = s.ledger /\ q.sent = s.sent

LEMMA SoftensAgain ==
  ASSUME NEW s \in Entry, NEW p \in Entry, NEW q \in Entry, Softens(s, p), Softens(p, q)
  PROVE  Softens(s, q)
<1>1. s.version \in Nat /\ p.version \in Nat /\ q.version \in Nat
  BY EntryFields
<1> QED
  BY <1>1 DEF Softens

LEMMA Softenings ==
  ASSUME NEW s \in Entry
  PROVE  /\ Softens(s, s)
         /\ \A b \in BOOLEAN : Softens(s, [s EXCEPT !.question = b])
         /\ \A b \in BOOLEAN : Softens(s, [s EXCEPT !.blocks = b])
         /\ \A b \in BOOLEAN : Softens(s, [s EXCEPT !.draft = b])
         /\ \A x \in SUBSET Ops : Softens(s, [s EXCEPT !.dropped = x])
         /\ Softens(s, [s EXCEPT !.intents = {}])
         /\ Softens(s, [s EXCEPT !.version = @ + 1])
         /\ s.preview # NoPreview => Softens(s, [s EXCEPT !.preview.state = "superseded"])
<1>f. s.version \in Nat /\ s.version + 1 \in Nat /\ s.version <= s.version /\ s.version <= s.version + 1
      /\ s.preview \in {NoPreview} \cup Preview
  BY EntryFields
<1>0. Softens(s, s)
  BY <1>f DEF Softens
<1>1. ASSUME NEW b \in BOOLEAN
      PROVE  /\ Softens(s, [s EXCEPT !.question = b]) /\ Softens(s, [s EXCEPT !.blocks = b])
             /\ Softens(s, [s EXCEPT !.draft = b])
  <2>1. /\ [s EXCEPT !.question = b] \in Entry /\ [s EXCEPT !.blocks = b] \in Entry
        /\ [s EXCEPT !.draft = b] \in Entry
    BY EntryUpdates
  <2> QED
    BY <1>f, <2>1 DEF Softens, IsOpen, Entry
<1>2. ASSUME NEW x \in SUBSET Ops PROVE Softens(s, [s EXCEPT !.dropped = x])
  <2>1. [s EXCEPT !.dropped = x] \in Entry
    BY EntryUpdates
  <2> QED
    BY <1>f, <2>1 DEF Softens, IsOpen, Entry
<1>3. Softens(s, [s EXCEPT !.intents = {}])
  <2>1. [s EXCEPT !.intents = {}] \in Entry
    BY EntryUpdates
  <2> QED
    BY <1>f, <2>1 DEF Softens, IsOpen, Entry
<1>4. Softens(s, [s EXCEPT !.version = @ + 1])
  <2>1. [s EXCEPT !.version = @ + 1] \in Entry
    BY <1>f, EntryUpdates
  <2> QED
    BY <1>f, <2>1 DEF Softens, IsOpen, Entry
<1>5. ASSUME s.preview # NoPreview PROVE Softens(s, [s EXCEPT !.preview.state = "superseded"])
  <2> DEFINE p == [s.preview EXCEPT !.state = "superseded"]
             q == [s EXCEPT !.preview = p]
  <2>1. s.preview \in Preview
    BY <1>5, <1>f
  <2>2. p \in Preview /\ p.exec = s.preview.exec /\ p.state = "superseded"
    BY <2>1, PreviewFields DEF Preview
  <2>3. [s EXCEPT !.preview.state = "superseded"] = q
    OBVIOUS
  <2> HIDE DEF p
  <2>4. q \in Entry
    BY <2>2, EntryUpdates
  <2>5. Softens(s, q)
    BY <1>5, <1>f, <2>2, <2>4 DEF Softens, IsOpen, Entry
  <2> HIDE DEF q
  <2> QED
    BY <2>3, <2>5
<1> QED
  BY <1>0, <1>1, <1>2, <1>3, <1>4, <1>5

LEMMA MoreSoftenings ==
  ASSUME NEW s \in Entry
  PROVE  /\ Softens(s, ClearPending(s))
         /\ Softens(s, LockOpen(s))
         /\ Softens(s, [ClearPending(s) EXCEPT !.draft = FALSE])
         /\ Softens(s, [s EXCEPT !.draft = TRUE])
         /\ Softens(s, [s EXCEPT !.question = TRUE, !.blocks = TRUE, !.version = @ + 1])
         /\ Softens(s, LockOpen([s EXCEPT !.question = TRUE]))
         /\ s.preview # NoPreview =>
              /\ Softens(s, [ClearPending(s) EXCEPT !.preview.state = "superseded"])
              /\ ~IsOpen([ClearPending(s) EXCEPT !.preview.state = "superseded"])
<1>q. ASSUME NEW x \in Entry PROVE ClearPending(x) \in Entry /\ Softens(x, ClearPending(x))
                                   /\ ClearPending(x).preview = x.preview
  <2> DEFINE p == [x EXCEPT !.intents = {}]
             q == [p EXCEPT !.question = FALSE]
  <2>1. p \in Entry /\ Softens(x, p)
    BY EntryUpdates, Softenings
  <2>2. ClearPending(x) = q
    BY DEF ClearPending, Entry
  <2>p. q.preview = x.preview
    BY DEF Entry
  <2> HIDE DEF p
  <2>3. q \in Entry /\ Softens(p, q)
    BY <2>1, EntryUpdates, Softenings
  <2> HIDE DEF q
  <2> QED
    BY <2>1, <2>2, <2>3, <2>p, SoftensAgain
<1>l. ASSUME NEW x \in Entry PROVE LockOpen(x) \in Entry /\ Softens(x, LockOpen(x))
  BY EntryUpdates, Softenings DEF LockOpen
<1>1. Softens(s, [ClearPending(s) EXCEPT !.draft = FALSE])
  BY <1>q, EntryUpdates, Softenings, SoftensAgain
<1>2. Softens(s, [s EXCEPT !.question = TRUE, !.blocks = TRUE, !.version = @ + 1])
  <2> DEFINE p == [s EXCEPT !.question = TRUE]
             q == [p EXCEPT !.blocks = TRUE]
             r == [q EXCEPT !.version = @ + 1]
  <2>1. p \in Entry /\ Softens(s, p)
    BY EntryUpdates, Softenings
  <2>2. [s EXCEPT !.question = TRUE, !.blocks = TRUE, !.version = @ + 1] = r
    BY DEF Entry
  <2> HIDE DEF p
  <2>3. q \in Entry /\ Softens(p, q)
    BY <2>1, EntryUpdates, Softenings
  <2> HIDE DEF q
  <2>4. Softens(q, r) /\ r \in Entry
    BY <2>3, Softenings DEF Softens
  <2> HIDE DEF r
  <2>5. Softens(s, q)
    BY <2>1, <2>3, SoftensAgain
  <2> QED
    BY <2>2, <2>3, <2>4, <2>5, SoftensAgain
<1>3. Softens(s, LockOpen([s EXCEPT !.question = TRUE]))
  <2> DEFINE p == [s EXCEPT !.question = TRUE]
  <2>1. p \in Entry /\ Softens(s, p)
    BY EntryUpdates, Softenings
  <2> HIDE DEF p
  <2>2. LockOpen(p) \in Entry /\ Softens(p, LockOpen(p))
    BY <1>l, <2>1
  <2>3. Softens(s, LockOpen(p))
    BY <2>1, <2>2, SoftensAgain
  <2> QED
    BY <2>3 DEF p
<1>4. ASSUME s.preview # NoPreview
      PROVE  /\ Softens(s, [ClearPending(s) EXCEPT !.preview.state = "superseded"])
             /\ ~IsOpen([ClearPending(s) EXCEPT !.preview.state = "superseded"])
  <2> DEFINE p == ClearPending(s)
             q == [p EXCEPT !.preview.state = "superseded"]
  <2>1. p \in Entry /\ Softens(s, p) /\ p.preview # NoPreview
    BY <1>q, <1>4
  <2> HIDE DEF p
  <2>2. Softens(p, q) /\ q \in Entry
    BY <2>1, Softenings DEF Softens
  <2>3. ~IsOpen(q)
    <3>1. p.preview \in Preview
      BY <2>1, EntryFields
    <3>2. q.preview = [p.preview EXCEPT !.state = "superseded"]
      BY <2>1 DEF Entry
    <3>3. q.preview.state = "superseded"
      BY <3>1, <3>2 DEF Preview
    <3> HIDE DEF q
    <3> QED
      BY <3>3 DEF IsOpen
  <2> HIDE DEF q
  <2>4. Softens(s, q)
    BY <2>1, <2>2, SoftensAgain
  <2>5. q = [ClearPending(s) EXCEPT !.preview.state = "superseded"]
    BY DEF p, q
  <2> QED
    BY <2>3, <2>4, <2>5
<1> QED
  BY <1>q, <1>l, <1>1, <1>2, <1>3, <1>4, EntryUpdates, Softenings

\* A cancel retires the open preview: it is superseded and the version moves on.
LEMMA CancelSoftens ==
  ASSUME NEW s \in Entry, IsOpen(s), NEW x \in SUBSET Ops
  PROVE  LET q == [ClearPending(Retire(s)) EXCEPT !.dropped = x]
         IN  Softens(s, q) /\ ~IsOpen(q)
<1> DEFINE p == [s EXCEPT !.preview.state = "superseded"]
           r == [p EXCEPT !.version = @ + 1]
           c == ClearPending(r)
           q == [c EXCEPT !.dropped = x]
<1>1. s.preview # NoPreview /\ s.preview \in Preview
  BY EntryFields DEF IsOpen
<1>2. p \in Entry /\ Softens(s, p)
  BY <1>1, Softenings DEF Softens
<1>3. p.preview = [s.preview EXCEPT !.state = "superseded"]
  BY DEF Entry
<1>4. p.preview.state = "superseded"
  BY <1>1, <1>3 DEF Preview
<1>5. Retire(s) = r
  BY DEF Retire, Entry
<1> HIDE DEF p
<1>6. r \in Entry /\ Softens(p, r) /\ r.preview = p.preview
  <2>1. Softens(p, r)
    BY <1>2, Softenings
  <2>2. r \in Entry
    BY <2>1 DEF Softens
  <2>3. r.preview = p.preview
    BY <1>2 DEF Entry
  <2> QED
    BY <2>1, <2>2, <2>3
<1> HIDE DEF r
<1>7. c \in Entry /\ Softens(r, c)
  BY <1>6, MoreSoftenings DEF Softens
<1>8. c.preview = r.preview
  BY <1>6 DEF ClearPending, Entry
<1> HIDE DEF c
<1>9. q \in Entry /\ Softens(c, q) /\ q.preview = c.preview
  <2>1. q \in Entry /\ Softens(c, q)
    BY <1>7, EntryUpdates, Softenings
  <2>2. q.preview = c.preview
    BY <1>7 DEF Entry
  <2> QED
    BY <2>1, <2>2
<1>10. q = [ClearPending(Retire(s)) EXCEPT !.dropped = x]
  BY <1>5 DEF c
<1> HIDE DEF q
<1>11. Softens(s, r)
  BY <1>2, <1>6, SoftensAgain
<1>12. Softens(s, c)
  BY <1>6, <1>7, <1>11, SoftensAgain
<1>13. Softens(s, q)
  BY <1>7, <1>9, <1>12, SoftensAgain
<1>14. ~IsOpen(q)
  BY <1>4, <1>6, <1>8, <1>9 DEF IsOpen
<1> QED
  BY <1>10, <1>13, <1>14

-----------------------------------------------------------------------------
(* Previews, reports and new sessions *)

\* A new preview is open, and its execution is one the session never had.
Shows(s, q) ==
  /\ q \in Entry /\ q.epoch = s.epoch /\ q.version = s.version + 1
  /\ IsOpen(q) /\ 100 * s.version < q.preview.exec /\ q.preview.exec < 100 * q.version
  /\ q.ledger = s.ledger /\ q.sent = s.sent

LEMMA NextPreview ==
  ASSUME NEW s \in Entry, NEW k \in 1..99
  PROVE  LET p == [exec |-> 100 * s.version + k, rev |-> NextRevision(s), state |-> "open"]
         IN  p \in Preview /\ p # NoPreview /\ 100 * s.version < p.exec /\ p.exec < 100 * (s.version + 1)
<1>1. s.version \in Nat /\ s.preview \in {NoPreview} \cup Preview
  BY EntryFields
<1>2. NextRevision(s) \in Nat
  BY <1>1, PreviewFields DEF NextRevision
<1> DEFINE p == [exec |-> 100 * s.version + k, rev |-> NextRevision(s), state |-> "open"]
<1>3. 100 * s.version + k \in Nat /\ 100 * s.version < 100 * s.version + k
      /\ 100 * s.version + k < 100 * (s.version + 1)
  BY <1>1
<1>4. p \in Preview
  BY <1>2, <1>3 DEF Preview
<1>5. p # NoPreview
  BY <1>4, PreviewFields
<1> QED
  BY <1>3, <1>4, <1>5

LEMMA PublishShows ==
  ASSUME NEW s \in Entry, NEW ops \in [Ops -> Int], NEW k \in 1..99
  PROVE  LET q == Publish(s, ops, k)
         IN  /\ Shows(s, q) /\ q.ops = ops
             /\ q.intents = {o \in Ops : ops[o] # Absent}
             /\ q.fp = [e \in Entities |->
                          IF \E o \in Ops : ops[o] # Absent /\ TargetOf[o] = e
                          THEN ops[CHOOSE o \in Ops : ops[o] # Absent /\ TargetOf[o] = e]
                          ELSE Absent]
<1> DEFINE p == [exec |-> 100 * s.version + k, rev |-> NextRevision(s), state |-> "open"]
           f == [e \in Entities |->
                   IF \E o \in Ops : ops[o] # Absent /\ TargetOf[o] = e
                   THEN ops[CHOOSE o \in Ops : ops[o] # Absent /\ TargetOf[o] = e]
                   ELSE Absent]
           x == {o \in Ops : ops[o] # Absent}
           q == Publish(s, ops, k)
<1>1. p \in Preview /\ p # NoPreview /\ 100 * s.version < p.exec /\ p.exec < 100 * (s.version + 1)
  BY NextPreview
<1>2. p.state = "open"
  OBVIOUS
<1>3. f \in [Entities -> Int]
  BY DEF Absent
<1>4. x \in SUBSET Ops
  OBVIOUS
<1>5. q = [s EXCEPT !.ops = ops, !.preview = p, !.version = @ + 1, !.fp = f, !.intents = x,
                    !.question = FALSE, !.blocks = FALSE]
  BY DEF Publish
<1>6. s.version + 1 \in Nat
  BY EntryFields
<1> HIDE DEF p, f, x, q
<1>7. /\ q \in Entry /\ q.epoch = s.epoch /\ q.version = s.version + 1 /\ q.preview = p
      /\ q.ledger = s.ledger /\ q.sent = s.sent /\ q.ops = ops /\ q.fp = f /\ q.intents = x
  BY <1>1, <1>3, <1>4, <1>5, <1>6 DEF Entry, Preview
<1>8. Shows(s, q)
  BY <1>1, <1>2, <1>7 DEF Shows, IsOpen
<1> QED
  BY <1>7, <1>8 DEF f, x, q

LEMMA PublishPlanShows ==
  ASSUME NEW s \in Entry, NEW what \in SUBSET Ops, NEW catalog \in [Entities -> Nat]
  PROVE  LET q == PublishPlan(s, what, catalog)
         IN  /\ Shows(s, q) /\ q.ops = s.ops /\ q.intents = what
             /\ q.fp = [e \in Entities |-> IF \E o \in what : TargetOf[o] = e THEN catalog[e] ELSE Absent]
<1> DEFINE p == [exec |-> 100 * s.version + 2, rev |-> NextRevision(s), state |-> "open"]
           f == [e \in Entities |-> IF \E o \in what : TargetOf[o] = e THEN catalog[e] ELSE Absent]
           q == PublishPlan(s, what, catalog)
<1>0. 2 \in 1..99
  OBVIOUS
<1>1. p \in Preview /\ p # NoPreview /\ 100 * s.version < p.exec /\ p.exec < 100 * (s.version + 1)
  BY <1>0, NextPreview
<1>2. p.state = "open"
  OBVIOUS
<1>3. f \in [Entities -> Int]
  BY DEF Absent
<1>5. q = [s EXCEPT !.preview = p, !.version = @ + 1, !.fp = f, !.intents = what, !.question = FALSE]
  BY DEF PublishPlan
<1>6. s.version + 1 \in Nat
  BY EntryFields
<1> HIDE DEF p, f, q
<1>7. /\ q \in Entry /\ q.epoch = s.epoch /\ q.version = s.version + 1 /\ q.preview = p
      /\ q.ledger = s.ledger /\ q.sent = s.sent /\ q.ops = s.ops /\ q.fp = f /\ q.intents = what
  BY <1>1, <1>3, <1>5, <1>6 DEF Entry, Preview
<1>8. Shows(s, q)
  BY <1>1, <1>2, <1>7 DEF Shows, IsOpen
<1> QED
  BY <1>7, <1>8 DEF f, q

\* The cancelled operations that were asked for again are forgotten.
LEMMA ShowsAsked ==
  ASSUME NEW s \in Entry, NEW q, Shows(s, q), NEW x \in SUBSET Ops
  PROVE  LET r == [q EXCEPT !.dropped = x]
         IN  Shows(s, r) /\ r.ops = q.ops /\ r.fp = q.fp /\ r.intents = q.intents
<1> DEFINE r == [q EXCEPT !.dropped = x]
<1>1. q \in Entry
  BY DEF Shows
<1>2. r \in Entry
  BY <1>1, EntryUpdates
<1>3. /\ r.epoch = q.epoch /\ r.version = q.version /\ r.preview = q.preview /\ r.ledger = q.ledger
      /\ r.sent = q.sent /\ r.ops = q.ops /\ r.fp = q.fp /\ r.intents = q.intents
  BY <1>1 DEF Entry
<1> HIDE DEF r
<1>4. Shows(s, r)
  BY <1>2, <1>3 DEF Shows, IsOpen
<1> QED
  BY <1>3, <1>4 DEF r

\* What a session shows and captured is all the same.
Alike(s, q) ==
  /\ q \in Entry /\ q.epoch = s.epoch /\ q.version = s.version /\ q.preview = s.preview
  /\ q.ops = s.ops /\ q.fp = s.fp /\ q.intents = s.intents

LEMMA ExpiredAlike ==
  ASSUME NEW s \in Entry
  PROVE  /\ Alike(s, Expired(s)) /\ Expired(s).sent = s.sent
         /\ \A o \in Ops : Expired(s).ledger[o] # "none" => s.ledger[o] # "none"
         /\ \A o \in Ops : Silent(s, o) =>
              Expired(s).ledger[o] = IF s.ledger[o] = "pending" THEN "unknown" ELSE s.ledger[o]
<1> DEFINE silent == UNION {d.keys : d \in {x \in s.sent : ~x.reported}}
           l == [o \in Ops |-> IF o \in silent /\ s.ledger[o] = "pending" THEN "unknown" ELSE s.ledger[o]]
           q == Expired(s)
<1>1. s.ledger \in [Ops -> Statuses] /\ s.sent \subseteq Dispatched
  BY EntryFields
<1>2. l \in [Ops -> Statuses]
  BY <1>1 DEF Statuses
<1>3. q = [s EXCEPT !.ledger = l]
  BY DEF Expired, Entry
<1>4. \A o \in Ops : Silent(s, o) => o \in silent
  BY DEF Silent
<1> HIDE DEF silent
<1>5. \A o \in Ops : l[o] = IF o \in silent /\ s.ledger[o] = "pending" THEN "unknown" ELSE s.ledger[o]
  OBVIOUS
<1> HIDE DEF l, q
<1>6. q \in Entry
  BY <1>2, <1>3, EntryUpdates
<1>7. /\ q.ledger = l /\ q.epoch = s.epoch /\ q.version = s.version /\ q.preview = s.preview
      /\ q.ops = s.ops /\ q.fp = s.fp /\ q.intents = s.intents /\ q.sent = s.sent
  BY <1>3 DEF Entry
<1>8. Alike(s, q)
  BY <1>6, <1>7 DEF Alike
<1>9. \A o \in Ops : q.ledger[o] # "none" => s.ledger[o] # "none"
  BY <1>5, <1>7
<1>10. \A o \in Ops : Silent(s, o) =>
              q.ledger[o] = IF s.ledger[o] = "pending" THEN "unknown" ELSE s.ledger[o]
  BY <1>4, <1>5, <1>7
<1> QED
  BY <1>7, <1>8, <1>9, <1>10 DEF q

LEMMA ReportedAlike ==
  ASSUME NEW s \in Entry, NEW r, r.rows \in Rows, NEW q \in Reported(s, r)
  PROVE  \/ q = s
         \/ \E d \in s.sent :
              /\ Alike(s, q) /\ q.sent = (s.sent \ {d}) \cup {[d EXCEPT !.reported = TRUE]}
              /\ \A o \in Ops : o \notin d.keys => q.ledger[o] = s.ledger[o]
<1>1. CASE \A d \in s.sent : ~Matches(d, r)
  BY <1>1 DEF Reported
<1>2. CASE \E d \in s.sent : Matches(d, r)
  <2>0. PICK d \in {x \in s.sent : Matches(x, r)} :
          q \in {[s EXCEPT
                   !.ledger = [o \in Ops |-> IF o \in d.keys THEN LedgerStatus[r.rows[at[o]]] ELSE @[o]],
                   !.sent = (@ \ {d}) \cup {[d EXCEPT !.reported = TRUE]}] : at \in Placings(d.keys, r.rows)}
    BY <1>2 DEF Reported
  <2>1. PICK at \in Placings(d.keys, r.rows) :
          q = [s EXCEPT
                 !.ledger = [o \in Ops |-> IF o \in d.keys THEN LedgerStatus[r.rows[at[o]]] ELSE @[o]],
                 !.sent = (@ \ {d}) \cup {[d EXCEPT !.reported = TRUE]}]
    BY <2>0
  <2> DEFINE l == [o \in Ops |-> IF o \in d.keys THEN LedgerStatus[r.rows[at[o]]] ELSE s.ledger[o]]
             x == (s.sent \ {d}) \cup {[d EXCEPT !.reported = TRUE]}
  <2>2. s.ledger \in [Ops -> Statuses] /\ s.sent \subseteq Dispatched
    BY EntryFields
  <2>3. d \in Dispatched /\ at \in [d.keys -> DOMAIN r.rows]
    BY <2>2 DEF Placings
  <2>4. x \in SUBSET Dispatched
    BY <2>2, <2>3 DEF Dispatched
  <2>5. ASSUME NEW o \in Ops, o \in d.keys PROVE LedgerStatus[r.rows[at[o]]] \in Statuses
    <3>1. at[o] \in DOMAIN r.rows
      BY <2>3, <2>5
    <3>2. PICK what \in SUBSET Ops : r.rows \in [what -> DOMAIN LedgerStatus]
      BY DEF Rows
    <3>3. r.rows[at[o]] \in DOMAIN LedgerStatus
      BY <3>1, <3>2
    <3>4. \A y \in DOMAIN LedgerStatus : LedgerStatus[y] \in Statuses
      BY DEF LedgerStatus, Statuses
    <3> QED
      BY <3>3, <3>4
  <2>6. l \in [Ops -> Statuses] /\ \A o \in Ops : o \notin d.keys => l[o] = s.ledger[o]
    BY <2>2, <2>5
  <2>7. q = [s EXCEPT !.ledger = l, !.sent = x]
    BY <2>1
  <2> HIDE DEF l, x
  <2>8. /\ q \in Entry /\ q.ledger = l /\ q.epoch = s.epoch /\ q.version = s.version
        /\ q.preview = s.preview /\ q.ops = s.ops /\ q.fp = s.fp /\ q.intents = s.intents /\ q.sent = x
    BY <2>4, <2>6, <2>7 DEF Entry, Dispatched
  <2>9. Alike(s, q)
    BY <2>8 DEF Alike
  <2> QED
    BY <2>6, <2>8, <2>9 DEF x
<1> QED
  BY <1>1, <1>2

LEMMA NewEntryTyped ==
  ASSUME NEW e \in 1..MaxEpochs
  PROVE  LET s == NewEntry(e)
         IN  /\ s \in Entry /\ s.epoch = e /\ s.version = 0 /\ s.preview = NoPreview
             /\ s.intents = {} /\ s.sent = {}
             /\ \A o \in Ops : s.ops[o] = Absent /\ s.ledger[o] = "none"
             /\ \A x \in Entities : s.fp[x] = Absent
BY DEF NewEntry, Entry, Absent, Statuses

LEMMA SentEntry ==
  ASSUME NEW s \in Entry, IsOpen(s)
  PROVE  LET q == Sent(s)
         IN  /\ q \in Entry /\ q.epoch = s.epoch /\ q.version = s.version + 1
             /\ q.preview # NoPreview /\ q.preview.exec = s.preview.exec /\ ~IsOpen(q)
             /\ q.intents = {} /\ q.ops = s.ops /\ q.fp = s.fp
             /\ \A o \in Ops : q.ledger[o] = IF o \in s.intents /\ s.ledger[o] = "none" THEN "pending" ELSE s.ledger[o]
             /\ q.sent = IF s.intents = {} THEN s.sent
                         ELSE {d \in s.sent : d.exec # s.preview.exec}
                                \cup {[exec |-> s.preview.exec, keys |-> s.intents, reported |-> FALSE]}
<1> DEFINE c == ClearPending(s)
           p == [s.preview EXCEPT !.state = "dispatched"]
           l == [o \in Ops |-> IF o \in s.intents /\ s.ledger[o] = "none" THEN "pending" ELSE s.ledger[o]]
           x == IF s.intents = {} THEN s.sent
                ELSE {d \in s.sent : d.exec # s.preview.exec}
                       \cup {[exec |-> s.preview.exec, keys |-> s.intents, reported |-> FALSE]}
           q == [c EXCEPT !.preview = p, !.version = @ + 1, !.ledger = l, !.sent = x]
<1>1. /\ s.preview \in Preview /\ s.version + 1 \in Nat /\ s.ledger \in [Ops -> Statuses]
      /\ s.sent \subseteq Dispatched /\ s.intents \subseteq Ops /\ s.preview.exec \in Nat
  BY EntryFields, PreviewFields DEF IsOpen
<1>2. p \in Preview /\ p.exec = s.preview.exec /\ p.state = "dispatched"
  BY <1>1 DEF Preview
<1>3. l \in [Ops -> Statuses]
      /\ \A o \in Ops : l[o] = IF o \in s.intents /\ s.ledger[o] = "none" THEN "pending" ELSE s.ledger[o]
  BY <1>1 DEF Statuses
<1>4. x \in SUBSET Dispatched
  <2>1. [exec |-> s.preview.exec, keys |-> s.intents, reported |-> FALSE] \in Dispatched
    BY <1>1 DEF Dispatched
  <2> QED
    BY <1>1, <2>1
<1>5. c \in Entry /\ c.preview = s.preview /\ c.version = s.version /\ c.ledger = s.ledger /\ c.sent = s.sent
      /\ c.intents = {} /\ c.ops = s.ops /\ c.fp = s.fp /\ c.epoch = s.epoch
  <2>1. c \in Entry
    BY MoreSoftenings DEF Softens
  <2>2. /\ c.preview = s.preview /\ c.version = s.version /\ c.ledger = s.ledger /\ c.sent = s.sent
        /\ c.intents = {} /\ c.ops = s.ops /\ c.fp = s.fp /\ c.epoch = s.epoch
    BY DEF ClearPending, Entry
  <2> QED
    BY <2>1, <2>2
<1>6. Sent(s) = q
  BY <1>5 DEF Sent
<1> HIDE DEF c, p, l, x
<1>7. /\ q \in Entry /\ q.epoch = c.epoch /\ q.version = c.version + 1 /\ q.preview = p /\ q.ledger = l
      /\ q.sent = x /\ q.intents = c.intents /\ q.ops = c.ops /\ q.fp = c.fp
  BY <1>1, <1>2, <1>3, <1>4, <1>5 DEF Entry, Preview, Dispatched
<1> HIDE DEF q
<1>8. q.preview # NoPreview /\ ~IsOpen(q)
  BY <1>2, <1>7, PreviewFields DEF IsOpen
<1> QED
  BY <1>2, <1>3, <1>5, <1>6, <1>7, <1>8 DEF x

-----------------------------------------------------------------------------
(* The invariant *)

Live(i) == entries[i] # Gone
Busy(i) == turn[i] # Idle

\* The claims that are anywhere: on the screen, on their way, in a turn.
KnownClaims ==
  {panel.ref} \cup {r.claim : r \in reqs} \cup {a.claim : a \in answers}
    \cup {turn[i].req.claim : i \in {j \in Sids : Busy(j)}}

\* What a session was given out is behind its version, and an open preview was
\* neither handed over nor withdrawn.
Fresh(s, done, taken) ==
  /\ s.preview # NoPreview => 0 < s.preview.exec /\ s.preview.exec < 100 * s.version
  /\ \A d \in done : d.epoch = s.epoch =>
       d.exec < 100 * s.version /\ (IsOpen(s) => d.exec # s.preview.exec)
  /\ \A x \in taken : x[1] = s.epoch =>
       x[2] < 100 * s.version /\ (IsOpen(s) => x[2] # s.preview.exec)

\* A claim of the open preview shows what the preview would hand over.
Fits(c, s) ==
  c.exec # 0 /\ c.epoch = s.epoch =>
    /\ c.exec < 100 * s.version
    /\ IsOpen(s) /\ c.exec = s.preview.exec => s.intents \in {{}, c.what}

Sound(s, done, taken, known) == Fresh(s, done, taken) /\ \A c \in known : Fits(c, s)

\* Operations and preview were captured from revisions up to some catalog, and
\* every intent on a stored row was.
Captured(s, upto) ==
  /\ \A o \in Ops : TargetOf[o] # NoEntity => s.ops[o] <= upto[TargetOf[o]]
  /\ \A e \in Entities : s.fp[e] <= upto[e]
  /\ \A o \in s.intents : TargetOf[o] # NoEntity => s.fp[TargetOf[o]] # Absent

\* What was handed over and never reported was never settled; what was settled
\* was handed over, under an execution before that of the open preview.
Remembered(s, as) ==
  /\ \A o \in Ops : Silent(s, o) => s.ledger[o] \in as
  /\ \A o \in Ops : s.ledger[o] # "none" => \E d \in s.sent : o \in d.keys
  /\ \A d \in s.sent : d.exec < 100 * s.version /\ (IsOpen(s) => d.exec # s.preview.exec)

\* One session of an epoch, at one place; nothing is of an epoch to come.
Apart ==
  /\ \A i \in Sids : Live(i) /\ Busy(i) => entries[i].epoch = turn[i].s.epoch
  /\ \A i, j \in Sids : i # j =>
       /\ Live(i) /\ Live(j) => entries[i].epoch # entries[j].epoch
       /\ Live(i) /\ Busy(j) => entries[i].epoch # turn[j].s.epoch
       /\ Busy(i) /\ Busy(j) => turn[i].s.epoch # turn[j].s.epoch
Counted ==
  /\ \A i \in Sids : (Live(i) => entries[i].epoch <= count.epochs) /\ (Busy(i) => turn[i].s.epoch <= count.epochs)
  /\ \A d \in dispatches : d.epoch <= count.epochs
  /\ \A x \in withdrawn : x[1] <= count.epochs
  /\ \A c \in KnownClaims : c.exec # 0 => c.epoch <= count.epochs

\* What the ledger says of a write that was handed over and not reported,
\* between turns and once a turn has begun.
Unreported == {"pending", "unknown"}
Settled == {"unknown"}

Entered(s, upto) == Captured(s, upto) /\ Remembered(s, Unreported)

\* A turn: its rows are read after its catalog.
Turning(t, upto) ==
  /\ Captured(t.s, t.catalog) /\ Remembered(t.s, Settled)
  /\ \A e \in Entities : t.catalog[e] <= upto[e] /\ (t.reads[e] # Absent => t.catalog[e] <= t.reads[e])

AllSound ==
  \A i \in Sids : /\ Live(i) => Sound(entries[i], dispatches, withdrawn, KnownClaims)
                  /\ Busy(i) => Sound(turn[i].s, dispatches, withdrawn, KnownClaims)
AllKept == \A i \in Sids : (Live(i) => Entered(entries[i], rev)) /\ (Busy(i) => Turning(turn[i], rev))

DialogueInv == Apart /\ Counted /\ AllSound /\ AllKept

\* Answers to what was asked carry the number of the question.
Numbered == \A c \in calls : c.kind # "report" => c.n \in Nat

\* A turn reads its rows again only for a confirmation that may apply.
Confirming ==
  \A i \in Sids : Busy(i) /\ turn[i].stage = "read" => MayApply(turn[i].s, turn[i].req.claim)

TypeInv == TypeOK /\ Numbered /\ Confirming

LEMMA RowsTyped == NoRows \in Rows
<1>1. NoRows = [o \in {} |-> "error"]
  BY DEF NoRows
<1>2. [o \in {} |-> "error"] \in [{} -> DOMAIN LedgerStatus]
  OBVIOUS
<1> QED
  BY <1>1, <1>2 DEF Rows

LEMMA ClaimsTyped ==
  /\ NoClaim \in Claims
  /\ \A s \in Entry : OpenClaim(s) \in Claims
  /\ \A c \in Claims : c.exec \in Nat
<1>1. NoClaim \in Claims /\ \A c \in Claims : c.exec \in Nat
  BY DEF NoClaim, Claims
<1>2. ASSUME NEW s \in Entry PROVE OpenClaim(s) \in Claims
  <2>1. CASE ~IsOpen(s)
    BY <1>1, <2>1 DEF OpenClaim
  <2>2. CASE IsOpen(s)
    <3>1. s.preview \in Preview
      BY <2>2, EntryFields DEF IsOpen
    <3>2. s.preview.exec \in Nat /\ s.preview.rev \in Nat
      BY <3>1, PreviewFields
    <3>3. s.epoch \in Nat /\ s.intents \in SUBSET Ops
      BY EntryFields
    <3> QED
      BY <2>2, <3>2, <3>3 DEF OpenClaim, Claims
  <2> QED
    BY <2>1, <2>2
<1> QED
  BY <1>1, <1>2

LEMMA PanelUpdates ==
  ASSUME NEW p \in Panels
  PROVE  /\ \A b \in BOOLEAN : [p EXCEPT !.busy = b] \in Panels
         /\ \A b \in BOOLEAN : [p EXCEPT !.card = b] \in Panels
         /\ \A b \in BOOLEAN : [p EXCEPT !.plan = b] \in Panels
         /\ \A c \in Claims : [p EXCEPT !.ref = c] \in Panels
         /\ \A i \in 0..MaxSids : [p EXCEPT !.sid = i] \in Panels
         /\ \A b, c, d \in BOOLEAN : [p EXCEPT !.busy = b, !.card = c, !.plan = d] \in Panels
         /\ \A b, c, d \in BOOLEAN, x \in Claims :
              [p EXCEPT !.busy = b, !.card = c, !.plan = d, !.ref = x] \in Panels
         /\ Closed \in Panels
<1>1. Closed \in Panels
  BY ClaimsTyped, Bounds DEF Closed, Panels
<1> QED
  BY <1>1 DEF Panels

Counts == [turns : 0..MaxTurns, sids : 0..MaxSids, epochs : 0..MaxEpochs, edits : 0..MaxEdits,
           drops : 0..MaxDrops]

LEMMA CountUpdates ==
  ASSUME NEW c \in Counts
  PROVE  /\ c.turns \in Nat /\ c.sids \in Nat /\ c.epochs \in Nat /\ c.edits \in Nat /\ c.drops \in Nat
         /\ c.turns + 1 <= MaxTurns => [c EXCEPT !.turns = c.turns + 1] \in Counts
         /\ c.sids < MaxSids => [c EXCEPT !.sids = @ + 1] \in Counts
         /\ \A e \in 0..MaxEpochs : [c EXCEPT !.epochs = IF e > @ THEN e ELSE @] \in Counts
         /\ c.edits < MaxEdits => [c EXCEPT !.edits = @ + 1] \in Counts
         /\ c.drops < MaxDrops => [c EXCEPT !.drops = @ + 1] \in Counts
<1>1. /\ MaxTurns \in Nat /\ MaxSids \in Nat /\ MaxEpochs \in Nat /\ MaxEdits \in Nat /\ MaxDrops \in Nat
  BY Bounds
<1> QED
  BY <1>1 DEF Counts

LEMMA InitTypeInv == Init => TypeInv
<1>1. Gone \in {Gone} \cup Entry /\ Idle \in {Idle} \cup Turns
  OBVIOUS
<1>2. /\ MaxTurns \in Nat /\ MaxSids \in Nat /\ MaxEpochs \in Nat /\ MaxEdits \in Nat /\ MaxDrops \in Nat
  BY Bounds
<1>3. [turns |-> 0, sids |-> 0, epochs |-> 0, edits |-> 0, drops |-> 0] \in Counts
  BY <1>2 DEF Counts
<1>4. Closed \in Panels
  BY <1>2, ClaimsTyped DEF Closed, Panels
<1> QED
  BY <1>1, <1>3, <1>4 DEF Init, TypeInv, TypeOK, Numbered, Confirming, Busy, Turns, Counts

-----------------------------------------------------------------------------
(* Previews capture the catalog *)

LEMMA PublishCaptures ==
  ASSUME NEW s \in Entry, NEW ops \in [Ops -> Int], NEW k \in 1..99, NEW upto \in [Entities -> Nat],
         \A o \in Ops : TargetOf[o] # NoEntity => ops[o] <= upto[TargetOf[o]]
  PROVE  Captured(Publish(s, ops, k), upto)
<1> DEFINE q == Publish(s, ops, k)
<1>1. /\ q.ops = ops /\ q.intents = {o \in Ops : ops[o] # Absent}
      /\ q.fp = [e \in Entities |->
                   IF \E o \in Ops : ops[o] # Absent /\ TargetOf[o] = e
                   THEN ops[CHOOSE o \in Ops : ops[o] # Absent /\ TargetOf[o] = e]
                   ELSE Absent]
  BY PublishShows
<1> HIDE DEF q
<1>2. ASSUME NEW e \in Entities
      PROVE  \/ q.fp[e] = Absent /\ \A o \in Ops : ops[o] # Absent => TargetOf[o] # e
             \/ \E o \in Ops : ops[o] # Absent /\ TargetOf[o] = e /\ q.fp[e] = ops[o]
  BY <1>1
<1>3. \A e \in Entities : e # NoEntity
  BY Targets
<1>4. ASSUME NEW e \in Entities PROVE q.fp[e] <= upto[e]
  <2>1. upto[e] \in Nat /\ Absent <= upto[e]
    BY DEF Absent
  <2> QED
    BY <1>2, <1>3, <2>1
<1>5. ASSUME NEW o \in q.intents, TargetOf[o] # NoEntity PROVE q.fp[TargetOf[o]] # Absent
  <2>1. o \in Ops /\ ops[o] # Absent /\ TargetOf[o] \in Entities
    BY <1>1, <1>5, Targets
  <2> QED
    BY <1>2, <2>1
<1> QED
  BY <1>1, <1>4, <1>5 DEF Captured, q

LEMMA PublishPlanCaptures ==
  ASSUME NEW s \in Entry, NEW what \in SUBSET Ops, NEW upto \in [Entities -> Nat], Captured(s, upto)
  PROVE  Captured(PublishPlan(s, what, upto), upto)
<1> DEFINE q == PublishPlan(s, what, upto)
<1>1. /\ q.ops = s.ops /\ q.intents = what
      /\ q.fp = [e \in Entities |-> IF \E o \in what : TargetOf[o] = e THEN upto[e] ELSE Absent]
  BY PublishPlanShows
<1> HIDE DEF q
<1>2. \A e \in Entities : q.fp[e] <= upto[e]
  BY <1>1 DEF Absent
<1>3. ASSUME NEW o \in what, TargetOf[o] # NoEntity PROVE q.fp[TargetOf[o]] # Absent
  <2>1. TargetOf[o] \in Entities
    BY <1>3, Targets
  <2>2. q.fp[TargetOf[o]] = upto[TargetOf[o]]
    BY <1>1, <2>1
  <2> QED
    BY <2>1, <2>2 DEF Absent
<1> QED
  BY <1>1, <1>2, <1>3 DEF Captured, q

\* What was captured stays so.
LEMMA StaysCaptured ==
  ASSUME NEW s \in Entry, NEW upto \in [Entities -> Nat], Captured(s, upto)
  PROVE  /\ \A q : Softens(s, q) => Captured(q, upto)
         /\ \A q : Alike(s, q) => Captured(q, upto)
         /\ \A later \in [Entities -> Nat] :
              (\A e \in Entities : upto[e] <= later[e]) => Captured(s, later)
<1>1. \A q : Softens(s, q) => Captured(q, upto)
  BY DEF Softens, Captured
<1>2. \A q : Alike(s, q) => Captured(q, upto)
  BY DEF Alike, Captured
<1>3. ASSUME NEW later \in [Entities -> Nat], \A e \in Entities : upto[e] <= later[e]
      PROVE  Captured(s, later)
  <2>1. s.ops \in [Ops -> Int] /\ s.fp \in [Entities -> Int]
    BY EntryFields
  <2>2. ASSUME NEW o \in Ops, TargetOf[o] # NoEntity PROVE s.ops[o] <= later[TargetOf[o]]
    <3>1. TargetOf[o] \in Entities
      BY <2>2, Targets
    <3>2. s.ops[o] <= upto[TargetOf[o]] /\ upto[TargetOf[o]] <= later[TargetOf[o]]
      BY <1>3, <2>2, <3>1 DEF Captured
    <3>3. s.ops[o] \in Int /\ upto[TargetOf[o]] \in Int /\ later[TargetOf[o]] \in Int
      BY <2>1, <3>1
    <3> QED
      BY <3>2, <3>3
  <2>3. ASSUME NEW e \in Entities PROVE s.fp[e] <= later[e]
    <3>1. s.fp[e] <= upto[e] /\ upto[e] <= later[e]
      BY <1>3 DEF Captured
    <3>2. s.fp[e] \in Int /\ upto[e] \in Int /\ later[e] \in Int
      BY <2>1
    <3> QED
      BY <3>1, <3>2
  <2> QED
    BY <2>2, <2>3 DEF Captured
<1> QED
  BY <1>1, <1>2, <1>3

-----------------------------------------------------------------------------
(* What was done and what is claimed *)

\* A claim that is of another session, or of none.
Strange(c, s) == c.exec = 0 \/ c.epoch # s.epoch

\* Things done by other sessions do not concern this one.
LEMMA StaysSound ==
  ASSUME NEW s \in Entry, NEW done, NEW taken, NEW known, Sound(s, done, taken, known),
         NEW done2, NEW taken2, NEW known2,
         \A d \in done2 : d \in done \/ d.epoch # s.epoch,
         \A x \in taken2 : x \in taken \/ x[1] # s.epoch,
         \A c \in known2 : c \in known \/ Strange(c, s)
  PROVE  Sound(s, done2, taken2, known2)
<1>1. Fresh(s, done2, taken2)
  BY DEF Sound, Fresh
<1>2. \A c \in known2 : Fits(c, s)
  BY DEF Sound, Fits, Strange
<1> QED
  BY <1>1, <1>2 DEF Sound

\* The claim of a preview fits it.
LEMMA OwnClaimFits ==
  ASSUME NEW s \in Entry, s.preview # NoPreview => s.preview.exec < 100 * s.version
  PROVE  Fits(OpenClaim(s), s) /\ (OpenClaim(s).exec = 0 \/ OpenClaim(s).epoch = s.epoch)
<1>1. CASE ~IsOpen(s)
  BY <1>1 DEF OpenClaim, Fits, NoClaim
<1>2. CASE IsOpen(s)
  <2>1. /\ OpenClaim(s).exec = s.preview.exec /\ OpenClaim(s).epoch = s.epoch
        /\ OpenClaim(s).what = s.intents
    BY <1>2 DEF OpenClaim
  <2>2. s.preview # NoPreview
    BY <1>2 DEF IsOpen
  <2> QED
    BY <2>1, <2>2 DEF Fits
<1> QED
  BY <1>1, <1>2

LEMMA SoundSoftens ==
  ASSUME NEW s \in Entry, NEW done, NEW taken, NEW known, Sound(s, done, taken, known),
         \A d \in done : d.exec \in Int, \A x \in taken : x[2] \in Int, \A c \in known : c.exec \in Int,
         NEW q, Softens(s, q)
  PROVE  Sound(q, done, taken, known \cup {OpenClaim(q)})
<1>1. q \in Entry /\ s.version \in Nat /\ q.version \in Nat /\ s.version <= q.version /\ q.epoch = s.epoch
  BY EntryFields DEF Softens
<1>2. 100 * s.version <= 100 * q.version /\ 100 * s.version \in Int /\ 100 * q.version \in Int
  BY <1>1
<1>p. s.preview # NoPreview => s.preview.exec \in Nat
  BY EntryFields, PreviewFields
<1>3. q.preview # NoPreview => 0 < q.preview.exec /\ q.preview.exec < 100 * q.version
  BY <1>2, <1>p DEF Sound, Fresh, Softens
<1>o. IsOpen(q) => IsOpen(s) /\ q.preview.exec = s.preview.exec
  BY DEF Softens, IsOpen
<1>4. \A d \in done : d.epoch = q.epoch => d.exec < 100 * q.version /\ (IsOpen(q) => d.exec # q.preview.exec)
  <2> TAKE d \in done
  <2>1. d.epoch = s.epoch => d.exec < 100 * s.version /\ (IsOpen(s) => d.exec # s.preview.exec)
    BY DEF Sound, Fresh
  <2> QED
    BY <1>1, <1>2, <1>o, <2>1
<1>5. \A x \in taken : x[1] = q.epoch => x[2] < 100 * q.version /\ (IsOpen(q) => x[2] # q.preview.exec)
  <2> TAKE x \in taken
  <2>1. x[1] = s.epoch => x[2] < 100 * s.version /\ (IsOpen(s) => x[2] # s.preview.exec)
    BY DEF Sound, Fresh
  <2> QED
    BY <1>1, <1>2, <1>o, <2>1
<1>6. \A c \in known : Fits(c, q)
  <2> TAKE c \in known
  <2>1. Fits(c, s) /\ c.exec \in Int
    BY DEF Sound
  <2>2. q.intents \in {s.intents, {}}
    BY DEF Softens
  <2> QED
    BY <1>1, <1>2, <1>o, <2>1, <2>2 DEF Fits
<1>7. Fits(OpenClaim(q), q)
  BY <1>1, <1>3, OwnClaimFits
<1> QED
  BY <1>3, <1>4, <1>5, <1>6, <1>7 DEF Sound, Fresh

\* A preview that is cancelled is of the past.
LEMMA SoundCancels ==
  ASSUME NEW s \in Entry, NEW done, NEW taken, NEW known, Sound(s, done, taken, known), IsOpen(s),
         \A d \in done : d.exec \in Int, \A x \in taken : x[2] \in Int, \A c \in known : c.exec \in Int,
         NEW q, Softens(s, q), ~IsOpen(q)
  PROVE  Sound(q, done, taken \cup {<<s.epoch, s.preview.exec>>}, known \cup {OpenClaim(q)})
<1> DEFINE x == <<s.epoch, s.preview.exec>>
<1>1. Sound(q, done, taken, known \cup {OpenClaim(q)})
  BY SoundSoftens
<1>2. x[2] < 100 * q.version
  <2>1. q \in Entry /\ s.version \in Nat /\ q.version \in Nat /\ s.version <= q.version
    BY EntryFields DEF Softens
  <2>2. s.preview # NoPreview /\ s.preview.exec \in Nat /\ s.preview.exec < 100 * s.version
    BY EntryFields, PreviewFields DEF IsOpen, Sound, Fresh
  <2> QED
    BY <2>1, <2>2
<1> HIDE DEF x
<1>3. Fresh(q, done, taken \cup {x})
  BY <1>1, <1>2 DEF Sound, Fresh
<1> QED
  BY <1>1, <1>3 DEF Sound, x

\* A new preview was never done, taken back or claimed.
LEMMA SoundShows ==
  ASSUME NEW s \in Entry, NEW done, NEW taken, NEW known, Sound(s, done, taken, known),
         \A d \in done : d.exec \in Int, \A x \in taken : x[2] \in Int, \A c \in known : c.exec \in Int,
         NEW q, Shows(s, q)
  PROVE  Sound(q, done, taken, known \cup {OpenClaim(q)})
<1>1. q \in Entry /\ s.version \in Nat /\ q.version = s.version + 1 /\ q.epoch = s.epoch
  BY EntryFields DEF Shows
<1>2. 100 * s.version <= 100 * q.version /\ 100 * s.version \in Nat /\ 100 * q.version \in Nat
  BY <1>1
<1>p. q.preview # NoPreview /\ q.preview.exec \in Nat /\ 100 * s.version < q.preview.exec /\ q.preview.exec < 100 * q.version
  BY <1>1, EntryFields, PreviewFields DEF Shows, IsOpen
<1>4. \A d \in done : d.epoch = q.epoch => d.exec < 100 * q.version /\ d.exec # q.preview.exec
  <2> TAKE d \in done
  <2>1. d.epoch = s.epoch => d.exec < 100 * s.version
    BY DEF Sound, Fresh
  <2> QED
    BY <1>1, <1>2, <1>p, <2>1
<1>5. \A x \in taken : x[1] = q.epoch => x[2] < 100 * q.version /\ x[2] # q.preview.exec
  <2> TAKE x \in taken
  <2>1. x[1] = s.epoch => x[2] < 100 * s.version
    BY DEF Sound, Fresh
  <2> QED
    BY <1>1, <1>2, <1>p, <2>1
<1>6. \A c \in known : Fits(c, q)
  <2> TAKE c \in known
  <2>1. Fits(c, s) /\ c.exec \in Int
    BY DEF Sound
  <2> QED
    BY <1>1, <1>2, <1>p, <2>1 DEF Fits
<1>7. Fits(OpenClaim(q), q)
  BY <1>1, <1>p, OwnClaimFits
<1> QED
  BY <1>2, <1>p, <1>4, <1>5, <1>6, <1>7 DEF Sound, Fresh

\* What was handed over is of the past.
LEMMA SoundSent ==
  ASSUME NEW s \in Entry, NEW done, NEW taken, NEW known, Sound(s, done, taken, known), IsOpen(s),
         \A d \in done : d.exec \in Int, \A x \in taken : x[2] \in Int, \A c \in known : c.exec \in Int,
         NEW new, new.exec = s.preview.exec
  PROVE  Sound(Sent(s), done \cup {new}, taken, known)
<1> DEFINE q == Sent(s)
<1>0. /\ q \in Entry /\ q.epoch = s.epoch /\ q.version = s.version + 1
      /\ q.preview # NoPreview /\ q.preview.exec = s.preview.exec /\ ~IsOpen(q)
  BY SentEntry
<1> HIDE DEF q
<1>1. s.version \in Nat /\ 100 * s.version \in Nat /\ 100 * q.version \in Nat /\ 100 * s.version < 100 * q.version
  BY <1>0, EntryFields
<1>2. s.preview # NoPreview /\ s.preview.exec \in Nat /\ 0 < s.preview.exec /\ s.preview.exec < 100 * s.version
  BY EntryFields, PreviewFields DEF IsOpen, Sound, Fresh
<1>3. \A d \in done \cup {new} : d.epoch = q.epoch => d.exec < 100 * q.version
  <2> TAKE d \in done \cup {new}
  <2>1. CASE d = new
    BY <1>1, <1>2, <2>1
  <2>2. CASE d \in done
    <3>1. d.epoch = s.epoch => d.exec < 100 * s.version
      BY <2>2 DEF Sound, Fresh
    <3> QED
      BY <1>0, <1>1, <2>2, <3>1
  <2> QED
    BY <2>1, <2>2
<1>4. \A x \in taken : x[1] = q.epoch => x[2] < 100 * q.version
  <2> TAKE x \in taken
  <2>1. x[1] = s.epoch => x[2] < 100 * s.version
    BY DEF Sound, Fresh
  <2> QED
    BY <1>0, <1>1, <2>1
<1>5. \A c \in known : Fits(c, q)
  <2> TAKE c \in known
  <2>1. Fits(c, s) /\ c.exec \in Int
    BY DEF Sound
  <2> QED
    BY <1>0, <1>1, <2>1 DEF Fits
<1>6. 0 < q.preview.exec /\ q.preview.exec < 100 * q.version
  BY <1>0, <1>1, <1>2
<1> QED
  BY <1>0, <1>3, <1>4, <1>5, <1>6 DEF Sound, Fresh, q

LEMMA SoundAlike ==
  ASSUME NEW s \in Entry, NEW done, NEW taken, NEW known, Sound(s, done, taken, known),
         NEW q, Alike(s, q)
  PROVE  Sound(q, done, taken, known \cup {OpenClaim(s)})
<1>1. IsOpen(q) <=> IsOpen(s)
  BY DEF Alike, IsOpen
<1>2. Fresh(q, done, taken)
  BY <1>1 DEF Sound, Fresh, Alike
<1>3. Fits(OpenClaim(s), s)
  BY OwnClaimFits DEF Sound, Fresh
<1>4. \A c \in known \cup {OpenClaim(s)} : Fits(c, s)
  BY <1>3 DEF Sound
<1>5. \A c \in known \cup {OpenClaim(s)} : Fits(c, q)
  BY <1>1, <1>4 DEF Fits, Alike
<1> QED
  BY <1>2, <1>5 DEF Sound

\* A new session has done nothing, and no claim is of it.
LEMMA NewIsSound ==
  ASSUME NEW e \in 1..MaxEpochs, NEW done, NEW taken, NEW known,
         \A d \in done : d.epoch # e, \A x \in taken : x[1] # e,
         \A c \in known : c.exec # 0 => c.epoch # e
  PROVE  Sound(NewEntry(e), done, taken, known)
<1> DEFINE q == NewEntry(e)
<1>1. q.epoch = e /\ q.preview = NoPreview
  BY NewEntryTyped
<1> HIDE DEF q
<1> QED
  BY <1>1 DEF Sound, Fresh, Fits, q

-----------------------------------------------------------------------------
(* What the ledger remembers *)

LEMMA SoftensRemembers ==
  ASSUME NEW s \in Entry, NEW as, Remembered(s, as), NEW q, Softens(s, q)
  PROVE  Remembered(q, as)
<1>1. q \in Entry /\ s.version \in Nat /\ q.version \in Nat /\ s.version <= q.version
      /\ s.sent \subseteq Dispatched
  BY EntryFields DEF Softens
<1>2. q.sent = s.sent /\ q.ledger = s.ledger /\ (IsOpen(q) => IsOpen(s) /\ q.preview.exec = s.preview.exec)
  BY DEF Softens, IsOpen
<1>3. \A o \in Ops : Silent(q, o) <=> Silent(s, o)
  BY <1>2 DEF Silent
<1>4. \A d \in q.sent : d.exec < 100 * q.version /\ (IsOpen(q) => d.exec # q.preview.exec)
  <2> TAKE d \in q.sent
  <2>1. d.exec < 100 * s.version /\ (IsOpen(s) => d.exec # s.preview.exec) /\ d.exec \in Nat
    BY <1>1, <1>2 DEF Remembered, Dispatched
  <2> QED
    BY <1>1, <1>2, <2>1
<1> QED
  BY <1>2, <1>3, <1>4 DEF Remembered

LEMMA ShowsRemembers ==
  ASSUME NEW s \in Entry, NEW as, Remembered(s, as), NEW q, Shows(s, q)
  PROVE  Remembered(q, as)
<1>1. /\ q \in Entry /\ s.version \in Nat /\ q.version = s.version + 1
      /\ s.sent \subseteq Dispatched /\ q.sent = s.sent /\ q.ledger = s.ledger
  BY EntryFields DEF Shows
<1>2. q.preview.exec \in Nat /\ 100 * s.version < q.preview.exec
  BY <1>1, EntryFields, PreviewFields DEF Shows, IsOpen
<1>3. \A o \in Ops : Silent(q, o) <=> Silent(s, o)
  BY <1>1 DEF Silent
<1>4. \A d \in q.sent : d.exec < 100 * q.version /\ d.exec # q.preview.exec
  <2> TAKE d \in q.sent
  <2>1. d.exec < 100 * s.version /\ d.exec \in Nat
    BY <1>1 DEF Remembered, Dispatched
  <2> QED
    BY <1>1, <1>2, <2>1
<1> QED
  BY <1>1, <1>3, <1>4 DEF Remembered

\* What was out when a turn began has become unknown.
LEMMA ExpiredSettles ==
  ASSUME NEW s \in Entry, Remembered(s, Unreported)
  PROVE  Remembered(Expired(s), Settled)
<1> DEFINE q == Expired(s)
<1>1. /\ Alike(s, q) /\ q.sent = s.sent
      /\ \A o \in Ops : q.ledger[o] # "none" => s.ledger[o] # "none"
      /\ \A o \in Ops : Silent(s, o) =>
           q.ledger[o] = IF s.ledger[o] = "pending" THEN "unknown" ELSE s.ledger[o]
  BY ExpiredAlike
<1> HIDE DEF q
<1>2. q.version = s.version /\ q.preview = s.preview /\ (IsOpen(q) <=> IsOpen(s))
  BY <1>1 DEF Alike, IsOpen
<1>3. \A o \in Ops : Silent(q, o) <=> Silent(s, o)
  BY <1>1 DEF Silent
<1>4. \A o \in Ops : Silent(q, o) => q.ledger[o] \in Settled
  <2> SUFFICES ASSUME NEW o \in Ops, Silent(s, o) PROVE q.ledger[o] = "unknown"
    BY <1>3 DEF Settled
  <2>1. s.ledger[o] \in {"pending", "unknown"}
    BY DEF Remembered, Unreported
  <2> QED
    BY <1>1, <2>1
<1> QED
  BY <1>1, <1>2, <1>4 DEF Remembered, q

\* A report settles the rows of its own execution.
LEMMA ReportedRemembers ==
  ASSUME NEW s \in Entry, NEW as, Remembered(s, as), NEW r, r.rows \in Rows, NEW q \in Reported(s, r)
  PROVE  Remembered(q, as)
<1>1. CASE q = s
  BY <1>1
<1>2. CASE \E d \in s.sent :
              /\ Alike(s, q) /\ q.sent = (s.sent \ {d}) \cup {[d EXCEPT !.reported = TRUE]}
              /\ \A o \in Ops : o \notin d.keys => q.ledger[o] = s.ledger[o]
  <2>1. PICK d \in s.sent :
              /\ Alike(s, q) /\ q.sent = (s.sent \ {d}) \cup {[d EXCEPT !.reported = TRUE]}
              /\ \A o \in Ops : o \notin d.keys => q.ledger[o] = s.ledger[o]
    BY <1>2
  <2> DEFINE b == [d EXCEPT !.reported = TRUE]
  <2>2. d \in Dispatched
    BY EntryFields
  <2>3. b.exec = d.exec /\ b.keys = d.keys /\ b.reported = TRUE
    BY <2>2 DEF Dispatched
  <2> HIDE DEF b
  <2>4. q.sent = (s.sent \ {d}) \cup {b}
    BY <2>1 DEF b
  <2>5. q.version = s.version /\ q.preview = s.preview /\ (IsOpen(q) <=> IsOpen(s))
    BY <2>1 DEF Alike, IsOpen
  <2>6. ASSUME NEW o \in Ops, Silent(q, o) PROVE o \notin d.keys /\ Silent(s, o)
    <3>1. o \notin d.keys
      BY <2>3, <2>4, <2>6 DEF Silent
    <3>2. {x \in s.sent : o \in x.keys} = {x \in q.sent : o \in x.keys}
      BY <2>3, <2>4, <3>1
    <3> QED
      BY <2>6, <3>1, <3>2 DEF Silent
  <2>7. ASSUME NEW o \in Ops, q.ledger[o] # "none" PROVE \E x \in q.sent : o \in x.keys
    <3>1. CASE o \in d.keys
      BY <2>3, <2>4, <3>1
    <3>2. CASE o \notin d.keys
      <4>1. s.ledger[o] # "none"
        BY <2>1, <2>7, <3>2
      <4>2. PICK x \in s.sent : o \in x.keys
        BY <4>1 DEF Remembered
      <4> QED
        BY <2>4, <3>2, <4>2
    <3> QED
      BY <3>1, <3>2
  <2>8. \A x \in q.sent : x.exec < 100 * q.version /\ (IsOpen(q) => x.exec # q.preview.exec)
    BY <2>3, <2>4, <2>5 DEF Remembered
  <2>9. \A o \in Ops : Silent(q, o) => q.ledger[o] \in as
    BY <2>1, <2>6 DEF Remembered
  <2> QED
    BY <2>7, <2>8, <2>9 DEF Remembered
<1>3. \/ q = s
      \/ \E d \in s.sent :
           /\ Alike(s, q) /\ q.sent = (s.sent \ {d}) \cup {[d EXCEPT !.reported = TRUE]}
           /\ \A o \in Ops : o \notin d.keys => q.ledger[o] = s.ledger[o]
  BY ReportedAlike
<1> QED
  BY <1>1, <1>2, <1>3, Zenon

\* A write that is handed over again had a report, or its outcome would be
\* unknown and it would not be handed over.
LEMMA SentRemembers ==
  ASSUME NEW s \in Entry, Remembered(s, Settled), IsOpen(s), s.preview.exec < 100 * s.version,
         \A o \in s.intents : s.ledger[o] # "unknown"
  PROVE  Remembered(Sent(s), Unreported) /\ \A o \in s.intents : ~Silent(s, o)
<1> DEFINE q == Sent(s)
           new == [exec |-> s.preview.exec, keys |-> s.intents, reported |-> FALSE]
<1>0. /\ q \in Entry /\ q.version = s.version + 1 /\ ~IsOpen(q)
      /\ \A o \in Ops : q.ledger[o] = IF o \in s.intents /\ s.ledger[o] = "none" THEN "pending" ELSE s.ledger[o]
      /\ q.sent = IF s.intents = {} THEN s.sent ELSE {d \in s.sent : d.exec # s.preview.exec} \cup {new}
  BY SentEntry
<1> HIDE DEF q
<1>n. new.exec = s.preview.exec /\ new.keys = s.intents
  OBVIOUS
<1> HIDE DEF new
<1>1. s.version \in Nat /\ s.sent \subseteq Dispatched /\ s.intents \subseteq Ops
      /\ s.preview.exec \in Nat
  BY EntryFields, PreviewFields DEF IsOpen
<1>2. \A o \in s.intents : ~Silent(s, o)
  BY <1>1 DEF Remembered, Settled
<1>3. s.sent \subseteq q.sent /\ q.sent \subseteq s.sent \cup {new}
  BY <1>0 DEF Remembered
<1>4. ASSUME NEW o \in Ops, Silent(q, o) PROVE q.ledger[o] \in Unreported
  <2>1. CASE \E d \in s.sent : o \in d.keys
    <3>1. Silent(s, o)
      BY <1>3, <1>4, <2>1 DEF Silent
    <3>2. s.ledger[o] = "unknown"
      BY <3>1 DEF Remembered, Settled
    <3> QED
      BY <1>0, <3>2 DEF Unreported
  <2>2. CASE ~\E d \in s.sent : o \in d.keys
    <3>1. s.ledger[o] = "none"
      BY <2>2 DEF Remembered
    <3>2. o \in s.intents
      BY <1>3, <1>4, <1>n, <2>2 DEF Silent
    <3> QED
      BY <1>0, <3>1, <3>2 DEF Unreported
  <2> QED
    BY <2>1, <2>2
<1>5. ASSUME NEW o \in Ops, q.ledger[o] # "none" PROVE \E d \in q.sent : o \in d.keys
  <2>1. CASE s.ledger[o] # "none"
    BY <1>3, <2>1 DEF Remembered
  <2>2. CASE s.ledger[o] = "none"
    <3>1. o \in s.intents
      BY <1>0, <1>5, <2>2
    <3>2. new \in q.sent
      BY <1>0, <3>1
    <3> QED
      BY <1>n, <3>1, <3>2
  <2> QED
    BY <2>1, <2>2
<1>6. \A d \in q.sent : d.exec < 100 * q.version
  <2> TAKE d \in q.sent
  <2>1. d.exec \in Nat /\ d.exec < 100 * s.version
    BY <1>1, <1>3, <1>n DEF Remembered, Dispatched
  <2> QED
    BY <1>0, <1>1, <2>1
<1> QED
  BY <1>0, <1>2, <1>4, <1>5, <1>6 DEF Remembered, q

LEMMA NewRemembers ==
  ASSUME NEW e \in 1..MaxEpochs, NEW upto \in [Entities -> Nat]
  PROVE  Remembered(NewEntry(e), Settled) /\ Remembered(NewEntry(e), Unreported) /\ Captured(NewEntry(e), upto)
<1> DEFINE q == NewEntry(e)
<1>1. /\ q.sent = {} /\ q.intents = {}
      /\ \A o \in Ops : q.ops[o] = Absent /\ q.ledger[o] = "none"
      /\ \A x \in Entities : q.fp[x] = Absent
  BY NewEntryTyped
<1> HIDE DEF q
<1>2. \A x \in Entities : Absent <= upto[x]
  BY DEF Absent
<1>3. \A o \in Ops : TargetOf[o] # NoEntity => TargetOf[o] \in Entities
  BY Targets
<1>4. \A o \in Ops : ~Silent(q, o)
  BY <1>1 DEF Silent
<1> QED
  BY <1>1, <1>2, <1>3, <1>4 DEF Remembered, Captured, q

-----------------------------------------------------------------------------
(* What a turn does *)

Replies == [n : Int, outcome : {"other", "confirm", "act"}, what : SUBSET Ops, plan : BOOLEAN, claim : Claims]

\* The turn ends, its session as q; its answer has the claim of q's preview.
Says(i, q) ==
  /\ turn' = [turn EXCEPT ![i] = Idle]
  /\ entries' = IF Live(i) /\ entries[i].epoch = q.epoch THEN [entries EXCEPT ![i] = q] ELSE entries
  /\ \E a \in Replies : a.claim = OpenClaim(q) /\ answers' \in {answers, answers \cup {a}}
  /\ UNCHANGED <<rev, reqs, browser, count, dispatches>>

\* The turn goes on to read the rows of a confirmation that may apply.
Confirms(i) ==
  /\ turn' = [turn EXCEPT ![i].stage = "read"]
  /\ turn[i].stage = "think" /\ MayApply(turn[i].s, turn[i].req.claim)
  /\ UNCHANGED <<rev, entries, reqs, answers, browser, count, history>>

LEMMA TurnTyped ==
  ASSUME TypeInv, NEW i \in Sids
  PROVE  /\ Busy(i) => turn[i] \in Turns
         /\ Live(i) => entries[i] \in Entry
         /\ \A t \in Turns : /\ t.req \in Requests /\ t.s \in Entry /\ t.catalog \in [Entities -> Nat]
                             /\ t.reads \in [Entities -> Int] /\ t.stage \in {"think", "read"} /\ t # Idle
         /\ \A r \in Requests : r.n \in Int /\ r.sid \in Sids /\ r.claim \in Claims /\ r.rows \in Rows
                                /\ r.exec \in Nat
<1>1. \A t \in Turns : /\ t.req \in Requests /\ t.s \in Entry /\ t.catalog \in [Entities -> Nat]
                       /\ t.reads \in [Entities -> Int] /\ t.stage \in {"think", "read"} /\ t # Idle
  BY DEF Turns, Idle
<1>2. \A r \in Requests : r.n \in Int /\ r.sid \in Sids /\ r.claim \in Claims /\ r.rows \in Rows
                          /\ r.exec \in Nat
  BY DEF Requests
<1>3. turn \in [Sids -> {Idle} \cup Turns] /\ entries \in [Sids -> {Gone} \cup Entry]
  BY DEF TypeInv, TypeOK, Turns
<1> QED
  BY <1>1, <1>2, <1>3 DEF Busy, Live

LEMMA AnswerSays ==
  ASSUME TypeInv, NEW i \in Sids, Busy(i), NEW q \in Entry, NEW what \in SUBSET Ops,
         NEW outcome \in {"other", "confirm", "act"}, \E plan \in BOOLEAN : Answer(i, q, outcome, what, plan)
  PROVE  Says(i, q)
<1>1. PICK plan \in BOOLEAN : Answer(i, q, outcome, what, plan)
  OBVIOUS
<1>2. turn[i].req.n \in Int /\ OpenClaim(q) \in Claims
  BY TurnTyped, ClaimsTyped
<1> DEFINE a == [n |-> turn[i].req.n, outcome |-> outcome, what |-> what, plan |-> plan, claim |-> OpenClaim(q)]
<1>3. a \in Replies /\ a.claim = OpenClaim(q)
  BY <1>2 DEF Replies
<1>4. answers' \in {answers, answers \cup {a}}
  BY <1>1 DEF Answer, Finish
<1> HIDE DEF a
<1>5. \E x \in Replies : x.claim = OpenClaim(q) /\ answers' \in {answers, answers \cup {x}}
  BY <1>3, <1>4
<1>6. /\ turn' = [turn EXCEPT ![i] = Idle]
      /\ entries' = IF Live(i) /\ entries[i].epoch = q.epoch THEN [entries EXCEPT ![i] = q] ELSE entries
      /\ UNCHANGED <<rev, reqs, browser, count, dispatches>>
  BY <1>1 DEF Answer, Finish, Live
<1> QED
  BY <1>5, <1>6 DEF Says

\* A turn that shows nothing new.
Soft(i) == \E q : Says(i, q) /\ Softens(turn[i].s, q) /\ UNCHANGED withdrawn
Cancels(i) ==
  \E q : /\ Says(i, q) /\ IsOpen(turn[i].s) /\ Softens(turn[i].s, q) /\ ~IsOpen(q)
         /\ withdrawn' = withdrawn \cup {<<turn[i].s.epoch, turn[i].s.preview.exec>>}
ShowsNew(i) ==
  \E q : /\ Says(i, q) /\ Shows(turn[i].s, q) /\ UNCHANGED withdrawn
         /\ Captured(turn[i].s, turn[i].catalog) => Captured(q, turn[i].catalog)

LEMMA SoftBy ==
  ASSUME TypeInv, NEW i \in Sids, Busy(i), NEW q, Softens(turn[i].s, q), NEW what \in SUBSET Ops,
         NEW outcome \in {"other", "confirm", "act"}, \E plan \in BOOLEAN : Answer(i, q, outcome, what, plan),
         UNCHANGED withdrawn
  PROVE  Soft(i)
<1>1. q \in Entry
  BY DEF Softens
<1>2. Says(i, q)
  BY <1>1, AnswerSays
<1> QED
  BY <1>2 DEF Soft

LEMMA CancelledSteps ==
  ASSUME TypeInv, NEW i \in Sids, Busy(i), Cancelled(i, turn[i].s)
  PROVE  Soft(i) \/ Cancels(i)
<1> DEFINE s == turn[i].s
           q == [ClearPending(Retire(s)) EXCEPT !.dropped = @ \cup Pending(s)]
<1>s. s \in Entry
  BY TurnTyped
<1>b. FALSE \in BOOLEAN /\ {} \in SUBSET Ops /\ "other" \in {"other", "confirm", "act"}
  OBVIOUS
<1>1. \/ \E plan \in BOOLEAN : Answer(i, ClearPending(s), "other", {}, plan) /\ UNCHANGED withdrawn
      \/ \E plan \in BOOLEAN : Answer(i, s, "other", {}, plan) /\ UNCHANGED withdrawn
      \/ /\ IsOpen(s) /\ withdrawn' = withdrawn \cup {<<s.epoch, s.preview.exec>>}
         /\ \E plan \in BOOLEAN : Answer(i, q, "other", {}, plan)
  BY <1>b, Zenon DEF Cancelled
<1>2. CASE \E plan \in BOOLEAN : Answer(i, ClearPending(s), "other", {}, plan) /\ UNCHANGED withdrawn
  <2>1. Softens(s, ClearPending(s))
    BY <1>s, MoreSoftenings
  <2> QED
    BY <1>2, <1>b, <2>1, SoftBy
<1>3. CASE \E plan \in BOOLEAN : Answer(i, s, "other", {}, plan) /\ UNCHANGED withdrawn
  <2>1. Softens(s, s)
    BY <1>s, Softenings
  <2> QED
    BY <1>3, <1>b, <2>1, SoftBy
<1>4. CASE /\ IsOpen(s) /\ withdrawn' = withdrawn \cup {<<s.epoch, s.preview.exec>>}
           /\ \E plan \in BOOLEAN : Answer(i, q, "other", {}, plan)
  <2> DEFINE x == ClearPending(Retire(s)).dropped \cup Pending(s)
             p == [ClearPending(Retire(s)) EXCEPT !.dropped = x]
  <2>1. ClearPending(Retire(s)).dropped \subseteq Ops
    <3>1. ClearPending(Retire(s)).dropped = s.dropped
      BY <1>s DEF ClearPending, Retire, Entry
    <3> QED
      BY <1>s, <3>1, EntryFields
  <2>2. x \in SUBSET Ops
    BY <2>1 DEF Pending
  <2>3. q = p
    OBVIOUS
  <2> HIDE DEF x
  <2>4. Softens(s, p) /\ ~IsOpen(p)
    BY <1>4, <1>s, <2>2, CancelSoftens
  <2> HIDE DEF p, q
  <2>5. p \in Entry
    BY <2>4 DEF Softens
  <2>6. Says(i, p)
    BY <1>4, <1>b, <2>3, <2>5, AnswerSays
  <2> QED
    BY <1>4, <2>4, <2>6 DEF Cancels
<1> QED
  BY <1>1, <1>2, <1>3, <1>4

LEMMA ShowsBy ==
  ASSUME TypeInv, NEW i \in Sids, Busy(i), NEW q, Shows(turn[i].s, q), NEW what \in SUBSET Ops,
         NEW outcome \in {"other", "confirm", "act"}, \E plan \in BOOLEAN : Answer(i, q, outcome, what, plan),
         Captured(turn[i].s, turn[i].catalog) => Captured(q, turn[i].catalog),
         UNCHANGED withdrawn
  PROVE  ShowsNew(i)
<1>1. q \in Entry
  BY DEF Shows
<1>2. Says(i, q)
  BY <1>1, AnswerSays
<1> QED
  BY <1>2 DEF ShowsNew

\* Operations carried over or asked for, at the revisions they are captured at.
LEMMA GroupTyped ==
  ASSUME NEW s \in Entry, NEW upto \in [Entities -> Nat], NEW keep \in SUBSET Ops, NEW asked \in SUBSET Ops
  PROVE  LET ops == [o \in Ops |->
                       IF o \in keep THEN s.ops[o]
                       ELSE IF o \notin asked THEN Absent
                       ELSE IF TargetOf[o] = NoEntity THEN 0 ELSE upto[TargetOf[o]]]
         IN  /\ ops \in [Ops -> Int]
             /\ Captured(s, upto) => \A o \in Ops : TargetOf[o] # NoEntity => ops[o] <= upto[TargetOf[o]]
<1> DEFINE ops == [o \in Ops |->
                     IF o \in keep THEN s.ops[o]
                     ELSE IF o \notin asked THEN Absent
                     ELSE IF TargetOf[o] = NoEntity THEN 0 ELSE upto[TargetOf[o]]]
<1>1. s.ops \in [Ops -> Int] /\ \A o \in Ops : TargetOf[o] # NoEntity => upto[TargetOf[o]] \in Nat
  BY EntryFields, Targets
<1>2. ops \in [Ops -> Int]
  BY <1>1 DEF Absent
<1>3. ASSUME Captured(s, upto), NEW o \in Ops, TargetOf[o] # NoEntity PROVE ops[o] <= upto[TargetOf[o]]
  <2>1. s.ops[o] <= upto[TargetOf[o]]
    BY <1>3 DEF Captured
  <2> QED
    BY <1>1, <1>3, <2>1 DEF Absent
<1> QED
  BY <1>2, <1>3

LEMMA ChangeSteps ==
  ASSUME TypeInv, NEW i \in Sids, SayChange(i)
  PROVE  Soft(i) \/ Cancels(i) \/ ShowsNew(i)
<1> DEFINE s == turn[i].s
           catalog == turn[i].catalog
<1>b. Busy(i)
  BY DEF SayChange, Thinks, Busy
<1>s. s \in Entry /\ catalog \in [Entities -> Nat]
  BY <1>b, TurnTyped
<1>1. PICK keep \in SUBSET Carried(s), asked \in SUBSET Ops :
        LET ops == [o \in Ops |->
                     IF o \in keep THEN s.ops[o]
                     ELSE IF o \notin asked THEN Absent
                     ELSE IF TargetOf[o] = NoEntity THEN 0 ELSE catalog[TargetOf[o]]]
        IN  IF keep \cup asked = {}
            THEN IsOpen(s) /\ Cancelled(i, s)
            ELSE \E k \in IdCounts :
                   LET shown == [Publish(s, ops, k) EXCEPT !.dropped = @ \ asked]
                   IN Answer(i, shown, "confirm", shown.intents, FALSE) /\ UNCHANGED withdrawn
  BY DEF SayChange
<1>2. CASE keep \cup asked = {}
  BY <1>1, <1>2, <1>b, CancelledSteps
<1>3. CASE keep \cup asked # {}
  <2> DEFINE ops == [o \in Ops |->
                     IF o \in keep THEN s.ops[o]
                     ELSE IF o \notin asked THEN Absent
                     ELSE IF TargetOf[o] = NoEntity THEN 0 ELSE catalog[TargetOf[o]]]
  <2>1. PICK k \in IdCounts :
          Answer(i, [Publish(s, ops, k) EXCEPT !.dropped = @ \ asked], "confirm",
                 [Publish(s, ops, k) EXCEPT !.dropped = @ \ asked].intents, FALSE) /\ UNCHANGED withdrawn
    BY <1>1, <1>3
  <2>2. keep \in SUBSET Ops
    BY DEF Carried, Pending
  <2>3. ops \in [Ops -> Int]
        /\ (Captured(s, catalog) => \A o \in Ops : TargetOf[o] # NoEntity => ops[o] <= catalog[TargetOf[o]])
    BY <1>s, <2>2, GroupTyped
  <2> HIDE DEF ops
  <2>4. k \in 1..99
    BY IdsFit
  <2> DEFINE p == Publish(s, ops, k)
             x == p.dropped \ asked
             q == [p EXCEPT !.dropped = x]
  <2>5. Shows(s, p)
    BY <1>s, <2>3, <2>4, PublishShows
  <2>6. Captured(s, catalog) => Captured(p, catalog)
    BY <1>s, <2>3, <2>4, PublishCaptures
  <2>a. \E plan \in BOOLEAN : Answer(i, q, "confirm", q.intents, plan)
    BY <2>1
  <2> HIDE DEF p
  <2>7. x \in SUBSET Ops
    BY <2>5, EntryFields DEF Shows
  <2> HIDE DEF x
  <2>8. Shows(s, q) /\ q.ops = p.ops /\ q.fp = p.fp /\ q.intents = p.intents
    BY <1>s, <2>5, <2>7, ShowsAsked
  <2> HIDE DEF q
  <2>9. Captured(s, catalog) => Captured(q, catalog)
    BY <2>6, <2>8 DEF Captured
  <2>10. q.intents \in SUBSET Ops
    BY <2>8, EntryFields DEF Shows
  <2> QED
    BY <1>b, <2>1, <2>8, <2>9, <2>10, <2>a, ShowsBy
<1> QED
  BY <1>2, <1>3

LEMMA PlanSteps ==
  ASSUME TypeInv, NEW i \in Sids, BuildPlan(i)
  PROVE  Soft(i) \/ ShowsNew(i)
<1> DEFINE s == turn[i].s
           catalog == turn[i].catalog
<1>b. Busy(i)
  BY DEF BuildPlan, Thinks, Busy
<1>s. s \in Entry /\ catalog \in [Entities -> Nat] /\ s.draft \in BOOLEAN
  BY <1>b, TurnTyped, EntryFields
<1>u. UNCHANGED withdrawn
  BY DEF BuildPlan
<1>c. {} \in SUBSET Ops /\ "other" \in {"other", "confirm", "act"} /\ "confirm" \in {"other", "confirm", "act"}
  OBVIOUS
<1>1. PICK what \in SUBSET PlanOps :
        IF what = {} \/ ~s.draft
        THEN \E shown \in {FALSE, s.draft} : Answer(i, s, "other", {}, shown)
        ELSE Answer(i, [PublishPlan(s, what, catalog) EXCEPT !.dropped = @ \ what], "confirm", what, TRUE)
  BY DEF BuildPlan
<1>2. CASE what = {} \/ ~s.draft
  <2>1. \E plan \in BOOLEAN : Answer(i, s, "other", {}, plan)
    BY <1>1, <1>2, <1>s
  <2>2. Softens(s, s)
    BY <1>s, Softenings
  <2> QED
    BY <1>b, <1>c, <1>u, <2>1, <2>2, SoftBy
<1>3. CASE ~(what = {} \/ ~s.draft)
  <2>2. what \in SUBSET Ops
    BY PlanIsApart
  <2> DEFINE p == PublishPlan(s, what, catalog)
             x == p.dropped \ what
             q == [p EXCEPT !.dropped = x]
  <2>5. Shows(s, p)
    BY <1>s, <2>2, PublishPlanShows
  <2>6. Captured(s, catalog) => Captured(p, catalog)
    BY <1>s, <2>2, PublishPlanCaptures
  <2>a. \E plan \in BOOLEAN : Answer(i, q, "confirm", what, plan)
    BY <1>1, <1>3
  <2> HIDE DEF p
  <2>7. x \in SUBSET Ops
    BY <2>5, EntryFields DEF Shows
  <2> HIDE DEF x
  <2>8. Shows(s, q) /\ q.ops = p.ops /\ q.fp = p.fp /\ q.intents = p.intents
    BY <1>s, <2>5, <2>7, ShowsAsked
  <2> HIDE DEF q
  <2>9. Captured(s, catalog) => Captured(q, catalog)
    BY <2>6, <2>8 DEF Captured
  <2> QED
    BY <1>b, <1>c, <1>u, <2>2, <2>8, <2>9, <2>a, ShowsBy
<1> QED
  BY <1>2, <1>3

LEMMA SaySteps ==
  ASSUME TypeInv, NEW i \in Sids, SayNothing(i) \/ SayClarify(i) \/ SayCancel(i) \/ SayDraft(i)
  PROVE  Soft(i) \/ Cancels(i)
<1> DEFINE s == turn[i].s
<1>b. Busy(i)
  BY DEF SayNothing, SayClarify, SayCancel, SayDraft, Thinks, Busy
<1>s. s \in Entry /\ s.intents \in SUBSET Ops
  BY <1>b, TurnTyped, EntryFields
<1>c. {} \in SUBSET Ops /\ "other" \in {"other", "confirm", "act"} /\ "confirm" \in {"other", "confirm", "act"}
  OBVIOUS
<1>m. /\ Softens(s, s)
      /\ Softens(s, [ClearPending(s) EXCEPT !.draft = FALSE])
      /\ Softens(s, [s EXCEPT !.draft = TRUE])
      /\ Softens(s, [s EXCEPT !.question = TRUE, !.blocks = TRUE, !.version = @ + 1])
      /\ Softens(s, LockOpen([s EXCEPT !.question = TRUE]))
      /\ Softens(s, LockOpen(s))
  BY <1>s, Softenings, MoreSoftenings
<1>t. FALSE \in BOOLEAN /\ TRUE \in BOOLEAN
  OBVIOUS
<1>1. CASE SayNothing(i)
  <2>1. \/ \E plan \in BOOLEAN : Answer(i, s, "other", {}, plan)
        \/ \E plan \in BOOLEAN : Answer(i, s, "confirm", s.intents, plan)
    BY <1>1, <1>t, Zenon DEF SayNothing
  <2>2. UNCHANGED withdrawn
    BY <1>1 DEF SayNothing
  <2> QED
    BY <1>b, <1>c, <1>m, <1>s, <2>1, <2>2, SoftBy
<1>2. CASE SayClarify(i)
  <2>1. \E q \in {[s EXCEPT !.question = TRUE, !.blocks = TRUE, !.version = @ + 1],
                  LockOpen([s EXCEPT !.question = TRUE]), LockOpen(s)} :
          \E plan \in BOOLEAN : Answer(i, q, "other", {}, plan)
    BY <1>2, <1>t, Zenon DEF SayClarify
  <2>2. UNCHANGED withdrawn
    BY <1>2 DEF SayClarify
  <2>3. PICK q : Softens(s, q) /\ \E plan \in BOOLEAN : Answer(i, q, "other", {}, plan)
    BY <1>m, <2>1
  <2> QED
    BY <1>b, <1>c, <2>2, <2>3, SoftBy
<1>3. CASE SayCancel(i)
  BY <1>3, <1>b, CancelledSteps DEF SayCancel
<1>4. CASE SayDraft(i)
  <2>1. \/ \E plan \in BOOLEAN : Answer(i, [s EXCEPT !.draft = TRUE], "other", {}, plan)
        \/ \E plan \in BOOLEAN : Answer(i, [ClearPending(s) EXCEPT !.draft = FALSE], "other", {}, plan)
    BY <1>4, <1>t, Zenon DEF SayDraft
  <2>2. UNCHANGED withdrawn
    BY <1>4 DEF SayDraft
  <2>3. PICK q : Softens(s, q) /\ \E plan \in BOOLEAN : Answer(i, q, "other", {}, plan)
    BY <1>m, <2>1
  <2> QED
    BY <1>b, <1>c, <2>2, <2>3, SoftBy
<1> QED
  BY <1>1, <1>2, <1>3, <1>4

LEMMA ConfirmSteps ==
  ASSUME TypeInv, NEW i \in Sids, Confirm(i) \/ ReadFails(i) \/ Stale(i)
  PROVE  Soft(i) \/ Confirms(i)
<1> DEFINE s == turn[i].s
<1>b. Busy(i)
  BY DEF Confirm, ReadFails, Stale, Thinks, Busy
<1>s. s \in Entry /\ Softens(s, s)
  BY <1>b, TurnTyped, Softenings
<1>c. {} \in SUBSET Ops /\ "other" \in {"other", "confirm", "act"} /\ FALSE \in BOOLEAN
  OBVIOUS
<1>1. CASE Confirm(i) /\ ~MayApply(s, turn[i].req.claim)
  <2>1. \E plan \in BOOLEAN : Answer(i, s, "other", {}, plan)
    BY <1>1, <1>c, Zenon DEF Confirm
  <2>2. UNCHANGED withdrawn
    BY <1>1 DEF Confirm
  <2> QED
    BY <1>b, <1>c, <1>s, <2>1, <2>2, SoftBy
<1>2. CASE Confirm(i) /\ MayApply(s, turn[i].req.claim)
  <2>1. turn[i].stage = "think"
    BY <1>2 DEF Confirm, Thinks
  <2> QED
    BY <1>2, <2>1 DEF Confirm, Confirms
<1>3. CASE ReadFails(i)
  <2>1. \E plan \in BOOLEAN : Answer(i, s, "other", {}, plan)
    BY <1>3, <1>c, Zenon DEF ReadFails
  <2>2. UNCHANGED withdrawn
    BY <1>3 DEF ReadFails
  <2> QED
    BY <1>b, <1>c, <1>s, <2>1, <2>2, SoftBy
<1>4. CASE Stale(i)
  <2> DEFINE q == [ClearPending(s) EXCEPT !.preview.state = "superseded"]
  <2>1. \E plan \in BOOLEAN : Answer(i, q, "other", {}, plan)
    BY <1>4, <1>c, Zenon DEF Stale
  <2>2. UNCHANGED withdrawn
    BY <1>4 DEF Stale
  <2>3. s.preview # NoPreview
    BY <1>4, <1>b DEF Stale, TypeInv, Confirming, MayApply, IsOpen
  <2>4. Softens(s, q)
    BY <1>s, <2>3, MoreSoftenings
  <2> HIDE DEF q
  <2> QED
    BY <1>b, <1>c, <2>1, <2>2, <2>4, SoftBy
<1> QED
  BY <1>1, <1>2, <1>3, <1>4

LEMMA TurnSteps ==
  ASSUME TypeInv, NEW i \in Sids, Turn(i)
  PROVE  /\ Busy(i)
         /\ \/ Soft(i) \/ Cancels(i) \/ ShowsNew(i) \/ Confirms(i)
            \/ \E e \in Entities : ReadTarget(i, e)
            \/ Apply(i)
<1>1. Busy(i)
  BY DEF Turn, SayNothing, SayClarify, SayCancel, SayChange, SayDraft, BuildPlan, Confirm, ReadTarget,
         ReadFails, Stale, Apply, Thinks, Busy
<1> QED
  BY <1>1, SaySteps, ChangeSteps, PlanSteps, ConfirmSteps DEF Turn

-----------------------------------------------------------------------------
(* Every step keeps the types *)

Calls == [n : Int, kind : {"say", "confirm", "cancel", "build", "report"}, spoken : BOOLEAN]
Batches == [n : Nat, what : SUBSET Ops, exec : Nat, spoken : BOOLEAN]

LEMMA Typed ==
  TypeOK <=> /\ rev \in [Entities -> Nat] /\ entries \in [Sids -> {Gone} \cup Entry]
             /\ turn \in [Sids -> {Idle} \cup Turns] /\ reqs \subseteq Requests
             /\ answers \subseteq Replies /\ panel \in Panels /\ calls \subseteq Calls
             /\ batches \subseteq Batches /\ count \in Counts
BY DEF TypeOK, Turns, Replies, Calls, Batches, Counts

LEMMA TypedNext ==
  TypeOK' <=> /\ rev' \in [Entities -> Nat] /\ entries' \in [Sids -> {Gone} \cup Entry]
              /\ turn' \in [Sids -> {Idle} \cup Turns] /\ reqs' \subseteq Requests
              /\ answers' \subseteq Replies /\ panel' \in Panels /\ calls' \subseteq Calls
              /\ batches' \subseteq Batches /\ count' \in Counts
BY DEF TypeOK, Turns, Replies, Calls, Batches, Counts

LEMMA SaysTyped ==
  ASSUME TypeInv, NEW i \in Sids, NEW q \in Entry, Says(i, q)
  PROVE  TypeInv'
<1>0. TypeOK
  BY DEF TypeInv
<1>1. turn' \in [Sids -> {Idle} \cup Turns] /\ entries' \in [Sids -> {Gone} \cup Entry]
  BY <1>0, Typed DEF Says
<1>2. answers' \subseteq Replies
  BY <1>0, Typed DEF Says
<1>3. Confirming'
  BY <1>0, Typed DEF Says, TypeInv, Confirming, Busy
<1>4. UNCHANGED <<rev, reqs, panel, calls, batches, count>>
  BY DEF Says, browser
<1>5. TypeOK'
  BY <1>0, <1>1, <1>2, <1>4, Typed, TypedNext
<1> QED
  BY <1>3, <1>4, <1>5 DEF TypeInv, Numbered

LEMMA TurnTypeInv ==
  ASSUME TypeInv, NEW i \in Sids, Turn(i)
  PROVE  TypeInv'
<1>0. TypeOK /\ Busy(i) /\ turn[i] \in Turns
  BY TurnSteps, TurnTyped DEF TypeInv
<1>1. CASE \E q \in Entry : Says(i, q)
  BY <1>1, SaysTyped
<1>2. CASE Confirms(i)
  <2> DEFINE t == [turn[i] EXCEPT !.stage = "read"]
  <2>1. t \in Turns /\ t.s = turn[i].s /\ t.req = turn[i].req
    BY <1>0 DEF Turns
  <2>2. turn' = [turn EXCEPT ![i] = t]
    BY <1>2 DEF Confirms
  <2> HIDE DEF t
  <2>3. turn' \in [Sids -> {Idle} \cup Turns]
    BY <1>0, <2>1, <2>2, Typed
  <2>4. UNCHANGED <<rev, entries, reqs, answers, panel, calls, batches, count>>
    BY <1>2 DEF Confirms, browser
  <2>5. TypeOK'
    BY <1>0, <2>3, <2>4, Typed, TypedNext
  <2>6. Confirming'
    BY <1>0, <1>2, <2>1, <2>2, Typed DEF Confirms, TypeInv, Confirming, Busy
  <2> QED
    BY <2>4, <2>5, <2>6 DEF TypeInv, Numbered
<1>3. CASE \E e \in Entities : ReadTarget(i, e)
  <2>0. PICK e \in Entities : ReadTarget(i, e)
    BY <1>3
  <2> DEFINE f == [turn[i].reads EXCEPT ![e] = rev[e]]
             t == [turn[i] EXCEPT !.reads = f]
  <2>f. f \in [Entities -> Int]
    BY <1>0, Typed, TurnTyped
  <2>2. turn' = [turn EXCEPT ![i] = t]
    BY <2>0 DEF ReadTarget
  <2> HIDE DEF f
  <2>1. t \in Turns /\ t.s = turn[i].s /\ t.req = turn[i].req /\ t.stage = turn[i].stage
    BY <1>0, <2>f DEF Turns
  <2> HIDE DEF t
  <2>3. turn' \in [Sids -> {Idle} \cup Turns]
    BY <1>0, <2>1, <2>2, Typed
  <2>4. UNCHANGED <<rev, entries, reqs, answers, panel, calls, batches, count>>
    BY <2>0 DEF ReadTarget, browser
  <2>5. TypeOK'
    BY <1>0, <2>3, <2>4, Typed, TypedNext
  <2>6. Confirming'
    BY <1>0, <2>1, <2>2, Typed DEF TypeInv, Confirming, Busy
  <2> QED
    BY <2>4, <2>5, <2>6 DEF TypeInv, Numbered
<1>4. CASE Apply(i)
  <2> DEFINE s == turn[i].s
             claim == turn[i].req.claim
             a == [n |-> turn[i].req.n, outcome |-> "act", what |-> s.intents, plan |-> FALSE,
                   claim |-> IF s.intents = {} THEN NoClaim ELSE claim]
  <2>1. s \in Entry /\ claim \in Claims /\ turn[i].req.n \in Int /\ s.intents \in SUBSET Ops
    BY <1>0, TurnTyped, EntryFields
  <2>2. IsOpen(s)
    BY <1>0, <1>4 DEF Apply, TypeInv, Confirming, MayApply
  <2>3. Sent(s) \in Entry
    BY <2>1, <2>2, SentEntry
  <2>4. a \in Replies
    BY <2>1, ClaimsTyped DEF Replies
  <2>5. answers' \in {answers, answers \cup {a}}
    BY <1>4 DEF Apply, Finish
  <2> HIDE DEF a
  <2>6. turn' = [turn EXCEPT ![i] = Idle]
    BY <1>4 DEF Apply, Finish
  <2>7. entries' \in {entries, [entries EXCEPT ![i] = Sent(s)]}
    BY <1>4 DEF Apply, Finish
  <2>8. UNCHANGED <<rev, reqs, panel, calls, batches, count>>
    BY <1>4 DEF Apply, browser
  <2>9. turn' \in [Sids -> {Idle} \cup Turns] /\ entries' \in [Sids -> {Gone} \cup Entry]
    BY <1>0, <2>3, <2>6, <2>7, Typed
  <2>10. answers' \subseteq Replies
    BY <1>0, <2>4, <2>5, Typed
  <2>11. TypeOK'
    BY <1>0, <2>8, <2>9, <2>10, Typed, TypedNext
  <2>12. Confirming'
    BY <1>0, <2>6, Typed DEF TypeInv, Confirming, Busy
  <2> QED
    BY <2>8, <2>11, <2>12 DEF TypeInv, Numbered
<1> QED
  BY <1>1, <1>2, <1>3, <1>4, TurnSteps DEF Soft, Cancels, ShowsNew, Softens, Shows

\* The session a call is for, and the count of sessions with it.
LEMMA SessionTyped ==
  ASSUME TypeInv, NEW r \in reqs, NEW e, e <= MaxEpochs,
         \/ entries[r.sid] = Gone /\ e = count.epochs + 1
         \/ entries[r.sid] # Gone /\ e = entries[r.sid].epoch
  PROVE  /\ e \in 1..MaxEpochs /\ r \in Requests /\ r.sid \in Sids
         /\ [count EXCEPT !.epochs = IF e > @ THEN e ELSE @] \in Counts
<1>0. TypeOK /\ count \in Counts /\ r \in Requests
  BY Typed DEF TypeInv
<1>a. r.sid \in Sids
  BY <1>0 DEF Requests
<1>b. count.epochs \in Nat /\ MaxEpochs \in Nat
  BY <1>0, Bounds DEF Counts
<1>1. r.sid \in Sids /\ count.epochs \in Nat /\ MaxEpochs \in Nat
  BY <1>a, <1>b
<1>2. entries[r.sid] # Gone => entries[r.sid].epoch \in 1..MaxEpochs
  BY <1>0, <1>1, Typed, EntryFields
<1>3. e \in 1..MaxEpochs
  BY <1>1, <1>2
<1>4. e \in 0..MaxEpochs
  BY <1>1, <1>3
<1>5. [count EXCEPT !.epochs = IF e > @ THEN e ELSE @] \in Counts
  BY <1>0, <1>4, CountUpdates
<1> QED
  BY <1>0, <1>1, <1>3, <1>5

LEMMA ServerTypeInv ==
  ASSUME TypeInv, Server
  PROVE  TypeInv'
<1>0. TypeOK /\ Numbered
  BY DEF TypeInv
<1>1. ASSUME NEW r \in reqs, Begin(r) PROVE TypeInv'
  <2> DEFINE s == IF entries[r.sid] = Gone THEN NewEntry(count.epochs + 1) ELSE Expired(entries[r.sid])
             t == [req |-> r, s |-> s, catalog |-> rev, stage |-> "think",
                   reads |-> [e \in Entities |-> Absent]]
  <2>1. /\ s.epoch <= MaxEpochs /\ entries' = [entries EXCEPT ![r.sid] = s]
        /\ turn' = [turn EXCEPT ![r.sid] = t]
        /\ count' = [count EXCEPT !.epochs = IF s.epoch > @ THEN s.epoch ELSE @]
    BY <1>1 DEF Begin
  <2>q. r \in Requests
    BY <1>0, Typed
  <2>p. r.sid \in Sids
    BY <2>q DEF Requests
  <2>r. r.sid \in Sids /\ entries[r.sid] \in {Gone} \cup Entry /\ count \in Counts
    BY <1>0, <2>p, Typed
  <2>n. entries[r.sid] = Gone => NewEntry(count.epochs + 1).epoch = count.epochs + 1
    BY DEF NewEntry
  <2>2. \/ entries[r.sid] = Gone /\ s.epoch = count.epochs + 1
        \/ entries[r.sid] # Gone /\ s.epoch = entries[r.sid].epoch
    BY <2>r, <2>n, ExpiredAlike DEF Alike
  <2>3. s \in Entry
    <3>1. CASE entries[r.sid] = Gone
      <4>1. count.epochs + 1 \in 1..MaxEpochs
        BY <2>1, <2>2, <3>1, SessionTyped
      <4> QED
        BY <3>1, <4>1, NewEntryTyped
    <3>2. CASE entries[r.sid] # Gone
      BY <2>r, <3>2, ExpiredAlike DEF Alike
    <3> QED
      BY <3>1, <3>2
  <2> HIDE DEF s
  <2>4. r \in Requests /\ [count EXCEPT !.epochs = IF s.epoch > @ THEN s.epoch ELSE @] \in Counts
    BY <2>1, <2>2, SessionTyped
  <2>5. t \in Turns /\ t.stage = "think"
    BY <1>0, <2>3, <2>4, Typed DEF Turns, Absent
  <2> HIDE DEF t
  <2>6. entries' \in [Sids -> {Gone} \cup Entry] /\ turn' \in [Sids -> {Idle} \cup Turns]
    BY <1>0, <2>1, <2>3, <2>5, Typed
  <2>7. reqs' \subseteq reqs /\ UNCHANGED <<rev, answers, panel, calls, batches>>
    BY <1>1 DEF Begin, browser
  <2>8. TypeOK'
    BY <1>0, <2>1, <2>4, <2>6, <2>7, Typed, TypedNext
  <2>9. Confirming'
    BY <1>0, <2>1, <2>5, Typed DEF TypeInv, Confirming, Busy
  <2> QED
    BY <1>0, <2>7, <2>8, <2>9 DEF TypeInv, Numbered
<1>2. ASSUME NEW r \in reqs, ReportArrives(r) PROVE TypeInv'
  <2> DEFINE s == IF entries[r.sid] = Gone THEN NewEntry(count.epochs + 1) ELSE entries[r.sid]
             a == [n |-> r.n, outcome |-> "other", what |-> {}, plan |-> FALSE, claim |-> OpenClaim(s)]
  <2>1. /\ s.epoch <= MaxEpochs
        /\ count' = [count EXCEPT !.epochs = IF s.epoch > @ THEN s.epoch ELSE @]
        /\ \E after \in Reported(s, r) : entries' = [entries EXCEPT ![r.sid] = after]
        /\ answers' \in {answers, answers \cup {a}}
    BY <1>2 DEF ReportArrives
  <2>q. r \in Requests
    BY <1>0, Typed
  <2>p. r.sid \in Sids /\ r.n \in Int /\ r.rows \in Rows
    BY <2>q DEF Requests
  <2>r. r.sid \in Sids /\ entries[r.sid] \in {Gone} \cup Entry /\ count \in Counts
        /\ r.n \in Int /\ r.rows \in Rows
    BY <1>0, <2>p, Typed
  <2>n. entries[r.sid] = Gone => NewEntry(count.epochs + 1).epoch = count.epochs + 1
    BY DEF NewEntry
  <2>2. \/ entries[r.sid] = Gone /\ s.epoch = count.epochs + 1
        \/ entries[r.sid] # Gone /\ s.epoch = entries[r.sid].epoch
    BY <2>r, <2>n
  <2>3. s \in Entry
    <3>1. CASE entries[r.sid] = Gone
      <4>1. count.epochs + 1 \in 1..MaxEpochs
        BY <2>1, <2>2, <3>1, SessionTyped
      <4> QED
        BY <3>1, <4>1, NewEntryTyped
    <3>2. CASE entries[r.sid] # Gone
      BY <2>r, <3>2
    <3> QED
      BY <3>1, <3>2
  <2>4. r \in Requests /\ [count EXCEPT !.epochs = IF s.epoch > @ THEN s.epoch ELSE @] \in Counts
    <3> HIDE DEF s
    <3> QED
      BY <2>1, <2>2, SessionTyped
  <2>5. a \in Replies
    BY <2>3, <2>r, ClaimsTyped DEF Replies
  <2> HIDE DEF s, a
  <2>6. PICK after \in Reported(s, r) : entries' = [entries EXCEPT ![r.sid] = after]
    BY <2>1
  <2>7. after \in Entry
    BY <2>3, <2>r, ReportedAlike DEF Alike
  <2>8. entries' \in [Sids -> {Gone} \cup Entry]
    BY <1>0, <2>6, <2>7, Typed
  <2>9. reqs' \subseteq reqs /\ UNCHANGED <<rev, turn, panel, calls, batches>>
    BY <1>2 DEF ReportArrives, browser
  <2>10. answers' \subseteq Replies
    BY <1>0, <2>1, <2>5, Typed
  <2>11. TypeOK'
    BY <1>0, <2>1, <2>4, <2>8, <2>9, <2>10, Typed, TypedNext
  <2> QED
    BY <2>9, <2>11 DEF TypeInv, Numbered, Confirming, Busy
<1>3. ASSUME NEW r \in reqs, EndArrives(r) PROVE TypeInv'
  <2>1. /\ entries' = [entries EXCEPT ![r.sid] = Gone] /\ reqs' \subseteq reqs
        /\ UNCHANGED <<rev, turn, answers, panel, calls, batches, count>>
    BY <1>3 DEF EndArrives, browser
  <2>2. TypeOK'
    BY <1>0, <2>1, Typed, TypedNext
  <2> QED
    BY <2>1, <2>2 DEF TypeInv, Numbered, Confirming, Busy
<1>d. Dropping => count' \in Counts
  BY <1>0, Typed, CountUpdates DEF Dropping
<1>4. ASSUME NEW i \in Sids, Forget(i) PROVE TypeInv'
  <2>1. /\ entries' = [entries EXCEPT ![i] = Gone] /\ count' \in Counts
        /\ UNCHANGED <<rev, turn, reqs, answers, panel, calls, batches>>
    BY <1>4, <1>d DEF Forget, browser
  <2>2. TypeOK'
    BY <1>0, <2>1, Typed, TypedNext
  <2> QED
    BY <2>1, <2>2 DEF TypeInv, Numbered, Confirming, Busy
<1>5. ASSUME Restart PROVE TypeInv'
  <2>1. /\ entries' = [i \in Sids |-> Gone] /\ turn' = [i \in Sids |-> Idle] /\ count' \in Counts
        /\ UNCHANGED <<rev, reqs, answers, panel, calls, batches>>
    BY <1>5, <1>d DEF Restart, browser
  <2>2. TypeOK'
    BY <1>0, <2>1, Typed, TypedNext
  <2> QED
    BY <2>1, <2>2 DEF TypeInv, Numbered, Confirming, Busy
<1> QED
  BY <1>1, <1>2, <1>3, <1>4, <1>5, TurnTypeInv DEF Server

LEMMA BrowserTyped ==
  ASSUME TypeInv, UNCHANGED <<entries, turn>>, rev' \in [Entities -> Nat], reqs' \subseteq Requests,
         answers' \subseteq Replies, panel' \in Panels, calls' \subseteq Calls, batches' \subseteq Batches,
         count' \in Counts, Numbered'
  PROVE  TypeInv'
<1>1. TypeOK'
  BY Typed, TypedNext DEF TypeInv
<1> QED
  BY <1>1 DEF TypeInv, Confirming, Busy

LEMMA SendTyped ==
  ASSUME TypeInv, Ready, NEW kind \in {"say", "confirm", "cancel", "build"}, Send(kind, panel.ref)
  PROVE  /\ count' \in Counts /\ calls' \subseteq Calls /\ reqs' \subseteq Requests /\ Numbered'
         /\ \E r \in Requests : r.claim = panel.ref /\ reqs' = reqs \cup {r}
<1>0. TypeOK /\ Numbered /\ count \in Counts /\ calls \subseteq Calls /\ reqs \subseteq Requests /\ panel \in Panels
  BY Typed DEF TypeInv
<1> DEFINE n == count.turns + 1
           c == [n |-> n, kind |-> kind, spoken |-> kind = "say"]
           r == [n |-> n, sid |-> panel.sid, kind |-> kind, claim |-> panel.ref, exec |-> 0, rows |-> NoRows]
<1>1. n <= MaxTurns /\ count' = [count EXCEPT !.turns = n] /\ calls' = calls \cup {c} /\ reqs' = reqs \cup {r}
  BY DEF Send
<1>2. n \in Nat
  <2>1. count.turns \in Nat
    BY <1>0, CountUpdates
  <2> QED
    BY <2>1
<1>3. count' \in Counts
  BY <1>0, <1>1, CountUpdates
<1>4. panel.sid \in Sids /\ panel.ref \in Claims
  BY <1>0, Bounds DEF Panels, Ready, Sids
<1> HIDE DEF n
<1>5. c \in Calls /\ c.n \in Nat
  BY <1>2 DEF Calls
<1>6. r \in Requests /\ r.claim = panel.ref
  BY <1>2, <1>4, RowsTyped DEF Requests
<1> HIDE DEF c, r
<1> QED
  BY <1>0, <1>1, <1>3, <1>5, <1>6 DEF Numbered

LEMMA EndTyped ==
  ASSUME NEW i \in Sids
  PROVE  EndOf(i) \subseteq Requests /\ \A r \in EndOf(i) : r.claim = NoClaim
<1> DEFINE r == [n |-> 0, sid |-> i, kind |-> "end", claim |-> NoClaim, exec |-> 0, rows |-> NoRows]
<1>1. r \in Requests /\ r.claim = NoClaim
  BY RowsTyped, ClaimsTyped DEF Requests
<1>2. EndOf(i) = {r}
  BY DEF EndOf
<1> HIDE DEF r
<1> QED
  BY <1>1, <1>2

LEMMA TapTypeInv ==
  ASSUME TypeInv, Say \/ TapApply \/ TapCancel \/ TapBuild
  PROVE  TypeInv'
<1>0. TypeOK
  BY DEF TypeInv
<1>1. PICK kind \in {"say", "confirm", "cancel", "build"} :
        /\ Ready /\ Send(kind, panel.ref) /\ UNCHANGED <<rev, entries, turn, answers, batches>>
        /\ panel' \in {[panel EXCEPT !.busy = TRUE],
                       [panel EXCEPT !.busy = TRUE, !.card = FALSE, !.plan = FALSE]}
  BY DEF Say, TapApply, TapCancel, TapBuild
<1>2. count' \in Counts /\ calls' \subseteq Calls /\ reqs' \subseteq Requests /\ Numbered'
  BY <1>1, SendTyped
<1>3. panel' \in Panels
  BY <1>0, <1>1, Typed, PanelUpdates
<1> QED
  BY <1>0, <1>1, <1>2, <1>3, Typed, BrowserTyped

LEMMA PanelTypeInv ==
  ASSUME TypeInv, Close \/ Open
  PROVE  TypeInv'
<1>0. TypeOK /\ Numbered /\ panel \in Panels /\ count \in Counts
  BY Typed DEF TypeInv
<1>1. CASE Close
  <2>1. panel.sid \in Sids
    BY <1>0, <1>1, Bounds DEF Close, Panels, Sids
  <2>2. /\ panel' = Closed /\ reqs' = reqs \cup EndOf(panel.sid)
        /\ UNCHANGED <<rev, entries, turn, answers, calls, batches, count>>
    BY <1>1 DEF Close
  <2>3. reqs' \subseteq Requests /\ panel' \in Panels
    BY <1>0, <2>1, <2>2, Typed, EndTyped, PanelUpdates
  <2>4. Numbered'
    BY <1>0, <2>2 DEF Numbered
  <2> QED
    BY <1>0, <2>2, <2>3, <2>4, Typed, BrowserTyped
<1>2. CASE Open
  <2>1. /\ count.sids < MaxSids /\ count' = [count EXCEPT !.sids = @ + 1]
        /\ panel' = [Closed EXCEPT !.sid = count.sids + 1, !.ref = panel.ref]
        /\ UNCHANGED <<rev, entries, turn, reqs, answers, calls, batches>>
    BY <1>2 DEF Open
  <2>2. count' \in Counts /\ count.sids + 1 \in 0..MaxSids
    <3>1. count.sids \in Nat /\ MaxSids \in Nat
      BY <1>0, CountUpdates, Bounds
    <3>2. count.sids + 1 \in 0..MaxSids
      BY <2>1, <3>1
    <3>3. count' \in Counts
      BY <1>0, <2>1, CountUpdates
    <3> QED
      BY <3>2, <3>3
  <2>3. panel' \in Panels
    <3>1. panel.ref \in Claims
      BY <1>0 DEF Panels
    <3>2. panel' = [sid |-> count.sids + 1, busy |-> FALSE, card |-> FALSE, plan |-> FALSE, ref |-> panel.ref]
      BY <2>1 DEF Closed
    <3> QED
      BY <2>2, <3>1, <3>2 DEF Panels
  <2>4. Numbered'
    BY <1>0, <2>1 DEF Numbered
  <2> QED
    BY <1>0, <2>1, <2>2, <2>3, <2>4, Typed, BrowserTyped
<1> QED
  BY <1>1, <1>2

LEMMA HearTypeInv ==
  ASSUME TypeInv, NEW a \in answers, Hear(a)
  PROVE  TypeInv'
<1>0. TypeOK /\ Numbered /\ panel \in Panels /\ a \in Replies /\ calls \subseteq Calls
  BY Typed DEF TypeInv
<1>1. PICK c \in calls :
        /\ c.n = a.n /\ calls' = calls \ {c}
        /\ IF c.kind = "report"
           THEN /\ panel' = [panel EXCEPT !.busy = FALSE, !.card = FALSE, !.plan = FALSE]
                /\ UNCHANGED batches
           ELSE LET runs == a.outcome = "act" /\ a.what # {}
                IN /\ panel' = [panel EXCEPT !.busy = runs, !.card = (a.outcome = "confirm"),
                                             !.plan = a.plan,
                                             !.ref = IF a.outcome = "act" THEN NoClaim ELSE a.claim]
                   /\ batches' = IF ~runs THEN batches
                                 ELSE batches \cup {[n |-> a.n, what |-> a.what, exec |-> a.claim.exec,
                                                     spoken |-> c.spoken]}
  BY DEF Hear
<1>2. answers' \subseteq answers /\ UNCHANGED <<rev, entries, turn, reqs, count>>
  BY DEF Hear
<1>3. a.what \in SUBSET Ops /\ a.claim \in Claims /\ a.plan \in BOOLEAN
  BY <1>0 DEF Replies
<1>4. panel' \in Panels
  <2>1. CASE c.kind = "report"
    BY <1>0, <1>1, <2>1, PanelUpdates
  <2>2. CASE c.kind # "report"
    <3> DEFINE b == a.outcome = "act" /\ a.what # {}
               d == a.outcome = "confirm"
               x == IF a.outcome = "act" THEN NoClaim ELSE a.claim
    <3>1. panel' = [panel EXCEPT !.busy = b, !.card = d, !.plan = a.plan, !.ref = x]
      BY <1>1, <2>2
    <3>2. b \in BOOLEAN /\ d \in BOOLEAN /\ x \in Claims
      BY <1>3, ClaimsTyped
    <3> HIDE DEF b, d, x
    <3> QED
      BY <1>0, <1>3, <3>1, <3>2, PanelUpdates
  <2> QED
    BY <2>1, <2>2
<1>5. batches' \subseteq Batches
  <2>1. CASE c.kind = "report"
    BY <1>0, <1>1, <2>1, Typed
  <2>2. CASE c.kind # "report"
    <3> DEFINE b == [n |-> a.n, what |-> a.what, exec |-> a.claim.exec, spoken |-> c.spoken]
    <3>1. c.n \in Nat /\ c.spoken \in BOOLEAN
      BY <1>0, <2>2 DEF Numbered, Calls
    <3>2. a.n \in Nat /\ a.claim.exec \in Nat
      BY <1>1, <1>3, <3>1, ClaimsTyped
    <3>3. b \in Batches
      BY <1>3, <3>1, <3>2 DEF Batches
    <3>4. batches' \in {batches, batches \cup {b}}
      BY <1>1, <2>2
    <3> HIDE DEF b
    <3> QED
      BY <1>0, <3>3, <3>4, Typed
  <2> QED
    BY <2>1, <2>2
<1>6. calls' \subseteq Calls /\ Numbered'
  BY <1>0, <1>1 DEF Numbered
<1> QED
  BY <1>0, <1>2, <1>4, <1>5, <1>6, Typed, BrowserTyped

LEMMA GiveUpTypeInv ==
  ASSUME TypeInv, NEW c \in calls, GiveUp(c)
  PROVE  TypeInv'
<1>0. TypeOK /\ Numbered /\ panel \in Panels
  BY Typed DEF TypeInv
<1>1. /\ calls' \subseteq calls /\ answers' \subseteq answers
      /\ panel' \in {[panel EXCEPT !.busy = FALSE, !.card = FALSE, !.plan = FALSE],
                     [panel EXCEPT !.busy = FALSE], panel}
      /\ UNCHANGED <<rev, entries, turn, reqs, batches, count>>
  BY DEF GiveUp
<1>2. panel' \in Panels
  BY <1>0, <1>1, PanelUpdates
<1>3. Numbered'
  BY <1>0, <1>1 DEF Numbered
<1> QED
  BY <1>0, <1>1, <1>2, <1>3, Typed, BrowserTyped

\* What the browser sends after its writes, and what its panel becomes.
LEMMA RunSends ==
  ASSUME TypeInv, NEW b \in batches, NEW rows \in Outcomes(b.what), NEW landed, RunWrites(b, rows, landed)
  PROVE  /\ \A r \in reqs' : r \in reqs \/ (r \in Requests /\ r.claim = NoClaim)
         /\ panel' \in {Closed, [panel EXCEPT !.busy = FALSE, !.card = FALSE, !.plan = FALSE], panel}
         /\ \A c \in calls' : c \in calls \/ (c \in Calls /\ c.kind = "report")
<1>0. TypeOK /\ panel \in Panels /\ b \in Batches
  BY Typed DEF TypeInv
<1>b. b.n \in Nat /\ b.what \in SUBSET Ops /\ b.exec \in Nat /\ b.spoken \in BOOLEAN
  BY <1>0 DEF Batches
<1>r. rows \in Rows
  BY <1>b DEF Outcomes, Rows
<1> DEFINE r == [n |-> -b.n, sid |-> panel.sid, kind |-> "report", claim |-> NoClaim,
                 exec |-> b.exec, rows |-> rows]
           c == [n |-> -b.n, kind |-> "report", spoken |-> b.spoken]
<1>c. c \in Calls /\ c.kind = "report"
  BY <1>b DEF Calls
<1>1. CASE panel.sid = 0
  <2>1. UNCHANGED <<reqs, calls>> /\ panel' \in {Closed, [panel EXCEPT !.busy = FALSE, !.card = FALSE, !.plan = FALSE]}
    BY <1>1, Zenon DEF RunWrites
  <2> QED
    BY <2>1
<1>2. CASE panel.sid # 0
  <2>1. panel.sid \in Sids
    BY <1>0, <1>2, Bounds DEF Panels, Sids
  <2>2. r \in Requests /\ r.claim = NoClaim
    BY <1>b, <1>r, <2>1, ClaimsTyped DEF Requests
  <2>3. /\ reqs' \in {reqs \cup {r} \cup EndOf(panel.sid), reqs \cup {r} \cup {}}
        /\ panel' \in {Closed, panel} /\ calls' \in {calls, calls \cup {c}}
    BY <1>2 DEF RunWrites
  <2> HIDE DEF r, c
  <2>4. \A x \in EndOf(panel.sid) : x \in Requests /\ x.claim = NoClaim
    BY <2>1, EndTyped
  <2>5. \A x \in reqs' : x \in reqs \/ (x \in Requests /\ x.claim = NoClaim)
    BY <2>2, <2>3, <2>4
  <2>6. \A x \in calls' : x \in calls \/ (x \in Calls /\ x.kind = "report")
    BY <1>c, <2>3
  <2> QED
    BY <2>3, <2>5, <2>6
<1> QED
  BY <1>1, <1>2

LEMMA RunTypeInv ==
  ASSUME TypeInv, NEW b \in batches, NEW rows \in Outcomes(b.what), NEW landed, RunWrites(b, rows, landed)
  PROVE  TypeInv' /\ \A e \in Entities : rev[e] <= rev'[e]
<1>0. TypeOK /\ Numbered /\ panel \in Panels /\ rev \in [Entities -> Nat]
  BY Typed DEF TypeInv
<1>1. rev' \in [Entities -> Nat] /\ \A e \in Entities : rev[e] <= rev'[e]
  <2> DEFINE stored == {o \in b.what : rows[o] \in {"applied", "conflict"}} \cup landed
  <2>1. rev' = [e \in Entities |-> IF \E o \in stored : TargetOf[o] = e THEN rev[e] + 1 ELSE rev[e]]
    BY DEF RunWrites
  <2> HIDE DEF stored
  <2>2. ASSUME NEW e \in Entities PROVE rev'[e] \in {rev[e], rev[e] + 1}
    BY <2>1
  <2>3. ASSUME NEW e \in Entities PROVE rev[e] \in Nat
    BY <1>0
  <2> QED
    BY <2>1, <2>2, <2>3
<1>2. batches' \subseteq batches /\ UNCHANGED <<entries, turn, answers, count>>
  BY DEF RunWrites
<1>3. /\ \A r \in reqs' : r \in reqs \/ r \in Requests
      /\ panel' \in {Closed, [panel EXCEPT !.busy = FALSE, !.card = FALSE, !.plan = FALSE], panel}
      /\ \A c \in calls' : c \in calls \/ (c \in Calls /\ c.kind = "report")
  BY RunSends
<1>4. reqs' \subseteq Requests /\ calls' \subseteq Calls
  BY <1>0, <1>3, Typed
<1>5. panel' \in Panels
  BY <1>0, <1>3, PanelUpdates
<1>6. Numbered'
  BY <1>0, <1>3 DEF Numbered
<1>7. TypeInv'
  BY <1>0, <1>1, <1>2, <1>4, <1>5, <1>6, Typed, BrowserTyped
<1> QED
  BY <1>1, <1>7

LEMMA EditTypeInv ==
  ASSUME TypeInv, NEW e \in Entities, Edit(e)
  PROVE  TypeInv' /\ \A x \in Entities : rev[x] <= rev'[x]
<1>0. TypeOK /\ Numbered /\ rev \in [Entities -> Nat] /\ count \in Counts
  BY Typed DEF TypeInv
<1>1. /\ rev' = [rev EXCEPT ![e] = @ + 1] /\ count' = [count EXCEPT !.edits = @ + 1]
      /\ count.edits < MaxEdits /\ UNCHANGED <<entries, turn, reqs, answers, panel, calls, batches>>
  BY DEF Edit, browser
<1>2. rev' \in [Entities -> Nat] /\ \A x \in Entities : rev[x] <= rev'[x]
  BY <1>0, <1>1
<1>3. count' \in Counts
  BY <1>0, <1>1, CountUpdates
<1>4. Numbered'
  BY <1>0, <1>1 DEF Numbered
<1>5. TypeInv'
  BY <1>0, <1>1, <1>2, <1>3, <1>4, Typed, BrowserTyped
<1> QED
  BY <1>2, <1>5

LEMMA StutterTypeInv == TypeInv /\ UNCHANGED vars => TypeInv'
BY DEF vars, TypeInv, TypeOK, Numbered, Confirming, Busy

LEMMA NextTypeInv ==
  ASSUME TypeInv, [Next]_vars
  PROVE  TypeInv'
<1>1. CASE Server
  BY <1>1, ServerTypeInv
<1>2. CASE Browser
  BY <1>2, TapTypeInv, PanelTypeInv, HearTypeInv, GiveUpTypeInv, RunTypeInv DEF Browser
<1>3. CASE \E e \in Entities : Edit(e)
  BY <1>3, EditTypeInv
<1> QED
  BY <1>1, <1>2, <1>3, StutterTypeInv DEF Next

\* Types are kept, an answer carries the number of its question, and a turn
\* reads the rows again only for a confirmation that may apply.
THEOREM TypeCorrect == Spec => []TypeOK
<1>1. Spec => []TypeInv
  BY InitTypeInv, NextTypeInv, PTL DEF Spec
<1>2. TypeInv => TypeOK
  BY DEF TypeInv
<1> QED
  BY <1>1, <1>2, PTL

-----------------------------------------------------------------------------
(* Every step keeps the dialogue: the frame *)

\* The history is of sessions and executions that can be compared.
Dated ==
  /\ \A d \in dispatches : d.epoch \in Nat /\ d.exec \in Nat
  /\ \A x \in withdrawn : x[1] \in Nat /\ x[2] \in Nat

IInv == TypeInv /\ Dated /\ DialogueInv

LEMMA KnownTyped ==
  ASSUME TypeInv
  PROVE  /\ KnownClaims \subseteq Claims
         /\ \A c \in KnownClaims : c.exec \in Int /\ (c.exec # 0 => c.epoch \in Nat)
<1>1. KnownClaims \subseteq Claims
  <2>1. TypeOK
    BY DEF TypeInv
  <2>2. panel.ref \in Claims
    BY <2>1, Typed DEF Panels
  <2>3. \A r \in reqs : r.claim \in Claims
    BY <2>1, Typed DEF Requests
  <2>4. \A a \in answers : a.claim \in Claims
    BY <2>1, Typed DEF Replies
  <2>5. \A i \in Sids : Busy(i) => turn[i].req.claim \in Claims
    BY TurnTyped
  <2> QED
    BY <2>2, <2>3, <2>4, <2>5 DEF KnownClaims
<1>2. \A c \in Claims : c.exec \in Int /\ (c.exec # 0 => c.epoch \in Nat)
  BY DEF Claims, NoClaim
<1> QED
  BY <1>1, <1>2

LEMMA Typing ==
  ASSUME TypeInv
  PROVE  /\ count.epochs \in Nat /\ rev \in [Entities -> Nat]
         /\ \A i \in Sids : Live(i) => entries[i] \in Entry /\ entries[i].epoch \in Nat
         /\ \A i \in Sids : Busy(i) => turn[i] \in Turns /\ turn[i].s \in Entry /\ turn[i].s.epoch \in Nat
<1>1. count.epochs \in Nat /\ rev \in [Entities -> Nat]
  BY Typed, CountUpdates DEF TypeInv
<1>2. \A i \in Sids : Live(i) => entries[i] \in Entry /\ entries[i].epoch \in Nat
  BY TurnTyped, EntryFields
<1>3. \A i \in Sids : Busy(i) => turn[i] \in Turns /\ turn[i].s \in Entry /\ turn[i].s.epoch \in Nat
  BY TurnTyped, EntryFields
<1> QED
  BY <1>1, <1>2, <1>3

\* A later catalog.
LEMMA LaterKept ==
  ASSUME NEW upto \in [Entities -> Nat], NEW later \in [Entities -> Nat],
         \A e \in Entities : upto[e] <= later[e]
  PROVE  /\ \A s \in Entry : Entered(s, upto) => Entered(s, later)
         /\ \A t \in Turns : Turning(t, upto) => Turning(t, later)
<1>1. \A s \in Entry : Entered(s, upto) => Entered(s, later)
  BY StaysCaptured DEF Entered
<1>2. ASSUME NEW t \in Turns, Turning(t, upto) PROVE Turning(t, later)
  <2>1. t.catalog \in [Entities -> Nat]
    BY DEF Turns
  <2>2. ASSUME NEW e \in Entities PROVE t.catalog[e] <= later[e]
    <3>1. t.catalog[e] <= upto[e] /\ upto[e] <= later[e]
      BY <1>2 DEF Turning
    <3>2. t.catalog[e] \in Int /\ upto[e] \in Int /\ later[e] \in Int
      BY <2>1
    <3> QED
      BY <3>1, <3>2
  <2> QED
    BY <1>2, <2>2 DEF Turning
<1> QED
  BY <1>1, <1>2

\* Sessions and turns are kept or dropped, and no claim appears.
Steady ==
  /\ \A i \in Sids : entries'[i] \in {Gone, entries[i]} /\ turn'[i] \in {Idle, turn[i]}
  /\ UNCHANGED history /\ count'.epochs = count.epochs
  /\ \A c \in KnownClaims' : c \in KnownClaims \/ c = NoClaim
  /\ \A e \in Entities : rev[e] <= rev'[e]

LEMMA SteadyKeeps ==
  ASSUME IInv, Steady, rev' \in [Entities -> Nat]
  PROVE  Dated' /\ DialogueInv'
<1>i. TypeInv /\ Dated /\ Apart /\ Counted /\ AllSound /\ AllKept
  BY DEF IInv, DialogueInv
<1>1. \A i \in Sids : /\ entries'[i] # Gone => Live(i) /\ entries'[i] = entries[i]
                      /\ turn'[i] # Idle => Busy(i) /\ turn'[i] = turn[i]
  BY DEF Steady, Live, Busy
<1>2. dispatches' = dispatches /\ withdrawn' = withdrawn
  BY DEF Steady, history
<1>3. Dated'
  BY <1>i, <1>2 DEF Dated
<1>4. Apart'
  BY <1>i, <1>1 DEF Apart, Live, Busy
<1>5. \A c \in KnownClaims' : c \in KnownClaims \/ c.exec = 0
  BY DEF Steady, NoClaim
<1>6. Counted'
  <2>1. count'.epochs = count.epochs
    BY DEF Steady
  <2>2. \A i \in Sids : (Live(i)' => entries'[i].epoch <= count'.epochs)
                        /\ (Busy(i)' => turn'[i].s.epoch <= count'.epochs)
    BY <1>i, <1>1, <2>1 DEF Counted, Live, Busy
  <2>3. \A c \in KnownClaims' : c.exec # 0 => c.epoch <= count'.epochs
    BY <1>i, <1>5, <2>1 DEF Counted
  <2>4. /\ \A d \in dispatches' : d.epoch <= count'.epochs
        /\ \A x \in withdrawn' : x[1] <= count'.epochs
    BY <1>i, <1>2, <2>1 DEF Counted
  <2> QED
    BY <2>2, <2>3, <2>4 DEF Counted
<1>7. ASSUME NEW s \in Entry, Sound(s, dispatches, withdrawn, KnownClaims)
      PROVE  Sound(s, dispatches', withdrawn', KnownClaims')
  BY <1>2, <1>5, <1>7, StaysSound DEF Strange
<1>8. AllSound'
  <2> SUFFICES ASSUME NEW i \in Sids
               PROVE  /\ Live(i)' => Sound(entries'[i], dispatches', withdrawn', KnownClaims')
                      /\ Busy(i)' => Sound(turn'[i].s, dispatches', withdrawn', KnownClaims')
    BY DEF AllSound
  <2>1. ASSUME Live(i)' PROVE Sound(entries'[i], dispatches', withdrawn', KnownClaims')
    <3>1. Live(i) /\ entries'[i] = entries[i]
      BY <1>1, <2>1 DEF Live
    <3>2. entries[i] \in Entry /\ Sound(entries[i], dispatches, withdrawn, KnownClaims)
      BY <1>i, <3>1, Typing DEF AllSound
    <3> QED
      BY <1>7, <3>1, <3>2
  <2>2. ASSUME Busy(i)' PROVE Sound(turn'[i].s, dispatches', withdrawn', KnownClaims')
    <3>1. Busy(i) /\ turn'[i] = turn[i]
      BY <1>1, <2>2 DEF Busy
    <3>2. turn[i].s \in Entry /\ Sound(turn[i].s, dispatches, withdrawn, KnownClaims)
      BY <1>i, <3>1, Typing DEF AllSound
    <3> QED
      BY <1>7, <3>1, <3>2
  <2> QED
    BY <2>1, <2>2
<1>9. AllKept'
  <2>0. rev \in [Entities -> Nat] /\ \A e \in Entities : rev[e] <= rev'[e]
    BY <1>i, Typing DEF Steady
  <2> SUFFICES ASSUME NEW i \in Sids
               PROVE  (Live(i)' => Entered(entries'[i], rev')) /\ (Busy(i)' => Turning(turn'[i], rev'))
    BY DEF AllKept
  <2>1. ASSUME Live(i)' PROVE Entered(entries'[i], rev')
    <3>1. Live(i) /\ entries'[i] = entries[i]
      BY <1>1, <2>1 DEF Live
    <3>2. entries[i] \in Entry /\ Entered(entries[i], rev)
      BY <1>i, <3>1, Typing DEF AllKept
    <3> QED
      BY <2>0, <3>1, <3>2, LaterKept
  <2>2. ASSUME Busy(i)' PROVE Turning(turn'[i], rev')
    <3>1. Busy(i) /\ turn'[i] = turn[i]
      BY <1>1, <2>2 DEF Busy
    <3>2. turn[i] \in Turns /\ Turning(turn[i], rev)
      BY <1>i, <3>1, Typing DEF AllKept
    <3> QED
      BY <2>0, <3>1, <3>2, LaterKept
  <2> QED
    BY <2>1, <2>2
<1> QED
  BY <1>3, <1>4, <1>6, <1>8, <1>9 DEF DialogueInv

\* The session of one lane moves on; what it does and claims is its own.
Moves(k, e) ==
  /\ \A j \in Sids : j # k => /\ entries'[j] = entries[j] /\ turn'[j] = turn[j]
                              /\ Live(j) => entries[j].epoch # e
                              /\ Busy(j) => turn[j].s.epoch # e
  /\ entries'[k] # Gone => /\ entries'[k].epoch = e
                           /\ Sound(entries'[k], dispatches', withdrawn', KnownClaims')
                           /\ Entered(entries'[k], rev)
  /\ turn'[k] # Idle => /\ turn'[k].s.epoch = e
                        /\ Sound(turn'[k].s, dispatches', withdrawn', KnownClaims')
                        /\ Turning(turn'[k], rev)
  /\ \A d \in dispatches' : d \in dispatches \/ (d.epoch = e /\ d.exec \in Nat)
  /\ \A x \in withdrawn' : x \in withdrawn \/ (x[1] = e /\ x[2] \in Nat)
  /\ \A c \in KnownClaims' : c \in KnownClaims \/ c.exec = 0 \/ c.epoch = e
  /\ count.epochs <= count'.epochs /\ e <= count'.epochs
  /\ rev' = rev

LEMMA MovesKeeps ==
  ASSUME IInv, NEW k \in Sids, NEW e \in Nat, Moves(k, e), count'.epochs \in Nat
  PROVE  Dated' /\ DialogueInv'
<1>i. TypeInv /\ Dated /\ Apart /\ Counted /\ AllSound /\ AllKept
  BY DEF IInv, DialogueInv
<1>1. \A j \in Sids : j # k => /\ entries'[j] = entries[j] /\ turn'[j] = turn[j]
                               /\ Live(j) => entries[j].epoch # e
                               /\ Busy(j) => turn[j].s.epoch # e
  BY DEF Moves
<1>2. /\ Live(k)' => entries'[k].epoch = e
      /\ Busy(k)' => turn'[k].s.epoch = e
  BY DEF Moves, Live, Busy
<1>d. /\ \A d \in dispatches' : d \in dispatches \/ (d.epoch = e /\ d.exec \in Nat)
      /\ \A x \in withdrawn' : x \in withdrawn \/ (x[1] = e /\ x[2] \in Nat)
      /\ \A c \in KnownClaims' : c \in KnownClaims \/ c.exec = 0 \/ c.epoch = e
  BY DEF Moves
<1>3. Dated'
  BY <1>i, <1>d DEF Dated
<1>4. Apart'
  BY <1>i, <1>1, <1>2 DEF Apart, Live, Busy
<1>5. Counted'
  <2>0. count.epochs \in Nat /\ count.epochs <= count'.epochs /\ e <= count'.epochs
    BY <1>i, Typing DEF Moves
  <2>1. \A x \in Nat : x <= count.epochs => x <= count'.epochs
    BY <2>0
  <2>2. ASSUME NEW j \in Sids
        PROVE  /\ Live(j)' => entries'[j].epoch <= count'.epochs
               /\ Busy(j)' => turn'[j].s.epoch <= count'.epochs
    <3>1. CASE j = k
      BY <1>2, <2>0, <3>1
    <3>2. CASE j # k
      <4>1. Live(j) => entries[j].epoch \in Nat /\ entries[j].epoch <= count.epochs
        BY <1>i, Typing DEF Counted
      <4>2. Busy(j) => turn[j].s.epoch \in Nat /\ turn[j].s.epoch <= count.epochs
        BY <1>i, Typing DEF Counted
      <4>3. (Live(j)' <=> Live(j)) /\ (Busy(j)' <=> Busy(j)) /\ entries'[j] = entries[j] /\ turn'[j] = turn[j]
        BY <1>1, <3>2 DEF Live, Busy
      <4> QED
        BY <2>1, <4>1, <4>2, <4>3
    <3> QED
      BY <3>1, <3>2
  <2>3. \A c \in KnownClaims' : c.exec # 0 => c.epoch <= count'.epochs
    <3>1. \A c \in KnownClaims : c.exec # 0 => c.epoch \in Nat /\ c.epoch <= count.epochs
      BY <1>i, KnownTyped DEF Counted
    <3> QED
      BY <1>d, <2>0, <2>1, <3>1
  <2>4. \A d \in dispatches' : d.epoch <= count'.epochs
    <3>1. \A d \in dispatches : d.epoch \in Nat /\ d.epoch <= count.epochs
      BY <1>i DEF Counted, Dated
    <3> QED
      BY <1>d, <2>0, <2>1, <3>1
  <2>5. \A x \in withdrawn' : x[1] <= count'.epochs
    <3>1. \A x \in withdrawn : x[1] \in Nat /\ x[1] <= count.epochs
      BY <1>i DEF Counted, Dated
    <3> QED
      BY <1>d, <2>0, <2>1, <3>1
  <2> QED
    BY <2>2, <2>3, <2>4, <2>5 DEF Counted
<1>6. ASSUME NEW s \in Entry, s.epoch # e, Sound(s, dispatches, withdrawn, KnownClaims)
      PROVE  Sound(s, dispatches', withdrawn', KnownClaims')
  <2>1. /\ \A d \in dispatches' : d \in dispatches \/ d.epoch # s.epoch
        /\ \A x \in withdrawn' : x \in withdrawn \/ x[1] # s.epoch
        /\ \A c \in KnownClaims' : c \in KnownClaims \/ Strange(c, s)
    BY <1>6, <1>d DEF Strange
  <2> QED
    BY <1>6, <2>1, StaysSound
<1>7. AllSound'
  <2> SUFFICES ASSUME NEW j \in Sids
               PROVE  /\ Live(j)' => Sound(entries'[j], dispatches', withdrawn', KnownClaims')
                      /\ Busy(j)' => Sound(turn'[j].s, dispatches', withdrawn', KnownClaims')
    BY DEF AllSound
  <2>1. CASE j = k
    BY <2>1 DEF Moves, Live, Busy
  <2>2. CASE j # k
    <3>1. (Live(j)' <=> Live(j)) /\ (Busy(j)' <=> Busy(j)) /\ entries'[j] = entries[j] /\ turn'[j] = turn[j]
      BY <1>1, <2>2 DEF Live, Busy
    <3>2. Live(j) => entries[j] \in Entry /\ entries[j].epoch # e /\ Sound(entries[j], dispatches, withdrawn, KnownClaims)
      BY <1>i, <1>1, <2>2, Typing DEF AllSound
    <3>3. Busy(j) => turn[j].s \in Entry /\ turn[j].s.epoch # e /\ Sound(turn[j].s, dispatches, withdrawn, KnownClaims)
      BY <1>i, <1>1, <2>2, Typing DEF AllSound
    <3> QED
      BY <1>6, <3>1, <3>2, <3>3
  <2> QED
    BY <2>1, <2>2
<1>8. AllKept'
  <2> SUFFICES ASSUME NEW j \in Sids
               PROVE  (Live(j)' => Entered(entries'[j], rev')) /\ (Busy(j)' => Turning(turn'[j], rev'))
    BY DEF AllKept
  <2>0. rev' = rev
    BY DEF Moves
  <2>1. CASE j = k
    BY <2>0, <2>1 DEF Moves, Live, Busy
  <2>2. CASE j # k
    <3>1. (Live(j)' <=> Live(j)) /\ (Busy(j)' <=> Busy(j)) /\ entries'[j] = entries[j] /\ turn'[j] = turn[j]
      BY <1>1, <2>2 DEF Live, Busy
    <3> QED
      BY <1>i, <2>0, <3>1 DEF AllKept
  <2> QED
    BY <2>1, <2>2
<1> QED
  BY <1>3, <1>4, <1>5, <1>7, <1>8 DEF DialogueInv

-----------------------------------------------------------------------------
(* Every step keeps the dialogue: the server *)

LEMMA TurnHas ==
  ASSUME IInv, NEW i \in Sids, Busy(i)
  PROVE  /\ TypeInv /\ rev \in [Entities -> Nat] /\ count.epochs \in Nat
         /\ turn[i] \in Turns /\ turn[i].s \in Entry /\ turn[i].s.epoch \in Nat
         /\ turn[i].catalog \in [Entities -> Nat] /\ turn[i].reads \in [Entities -> Int]
         /\ turn[i].req.claim \in Claims /\ turn[i].req.claim \in KnownClaims
         /\ turn[i].s.epoch <= count.epochs
         /\ Live(i) => entries[i].epoch = turn[i].s.epoch
         /\ Sound(turn[i].s, dispatches, withdrawn, KnownClaims)
         /\ Captured(turn[i].s, turn[i].catalog) /\ Remembered(turn[i].s, Settled)
         /\ \A e \in Entities : /\ turn[i].catalog[e] <= rev[e]
                                /\ turn[i].reads[e] # Absent => turn[i].catalog[e] <= turn[i].reads[e]
         /\ \A j \in Sids : j # i => /\ Live(j) => entries[j].epoch # turn[i].s.epoch
                                     /\ Busy(j) => turn[j].s.epoch # turn[i].s.epoch
         /\ \A d \in dispatches : d.exec \in Int
         /\ \A x \in withdrawn : x[2] \in Int
         /\ \A c \in KnownClaims : c.exec \in Int
<1>1. TypeInv /\ Dated /\ Apart /\ Counted /\ AllSound /\ AllKept
  BY DEF IInv, DialogueInv
<1>2. /\ rev \in [Entities -> Nat] /\ count.epochs \in Nat
      /\ turn[i] \in Turns /\ turn[i].s \in Entry /\ turn[i].s.epoch \in Nat
      /\ turn[i].catalog \in [Entities -> Nat] /\ turn[i].reads \in [Entities -> Int]
      /\ turn[i].req.claim \in Claims
  BY <1>1, Typing, TurnTyped
<1>3. turn[i].req.claim \in KnownClaims
  BY DEF KnownClaims
<1>4. Turning(turn[i], rev)
  BY <1>1 DEF AllKept
<1>5. Sound(turn[i].s, dispatches, withdrawn, KnownClaims)
  BY <1>1 DEF AllSound
<1>6. /\ Live(i) => entries[i].epoch = turn[i].s.epoch
      /\ \A j \in Sids : j # i => /\ Live(j) => entries[j].epoch # turn[i].s.epoch
                                  /\ Busy(j) => turn[j].s.epoch # turn[i].s.epoch
  BY <1>1 DEF Apart
<1>7. /\ \A d \in dispatches : d.exec \in Int
      /\ \A x \in withdrawn : x[2] \in Int
      /\ \A c \in KnownClaims : c.exec \in Int
  BY <1>1, KnownTyped DEF Dated
<1>8. turn[i].s.epoch <= count.epochs
  BY <1>1 DEF Counted
<1> QED
  BY <1>1, <1>2, <1>3, <1>4, <1>5, <1>6, <1>7, <1>8 DEF Turning

LEMMA CapturedLater ==
  ASSUME NEW q \in Entry, NEW upto \in [Entities -> Nat], NEW later \in [Entities -> Nat],
         Captured(q, upto), \A e \in Entities : upto[e] <= later[e], Remembered(q, Settled)
  PROVE  Entered(q, later)
<1>1. Captured(q, later)
  BY StaysCaptured
<1>2. Remembered(q, Unreported)
  BY DEF Remembered, Settled, Unreported
<1> QED
  BY <1>1, <1>2 DEF Entered

LEMMA TurnEnds ==
  ASSUME IInv, NEW i \in Sids, Busy(i), NEW q \in Entry, q.epoch = turn[i].s.epoch,
         turn' = [turn EXCEPT ![i] = Idle],
         entries' = IF Live(i) /\ entries[i].epoch = q.epoch THEN [entries EXCEPT ![i] = q] ELSE entries,
         UNCHANGED <<rev, count>>,
         \A d \in dispatches' : d \in dispatches \/ (d.epoch = q.epoch /\ d.exec \in Nat),
         \A x \in withdrawn' : x \in withdrawn \/ (x[1] = q.epoch /\ x[2] \in Nat),
         \A c \in KnownClaims' : c \in KnownClaims \/ c.exec = 0 \/ c.epoch = q.epoch,
         Sound(q, dispatches', withdrawn', KnownClaims'), Entered(q, rev)
  PROVE  Dated' /\ DialogueInv'
<1>1. /\ TypeInv /\ turn[i].s.epoch \in Nat /\ count.epochs \in Nat /\ turn[i].s.epoch <= count.epochs
      /\ Live(i) => entries[i].epoch = turn[i].s.epoch
      /\ \A j \in Sids : j # i => /\ Live(j) => entries[j].epoch # turn[i].s.epoch
                                  /\ Busy(j) => turn[j].s.epoch # turn[i].s.epoch
  BY TurnHas
<1>2. entries \in [Sids -> {Gone} \cup Entry] /\ turn \in [Sids -> {Idle} \cup Turns]
  BY <1>1, Typed DEF TypeInv
<1>3. entries'[i] # Gone => entries'[i] = q
  BY <1>1, <1>2 DEF Live
<1>4. turn'[i] = Idle
  BY <1>2
<1>5. \A j \in Sids : j # i => entries'[j] = entries[j] /\ turn'[j] = turn[j]
  BY <1>2
<1>6. Moves(i, q.epoch)
  BY <1>1, <1>3, <1>4, <1>5 DEF Moves
<1> QED
  BY <1>1, <1>6, MovesKeeps

LEMMA SaysKnown ==
  ASSUME NEW i \in Sids, NEW q \in Entry, Says(i, q)
  PROVE  \A c \in KnownClaims' : c \in KnownClaims \/ c = OpenClaim(q)
<1>1. PICK a \in Replies : a.claim = OpenClaim(q) /\ answers' \in {answers, answers \cup {a}}
  BY DEF Says
<1>2. panel' = panel /\ reqs' = reqs /\ turn' = [turn EXCEPT ![i] = Idle]
  BY DEF Says, browser
<1>3. \A j \in Sids : turn'[j] # Idle => Busy(j) /\ turn'[j] = turn[j]
  BY <1>2 DEF Busy
<1> QED
  BY <1>1, <1>2, <1>3 DEF KnownClaims, Busy

\* A turn that answers and leaves its session as q.
LEMMA SaysKeeps ==
  ASSUME IInv, NEW i \in Sids, Busy(i), NEW q \in Entry, Says(i, q), q.epoch = turn[i].s.epoch,
         \A x \in withdrawn' : x \in withdrawn \/ (x[1] = q.epoch /\ x[2] \in Nat),
         Sound(q, dispatches, withdrawn', KnownClaims \cup {OpenClaim(q)}),
         Captured(q, turn[i].catalog), Remembered(q, Settled)
  PROVE  Dated' /\ DialogueInv'
<1>1. \A c \in KnownClaims' : c \in KnownClaims \/ c = OpenClaim(q)
  BY SaysKnown
<1>2. OpenClaim(q).exec = 0 \/ OpenClaim(q).epoch = q.epoch
  BY DEF OpenClaim, NoClaim
<1>3. dispatches' = dispatches
  BY DEF Says
<1>4. Sound(q, dispatches', withdrawn', KnownClaims')
  BY <1>1, <1>3, StaysSound
<1>5. Entered(q, rev)
  BY TurnHas, CapturedLater
<1>6. /\ turn' = [turn EXCEPT ![i] = Idle]
      /\ entries' = IF Live(i) /\ entries[i].epoch = q.epoch THEN [entries EXCEPT ![i] = q] ELSE entries
      /\ UNCHANGED <<rev, count>>
  BY DEF Says
<1>7. \A c \in KnownClaims' : c \in KnownClaims \/ c.exec = 0 \/ c.epoch = q.epoch
  BY <1>1, <1>2
<1>8. \A d \in dispatches' : d \in dispatches \/ (d.epoch = q.epoch /\ d.exec \in Nat)
  BY <1>3
<1> QED
  BY <1>4, <1>5, <1>6, <1>7, <1>8, TurnEnds

LEMMA SoftKeeps ==
  ASSUME IInv, NEW i \in Sids, Busy(i), Soft(i)
  PROVE  Dated' /\ DialogueInv' /\ UNCHANGED history
<1> DEFINE s == turn[i].s
<1>1. PICK q : Says(i, q) /\ Softens(s, q) /\ UNCHANGED withdrawn
  BY DEF Soft
<1>2. q \in Entry /\ q.epoch = s.epoch
  BY <1>1 DEF Softens
<1>3. /\ s \in Entry /\ turn[i].catalog \in [Entities -> Nat]
      /\ Sound(s, dispatches, withdrawn, KnownClaims) /\ Captured(s, turn[i].catalog) /\ Remembered(s, Settled)
      /\ \A d \in dispatches : d.exec \in Int
      /\ \A x \in withdrawn : x[2] \in Int
      /\ \A c \in KnownClaims : c.exec \in Int
  BY TurnHas
<1> HIDE DEF s
<1>4. Sound(q, dispatches, withdrawn, KnownClaims \cup {OpenClaim(q)})
  BY <1>1, <1>3, SoundSoftens
<1>5. Captured(q, turn[i].catalog) /\ Remembered(q, Settled)
  BY <1>1, <1>3, StaysCaptured, SoftensRemembers
<1>6. withdrawn' = withdrawn /\ dispatches' = dispatches
  BY <1>1 DEF Says
<1>7. Dated' /\ DialogueInv'
  BY <1>1, <1>2, <1>4, <1>5, <1>6, SaysKeeps DEF s
<1> QED
  BY <1>6, <1>7 DEF history

LEMMA CancelKeeps ==
  ASSUME IInv, NEW i \in Sids, Busy(i), Cancels(i)
  PROVE  /\ Dated' /\ DialogueInv' /\ dispatches' = dispatches
         /\ \A x \in withdrawn' : x \in withdrawn \/ \A d \in dispatches : x # <<d.epoch, d.exec>>
<1> DEFINE s == turn[i].s
           x == <<s.epoch, s.preview.exec>>
<1>1. PICK q : /\ Says(i, q) /\ IsOpen(s) /\ Softens(s, q) /\ ~IsOpen(q)
               /\ withdrawn' = withdrawn \cup {x}
  BY DEF Cancels
<1>2. q \in Entry /\ q.epoch = s.epoch
  BY <1>1 DEF Softens
<1>3. /\ s \in Entry /\ turn[i].catalog \in [Entities -> Nat]
      /\ Sound(s, dispatches, withdrawn, KnownClaims) /\ Captured(s, turn[i].catalog) /\ Remembered(s, Settled)
      /\ \A d \in dispatches : d.exec \in Int
      /\ \A y \in withdrawn : y[2] \in Int
      /\ \A c \in KnownClaims : c.exec \in Int
  BY TurnHas
<1> HIDE DEF s
<1>4. Sound(q, dispatches, withdrawn \cup {x}, KnownClaims \cup {OpenClaim(q)})
  BY <1>1, <1>3, SoundCancels
<1>5. Captured(q, turn[i].catalog) /\ Remembered(q, Settled)
  BY <1>1, <1>3, StaysCaptured, SoftensRemembers
<1>6. x[1] = q.epoch /\ x[2] \in Nat
  BY <1>1, <1>2, <1>3, EntryFields, PreviewFields DEF IsOpen
<1>7. \A d \in dispatches : x # <<d.epoch, d.exec>>
  BY <1>1, <1>3 DEF Sound, Fresh
<1> HIDE DEF x
<1>8. Dated' /\ DialogueInv'
  BY <1>1, <1>2, <1>4, <1>5, <1>6, SaysKeeps DEF s
<1>9. dispatches' = dispatches
  BY <1>1 DEF Says
<1> QED
  BY <1>1, <1>7, <1>8, <1>9

LEMMA ShowsKeeps ==
  ASSUME IInv, NEW i \in Sids, Busy(i), ShowsNew(i)
  PROVE  Dated' /\ DialogueInv' /\ UNCHANGED history
<1> DEFINE s == turn[i].s
<1>1. PICK q : /\ Says(i, q) /\ Shows(s, q) /\ UNCHANGED withdrawn
               /\ Captured(s, turn[i].catalog) => Captured(q, turn[i].catalog)
  BY DEF ShowsNew
<1>2. q \in Entry /\ q.epoch = s.epoch
  BY <1>1 DEF Shows
<1>3. /\ s \in Entry /\ turn[i].catalog \in [Entities -> Nat]
      /\ Sound(s, dispatches, withdrawn, KnownClaims) /\ Captured(s, turn[i].catalog) /\ Remembered(s, Settled)
      /\ \A d \in dispatches : d.exec \in Int
      /\ \A x \in withdrawn : x[2] \in Int
      /\ \A c \in KnownClaims : c.exec \in Int
  BY TurnHas
<1> HIDE DEF s
<1>4. Sound(q, dispatches, withdrawn, KnownClaims \cup {OpenClaim(q)})
  BY <1>1, <1>3, SoundShows
<1>5. Captured(q, turn[i].catalog) /\ Remembered(q, Settled)
  BY <1>1, <1>3, ShowsRemembers
<1>6. withdrawn' = withdrawn /\ dispatches' = dispatches
  BY <1>1 DEF Says
<1>7. Dated' /\ DialogueInv'
  BY <1>1, <1>2, <1>4, <1>5, <1>6, SaysKeeps DEF s
<1> QED
  BY <1>6, <1>7 DEF history

\* A turn that goes on to read, or reads a row.
LEMMA ReadKeeps ==
  ASSUME IInv, NEW i \in Sids, Busy(i), Confirms(i) \/ \E e \in Entities : ReadTarget(i, e)
  PROVE  Dated' /\ DialogueInv' /\ UNCHANGED history
<1> DEFINE s == turn[i].s
<1>0. /\ TypeInv /\ rev \in [Entities -> Nat] /\ count.epochs \in Nat
      /\ turn[i] \in Turns /\ s \in Entry /\ s.epoch \in Nat /\ s.epoch <= count.epochs
      /\ turn[i].reads \in [Entities -> Int]
      /\ Live(i) => entries[i].epoch = s.epoch
      /\ Sound(s, dispatches, withdrawn, KnownClaims)
      /\ Captured(s, turn[i].catalog) /\ Remembered(s, Settled)
      /\ \A e \in Entities : /\ turn[i].catalog[e] <= rev[e]
                             /\ turn[i].reads[e] # Absent => turn[i].catalog[e] <= turn[i].reads[e]
      /\ \A j \in Sids : j # i => /\ Live(j) => entries[j].epoch # s.epoch
                                  /\ Busy(j) => turn[j].s.epoch # s.epoch
  BY TurnHas
<1>1. UNCHANGED <<rev, entries, reqs, answers, panel, count, dispatches, withdrawn>>
  BY DEF Confirms, ReadTarget, browser, history
<1>2. \E t \in Turns : /\ turn' = [turn EXCEPT ![i] = t] /\ t.s = s /\ t.req = turn[i].req
                       /\ Turning(t, rev)
  <2>1. CASE Confirms(i)
    <3> DEFINE t == [turn[i] EXCEPT !.stage = "read"]
    <3>1. /\ t \in Turns /\ t.s = s /\ t.req = turn[i].req /\ t.catalog = turn[i].catalog
          /\ t.reads = turn[i].reads
      BY <1>0 DEF Turns
    <3>2. turn' = [turn EXCEPT ![i] = t]
      BY <2>1 DEF Confirms
    <3> HIDE DEF t
    <3>3. Turning(t, rev)
      BY <1>0, <3>1 DEF Turning
    <3> QED
      BY <3>1, <3>2, <3>3
  <2>2. CASE \E e \in Entities : ReadTarget(i, e)
    <3>0. PICK e \in Entities : ReadTarget(i, e)
      BY <2>2
    <3> DEFINE f == [turn[i].reads EXCEPT ![e] = rev[e]]
               t == [turn[i] EXCEPT !.reads = f]
    <3>1. f \in [Entities -> Int]
      BY <1>0
    <3>2. \A x \in Entities : f[x] # Absent => turn[i].catalog[x] <= f[x]
      BY <1>0
    <3>3. turn' = [turn EXCEPT ![i] = t]
      BY <3>0 DEF ReadTarget
    <3> HIDE DEF f
    <3>4. t \in Turns /\ t.s = s /\ t.req = turn[i].req /\ t.catalog = turn[i].catalog /\ t.reads = f
      BY <1>0, <3>1 DEF Turns
    <3> HIDE DEF t
    <3>5. Turning(t, rev)
      BY <1>0, <3>2, <3>4 DEF Turning
    <3> QED
      BY <3>3, <3>4, <3>5
  <2> QED
    BY <2>1, <2>2
<1>3. PICK t \in Turns : /\ turn' = [turn EXCEPT ![i] = t] /\ t.s = s /\ t.req = turn[i].req
                         /\ Turning(t, rev)
  BY <1>2
<1> HIDE DEF s
<1>4. turn \in [Sids -> {Idle} \cup Turns]
  BY <1>0, Typed DEF TypeInv
<1>5. turn'[i] = t /\ \A j \in Sids : j # i => turn'[j] = turn[j]
  BY <1>3, <1>4
<1>6. \A c \in KnownClaims' : c \in KnownClaims
  <2>1. \A j \in Sids : turn'[j] # Idle => Busy(j) /\ turn'[j].req = turn[j].req
    BY <1>3, <1>5 DEF Busy
  <2> QED
    BY <1>1, <2>1 DEF KnownClaims, Busy
<1>7. ASSUME NEW q \in Entry, Sound(q, dispatches, withdrawn, KnownClaims)
      PROVE  Sound(q, dispatches', withdrawn', KnownClaims')
  BY <1>1, <1>6, <1>7, StaysSound
<1>8. entries'[i] # Gone => /\ entries'[i].epoch = s.epoch
                            /\ Sound(entries'[i], dispatches', withdrawn', KnownClaims')
                            /\ Entered(entries'[i], rev)
  <2> SUFFICES ASSUME Live(i)
               PROVE  /\ entries[i].epoch = s.epoch
                      /\ Sound(entries[i], dispatches', withdrawn', KnownClaims')
                      /\ Entered(entries[i], rev)
    BY <1>1 DEF Live
  <2>1. entries[i] \in Entry
    BY <1>0, Typing
  <2>2. Sound(entries[i], dispatches, withdrawn, KnownClaims) /\ Entered(entries[i], rev)
    BY DEF IInv, DialogueInv, AllSound, AllKept
  <2> QED
    BY <1>0, <1>7, <2>1, <2>2
<1>9. Sound(s, dispatches', withdrawn', KnownClaims')
  BY <1>0, <1>7
<1>10. Moves(i, s.epoch)
  BY <1>0, <1>1, <1>3, <1>5, <1>6, <1>8, <1>9 DEF Moves
<1>11. Dated' /\ DialogueInv'
  BY <1>0, <1>1, <1>10, MovesKeeps
<1> QED
  BY <1>1, <1>11 DEF history

\* What is handed over is what its claim shows, on rows nobody changed since,
\* never handed over or withdrawn before, and with no silent write in it.
Deserves(new) ==
  /\ new.epoch \in Nat /\ new.exec \in Nat
  /\ new.claim.epoch = new.epoch => new.what \in {{}, new.claim.what}
  /\ \A o \in new.what : TargetOf[o] # NoEntity => new.fp[TargetOf[o]] = new.began[TargetOf[o]]
  /\ \A d \in dispatches : d.epoch = new.epoch => d.exec # new.exec
  /\ \A x \in withdrawn : x # <<new.epoch, new.exec>>
  /\ new.silent = {}

LEMMA ApplyHands ==
  ASSUME IInv, NEW i \in Sids, Apply(i)
  PROVE  \E new : /\ Deserves(new) /\ dispatches' = dispatches \cup {new}
                  /\ new.epoch = turn[i].s.epoch /\ new.exec = turn[i].s.preview.exec
<1> DEFINE s == turn[i].s
           claim == turn[i].req.claim
           catalog == turn[i].catalog
           reads == turn[i].reads
           new == [n |-> turn[i].req.n, epoch |-> s.epoch, exec |-> s.preview.exec,
                   claim |-> claim, what |-> s.intents, fp |-> s.fp, began |-> catalog,
                   silent |-> {o \in s.intents : Silent(s, o)}]
<1>b. Busy(i)
  BY DEF Apply, Busy
<1>0. /\ s \in Entry /\ s.epoch \in Nat /\ catalog \in [Entities -> Nat] /\ reads \in [Entities -> Int]
      /\ claim \in KnownClaims
      /\ Sound(s, dispatches, withdrawn, KnownClaims)
      /\ Captured(s, catalog) /\ Remembered(s, Settled)
      /\ \A e \in Entities : reads[e] # Absent => catalog[e] <= reads[e]
  BY <1>b, TurnHas
<1>1. MayApply(s, claim)
  BY <1>b DEF Apply, IInv, TypeInv, Confirming
<1>2. \A e \in Entities : reads[e] = s.fp[e]
  BY DEF Apply, Unchanged
<1>3. dispatches' = dispatches \cup {new}
  BY DEF Apply
<1> HIDE DEF s, claim, catalog, reads
<1>4. IsOpen(s) /\ s.preview.exec = claim.exec /\ \A o \in s.intents : s.ledger[o] # "unknown"
  BY <1>1 DEF MayApply, Names
<1>5. s.preview # NoPreview /\ s.preview.exec \in Nat /\ 0 < s.preview.exec /\ s.preview.exec < 100 * s.version
  BY <1>0, <1>4, EntryFields, PreviewFields DEF IsOpen, Sound, Fresh
<1>6. \A o \in s.intents : ~Silent(s, o)
  BY <1>0, <1>4, <1>5, SentRemembers
<1>7. claim.epoch = s.epoch => s.intents \in {{}, claim.what}
  <2>1. Fits(claim, s) /\ claim.exec # 0
    BY <1>0, <1>4, <1>5 DEF Sound
  <2> QED
    BY <1>4, <2>1 DEF Fits
<1>8. ASSUME NEW o \in s.intents, TargetOf[o] # NoEntity PROVE s.fp[TargetOf[o]] = catalog[TargetOf[o]]
  <2>1. o \in Ops /\ TargetOf[o] \in Entities
    BY <1>0, <1>8, EntryFields, Targets
  <2>2. s.fp[TargetOf[o]] <= catalog[TargetOf[o]] /\ s.fp[TargetOf[o]] # Absent
    BY <1>0, <1>8, <2>1 DEF Captured
  <2>3. catalog[TargetOf[o]] <= s.fp[TargetOf[o]]
    BY <1>0, <1>2, <2>1, <2>2
  <2>4. catalog[TargetOf[o]] \in Int /\ s.fp[TargetOf[o]] \in Int
    BY <1>0, <2>1, EntryFields
  <2> QED
    BY <2>2, <2>3, <2>4
<1>9. /\ \A d \in dispatches : d.epoch = s.epoch => d.exec # s.preview.exec
      /\ \A x \in withdrawn : x # <<s.epoch, s.preview.exec>>
  BY <1>0, <1>4 DEF Sound, Fresh
<1>10. {o \in s.intents : Silent(s, o)} = {}
  BY <1>6
<1>11. /\ new.epoch = s.epoch /\ new.exec = s.preview.exec /\ new.claim = claim /\ new.what = s.intents
       /\ new.fp = s.fp /\ new.began = catalog /\ new.silent = {o \in s.intents : Silent(s, o)}
  OBVIOUS
<1> HIDE DEF new
<1>12. Deserves(new)
  BY <1>0, <1>5, <1>7, <1>8, <1>9, <1>10, <1>11 DEF Deserves
<1> QED
  BY <1>3, <1>11, <1>12 DEF s

LEMMA ApplyKeeps ==
  ASSUME IInv, NEW i \in Sids, Apply(i)
  PROVE  /\ Dated' /\ DialogueInv' /\ withdrawn' = withdrawn
         /\ \E new : Deserves(new) /\ dispatches' = dispatches \cup {new}
<1> DEFINE s == turn[i].s
           claim == turn[i].req.claim
           q == Sent(s)
           shown == IF s.intents = {} THEN NoClaim ELSE claim
<1>b. Busy(i)
  BY DEF Apply, Busy
<1>0. /\ s \in Entry /\ turn[i].catalog \in [Entities -> Nat] /\ rev \in [Entities -> Nat]
      /\ claim \in KnownClaims
      /\ Sound(s, dispatches, withdrawn, KnownClaims)
      /\ Captured(s, turn[i].catalog) /\ Remembered(s, Settled)
      /\ \A e \in Entities : turn[i].catalog[e] <= rev[e]
      /\ \A d \in dispatches : d.exec \in Int
      /\ \A x \in withdrawn : x[2] \in Int
      /\ \A c \in KnownClaims : c.exec \in Int
  BY <1>b, TurnHas
<1>1. MayApply(s, claim)
  BY <1>b DEF Apply, IInv, TypeInv, Confirming
<1>2. PICK new : /\ Deserves(new) /\ dispatches' = dispatches \cup {new}
                 /\ new.epoch = s.epoch /\ new.exec = s.preview.exec
  BY ApplyHands
<1>3. /\ turn' = [turn EXCEPT ![i] = Idle]
      /\ entries' = IF Live(i) /\ entries[i].epoch = q.epoch THEN [entries EXCEPT ![i] = q] ELSE entries
      /\ \E a : a.claim = shown /\ answers' \in {answers, answers \cup {a}}
      /\ UNCHANGED <<rev, reqs, panel, count, withdrawn>>
  <2> DEFINE a == [n |-> turn[i].req.n, outcome |-> "act", what |-> s.intents, plan |-> FALSE,
                   claim |-> shown]
  <2>1. a.claim = shown /\ answers' \in {answers, answers \cup {a}}
    BY DEF Apply, Finish
  <2>2. /\ turn' = [turn EXCEPT ![i] = Idle]
        /\ entries' = IF Live(i) /\ entries[i].epoch = q.epoch THEN [entries EXCEPT ![i] = q] ELSE entries
        /\ UNCHANGED <<rev, reqs, panel, count, withdrawn>>
    BY DEF Apply, Finish, Live, browser
  <2> QED
    BY <2>1, <2>2
<1>s. shown = NoClaim \/ shown = claim
  OBVIOUS
<1>e. s.epoch \in Nat
  BY <1>0, EntryFields
<1> HIDE DEF s, claim, shown
<1>4. IsOpen(s) /\ \A o \in s.intents : s.ledger[o] # "unknown"
  BY <1>1 DEF MayApply
<1>5. s.preview.exec < 100 * s.version
  BY <1>4, <1>0 DEF Sound, Fresh, IsOpen
<1>6. Remembered(q, Unreported)
  BY <1>0, <1>4, <1>5, SentRemembers
<1>7. Sound(q, dispatches', withdrawn, KnownClaims)
  BY <1>0, <1>2, <1>4, SoundSent
<1>8. q \in Entry /\ q.epoch = s.epoch /\ q.intents = {} /\ q.ops = s.ops /\ q.fp = s.fp
  BY <1>0, <1>4, SentEntry
<1> HIDE DEF q
<1>9. Captured(q, turn[i].catalog)
  BY <1>0, <1>8 DEF Captured
<1>10. Entered(q, rev)
  BY <1>0, <1>6, <1>8, <1>9, StaysCaptured DEF Entered
<1>11. \A c \in KnownClaims' : c \in KnownClaims \/ c.exec = 0
  <2>1. \A j \in Sids : turn'[j] # Idle => Busy(j) /\ turn'[j] = turn[j]
    BY <1>3 DEF Busy
  <2>2. \A a \in answers' : a \in answers \/ a.claim = shown
    BY <1>3
  <2>3. shown \in KnownClaims \/ shown.exec = 0
    BY <1>0, <1>s DEF NoClaim
  <2> QED
    BY <1>3, <2>1, <2>2, <2>3 DEF KnownClaims, Busy
<1>12. Sound(q, dispatches', withdrawn', KnownClaims')
  BY <1>3, <1>7, <1>8, <1>11, StaysSound DEF Strange
<1>13. \A d \in dispatches' : d \in dispatches \/ (d.epoch = q.epoch /\ d.exec \in Nat)
  BY <1>2, <1>8 DEF Deserves
<1>14. Dated' /\ DialogueInv'
  BY <1>b, <1>3, <1>8, <1>10, <1>11, <1>12, <1>13, TurnEnds DEF s
<1> QED
  BY <1>2, <1>3, <1>14

-----------------------------------------------------------------------------
(* Sessions begin and reports arrive *)

\* The epoch of the session a call is for is of no other session.
LEMMA OwnEpoch ==
  ASSUME IInv, NEW k \in Sids, turn[k] = Idle, NEW e \in Nat,
         \/ entries[k] = Gone /\ e = count.epochs + 1
         \/ entries[k] # Gone /\ e = entries[k].epoch
  PROVE  \A j \in Sids : j # k => /\ Live(j) => entries[j].epoch # e
                                  /\ Busy(j) => turn[j].s.epoch # e
<1>0. TypeInv /\ Apart /\ Counted /\ count.epochs \in Nat
  BY Typing DEF IInv, DialogueInv
<1> SUFFICES ASSUME NEW j \in Sids, j # k
             PROVE  /\ Live(j) => entries[j].epoch # e
                    /\ Busy(j) => turn[j].s.epoch # e
  OBVIOUS
<1>1. /\ Live(j) => entries[j].epoch \in Nat /\ entries[j].epoch <= count.epochs
      /\ Busy(j) => turn[j].s.epoch \in Nat /\ turn[j].s.epoch <= count.epochs
  BY <1>0, Typing DEF Counted
<1>2. CASE entries[k] = Gone /\ e = count.epochs + 1
  BY <1>0, <1>1, <1>2
<1>3. CASE entries[k] # Gone /\ e = entries[k].epoch
  BY <1>0, <1>3 DEF Apart, Live
<1> QED
  BY <1>2, <1>3

LEMMA NewSession ==
  ASSUME IInv, count.epochs + 1 \in 1..MaxEpochs
  PROVE  LET s == NewEntry(count.epochs + 1)
         IN  /\ s \in Entry /\ s.epoch = count.epochs + 1 /\ OpenClaim(s) = NoClaim /\ s.sent = {}
             /\ Sound(s, dispatches, withdrawn, KnownClaims)
             /\ Remembered(s, Settled) /\ Entered(s, rev) /\ Captured(s, rev)
<1> DEFINE e == count.epochs + 1
           s == NewEntry(e)
<1>0. TypeInv /\ Dated /\ Counted /\ count.epochs \in Nat /\ rev \in [Entities -> Nat]
  BY Typing DEF IInv, DialogueInv
<1>1. /\ \A d \in dispatches : d.epoch # e
      /\ \A x \in withdrawn : x[1] # e
      /\ \A c \in KnownClaims : c.exec # 0 => c.epoch # e
  BY <1>0, KnownTyped DEF Dated, Counted
<1> HIDE DEF e
<1>2. Sound(s, dispatches, withdrawn, KnownClaims)
  BY <1>1, NewIsSound DEF e
<1>3. Remembered(s, Settled) /\ Remembered(s, Unreported) /\ Captured(s, rev)
  BY <1>0, NewRemembers DEF e
<1>4. s \in Entry /\ s.epoch = e /\ s.preview = NoPreview /\ s.sent = {}
  BY NewEntryTyped DEF e
<1> HIDE DEF s
<1>5. OpenClaim(s) = NoClaim
  BY <1>4 DEF OpenClaim, IsOpen
<1> QED
  BY <1>2, <1>3, <1>4, <1>5 DEF s, e, Entered

LEMMA BeginKeeps ==
  ASSUME IInv, NEW r \in reqs, Begin(r)
  PROVE  Dated' /\ DialogueInv' /\ UNCHANGED history
<1> DEFINE k == r.sid
           s == IF entries[r.sid] = Gone THEN NewEntry(count.epochs + 1) ELSE Expired(entries[r.sid])
           t == [req |-> r, s |-> s, catalog |-> rev, stage |-> "think", reads |-> [e \in Entities |-> Absent]]
<1>0. TypeInv /\ AllSound /\ AllKept /\ Counted /\ rev \in [Entities -> Nat] /\ count.epochs \in Nat
  BY Typing DEF IInv, DialogueInv
<1>r. r \in Requests
  BY <1>0, Typed DEF TypeInv
<1>k. k \in Sids /\ turn[k] = Idle
  BY <1>r DEF Begin, Requests
<1>1. /\ s.epoch <= MaxEpochs /\ entries' = [entries EXCEPT ![k] = s]
      /\ turn' = [turn EXCEPT ![k] = t]
      /\ count' = [count EXCEPT !.epochs = IF s.epoch > @ THEN s.epoch ELSE @]
      /\ reqs' \subseteq reqs /\ UNCHANGED <<rev, answers, panel, dispatches, withdrawn>>
  BY DEF Begin, browser, history
<1>t. t.req = r /\ t.s = s /\ t.catalog = rev /\ t.reads = [e \in Entities |-> Absent]
  OBVIOUS
<1> HIDE DEF t
<1>2. \/ entries[k] = Gone /\ s = NewEntry(count.epochs + 1) /\ s.epoch = count.epochs + 1
      \/ entries[k] # Gone /\ s = Expired(entries[k]) /\ s.epoch = entries[k].epoch
  <2>1. NewEntry(count.epochs + 1).epoch = count.epochs + 1
    BY DEF NewEntry
  <2>2. entries[k] # Gone => Expired(entries[k]).epoch = entries[k].epoch
    BY <1>0, <1>k, Typing, ExpiredAlike DEF Live, Alike
  <2> QED
    BY <2>1, <2>2
<1> HIDE DEF s
<1>3. s.epoch \in 1..MaxEpochs /\ count' \in Counts
  BY <1>0, <1>1, <1>2, SessionTyped
<1>4. s.epoch \in Nat /\ count'.epochs \in Nat /\ count.epochs <= count'.epochs /\ s.epoch <= count'.epochs
  <2>1. MaxEpochs \in Nat
    BY Bounds
  <2>2. s.epoch \in Nat
    BY <1>3, <2>1
  <2>3. count \in Counts
    BY <1>0, Typed DEF TypeInv
  <2>4. count'.epochs = IF s.epoch > count.epochs THEN s.epoch ELSE count.epochs
    BY <1>1, <2>3 DEF Counts
  <2> QED
    BY <1>0, <2>2, <2>4
<1>5. /\ s \in Entry /\ Sound(s, dispatches, withdrawn, KnownClaims)
      /\ Remembered(s, Settled) /\ Captured(s, rev)
  <2>1. CASE entries[k] = Gone
    BY <1>2, <1>3, <2>1, NewSession
  <2>2. CASE entries[k] # Gone
    <3> DEFINE old == entries[k]
    <3>1. old \in Entry /\ Sound(old, dispatches, withdrawn, KnownClaims) /\ Entered(old, rev)
      BY <1>0, <1>k, <2>2, Typing DEF AllSound, AllKept, Live
    <3>2. s = Expired(old)
      BY <1>2, <2>2
    <3> HIDE DEF old
    <3>3. Alike(old, s)
      BY <3>1, <3>2, ExpiredAlike
    <3>4. s \in Entry /\ Captured(s, rev)
      BY <1>0, <3>1, <3>3, StaysCaptured DEF Entered, Alike
    <3>5. Remembered(s, Settled)
      BY <3>1, <3>2, ExpiredSettles DEF Entered
    <3>6. Sound(s, dispatches, withdrawn, KnownClaims \cup {OpenClaim(old)})
      BY <3>1, <3>3, SoundAlike
    <3>7. Sound(s, dispatches, withdrawn, KnownClaims)
      BY <3>4, <3>6, StaysSound
    <3> QED
      BY <3>4, <3>5, <3>7
  <2> QED
    BY <2>1, <2>2
<1>6. entries \in [Sids -> {Gone} \cup Entry] /\ turn \in [Sids -> {Idle} \cup Turns]
  BY <1>0, Typed DEF TypeInv
<1>7. /\ entries'[k] = s /\ turn'[k] = t
      /\ \A j \in Sids : j # k => entries'[j] = entries[j] /\ turn'[j] = turn[j]
  BY <1>1, <1>6, <1>k
<1>8. \A c \in KnownClaims' : c \in KnownClaims
  <2>1. \A j \in Sids : turn'[j] # Idle => (Busy(j) /\ turn'[j] = turn[j]) \/ turn'[j].req = r
    BY <1>7, <1>t DEF Busy
  <2> QED
    BY <1>1, <2>1 DEF KnownClaims, Busy
<1>9. Sound(s, dispatches', withdrawn', KnownClaims')
  BY <1>1, <1>5, <1>8, StaysSound
<1>10. Entered(s, rev) /\ Turning(t, rev)
  <2>1. Remembered(s, Unreported)
    BY <1>5 DEF Remembered, Settled, Unreported
  <2>2. \A e \in Entities : rev[e] <= rev[e] /\ [x \in Entities |-> Absent][e] = Absent
    BY <1>0
  <2> QED
    BY <1>5, <1>t, <2>1, <2>2 DEF Entered, Turning
<1>11. \A j \in Sids : j # k => /\ Live(j) => entries[j].epoch # s.epoch
                                /\ Busy(j) => turn[j].s.epoch # s.epoch
  BY <1>2, <1>4, <1>k, OwnEpoch
<1> HIDE DEF k
<1>12. Moves(k, s.epoch)
  BY <1>1, <1>4, <1>7, <1>8, <1>9, <1>10, <1>11, <1>t DEF Moves
<1>13. Dated' /\ DialogueInv'
  BY <1>4, <1>12, <1>k, MovesKeeps
<1> QED
  BY <1>1, <1>13 DEF history

LEMMA ReportKeeps ==
  ASSUME IInv, NEW r \in reqs, ReportArrives(r)
  PROVE  Dated' /\ DialogueInv' /\ UNCHANGED history
<1> DEFINE k == r.sid
           s == IF entries[r.sid] = Gone THEN NewEntry(count.epochs + 1) ELSE entries[r.sid]
<1>0. TypeInv /\ AllSound /\ AllKept /\ Counted /\ rev \in [Entities -> Nat] /\ count.epochs \in Nat
  BY Typing DEF IInv, DialogueInv
<1>r. r \in Requests
  BY <1>0, Typed DEF TypeInv
<1>k. k \in Sids /\ turn[k] = Idle /\ r.rows \in Rows
  BY <1>r DEF ReportArrives, Requests
<1>1. /\ s.epoch <= MaxEpochs
      /\ count' = [count EXCEPT !.epochs = IF s.epoch > @ THEN s.epoch ELSE @]
      /\ \E after \in Reported(s, r) : entries' = [entries EXCEPT ![k] = after]
      /\ reqs' \subseteq reqs /\ UNCHANGED <<rev, turn, panel, dispatches, withdrawn>>
  BY DEF ReportArrives, browser, history
<1>a. \A a \in answers' : a \in answers \/ a.claim = OpenClaim(s)
  BY DEF ReportArrives
<1>2. \/ entries[k] = Gone /\ s = NewEntry(count.epochs + 1) /\ s.epoch = count.epochs + 1
      \/ entries[k] # Gone /\ s = entries[k] /\ s.epoch = entries[k].epoch
  <2>1. NewEntry(count.epochs + 1).epoch = count.epochs + 1
    BY DEF NewEntry
  <2> QED
    BY <2>1
<1> HIDE DEF s
<1>3. s.epoch \in 1..MaxEpochs /\ count' \in Counts
  BY <1>0, <1>1, <1>2, SessionTyped
<1>4. s.epoch \in Nat /\ count'.epochs \in Nat /\ count.epochs <= count'.epochs /\ s.epoch <= count'.epochs
  <2>1. MaxEpochs \in Nat
    BY Bounds
  <2>2. s.epoch \in Nat
    BY <1>3, <2>1
  <2>3. count \in Counts
    BY <1>0, Typed DEF TypeInv
  <2>4. count'.epochs = IF s.epoch > count.epochs THEN s.epoch ELSE count.epochs
    BY <1>1, <2>3 DEF Counts
  <2> QED
    BY <1>0, <2>2, <2>4
<1>5. s \in Entry /\ Sound(s, dispatches, withdrawn, KnownClaims) /\ Entered(s, rev)
  <2>1. CASE entries[k] = Gone
    BY <1>2, <1>3, <2>1, NewSession
  <2>2. CASE entries[k] # Gone
    BY <1>0, <1>2, <1>k, <2>2, Typing DEF AllSound, AllKept, Live
  <2> QED
    BY <2>1, <2>2
<1>6. PICK q \in Reported(s, r) : entries' = [entries EXCEPT ![k] = q]
  BY <1>1
<1>7. q = s \/ Alike(s, q)
  BY <1>5, <1>k, ReportedAlike
<1>s. Alike(s, s)
  BY <1>5 DEF Alike
<1>8. Alike(s, q)
  BY <1>7, <1>s
<1>9. q \in Entry /\ q.epoch = s.epoch
  BY <1>8 DEF Alike
<1>10. Sound(q, dispatches, withdrawn, KnownClaims \cup {OpenClaim(s)})
  BY <1>5, <1>8, SoundAlike
<1>11. Entered(q, rev)
  <2>1. Captured(q, rev)
    BY <1>0, <1>5, <1>8, StaysCaptured DEF Entered
  <2>2. Remembered(q, Unreported)
    BY <1>5, <1>k, ReportedRemembers DEF Entered
  <2> QED
    BY <2>1, <2>2 DEF Entered
<1>12. \A c \in KnownClaims' : c \in KnownClaims \/ c = OpenClaim(s)
  BY <1>1, <1>a DEF KnownClaims, Busy
<1>13. OpenClaim(s).exec = 0 \/ OpenClaim(s).epoch = s.epoch
  BY DEF OpenClaim, NoClaim
<1>14. Sound(q, dispatches', withdrawn', KnownClaims')
  BY <1>1, <1>9, <1>10, <1>12, StaysSound
<1>15. entries \in [Sids -> {Gone} \cup Entry]
  BY <1>0, Typed DEF TypeInv
<1>16. entries'[k] = q /\ turn' = turn /\ turn[k] = Idle
       /\ \A j \in Sids : j # k => entries'[j] = entries[j]
  BY <1>1, <1>6, <1>15, <1>k
<1>17. \A j \in Sids : j # k => /\ Live(j) => entries[j].epoch # s.epoch
                                /\ Busy(j) => turn[j].s.epoch # s.epoch
  BY <1>2, <1>4, <1>k, OwnEpoch
<1>18. \A c \in KnownClaims' : c \in KnownClaims \/ c.exec = 0 \/ c.epoch = s.epoch
  BY <1>12, <1>13
<1> HIDE DEF k
<1>19. Moves(k, s.epoch)
  BY <1>1, <1>4, <1>9, <1>11, <1>14, <1>16, <1>17, <1>18 DEF Moves
<1>20. Dated' /\ DialogueInv'
  BY <1>4, <1>19, <1>k, MovesKeeps
<1> QED
  BY <1>1, <1>20 DEF history

-----------------------------------------------------------------------------
(* Steps that do nothing to a session but drop it *)

LEMMA NoNewClaim ==
  ASSUME \A i \in Sids : turn'[i] \in {Idle, turn[i]},
         \A r \in reqs' : r \in reqs \/ r.claim = NoClaim \/ r.claim = panel.ref,
         answers' \subseteq answers,
         panel'.ref = panel.ref \/ panel'.ref = NoClaim \/ \E a \in answers : panel'.ref = a.claim
  PROVE  \A c \in KnownClaims' : c \in KnownClaims \/ c = NoClaim
BY DEF KnownClaims, Busy

LEMMA Drops ==
  ASSUME IInv, (\E r \in reqs : EndArrives(r)) \/ (\E i \in Sids : Forget(i)) \/ Restart
  PROVE  Dated' /\ DialogueInv' /\ UNCHANGED history
<1>0. TypeInv /\ rev \in [Entities -> Nat] /\ count \in Counts
      /\ entries \in [Sids -> {Gone} \cup Entry] /\ turn \in [Sids -> {Idle} \cup Turns]
  BY Typed DEF IInv, TypeInv
<1>1. /\ \A i \in Sids : entries'[i] \in {Gone, entries[i]} /\ turn'[i] \in {Idle, turn[i]}
      /\ reqs' \subseteq reqs /\ UNCHANGED <<rev, answers, panel, dispatches, withdrawn>>
  <2>1. CASE \E r \in reqs : EndArrives(r)
    <3>1. PICK r \in reqs : EndArrives(r)
      BY <2>1
    <3>2. /\ entries' = [entries EXCEPT ![r.sid] = Gone] /\ reqs' \subseteq reqs
          /\ UNCHANGED <<rev, turn, answers, panel, dispatches, withdrawn>>
      BY <3>1 DEF EndArrives, browser, history
    <3> QED
      BY <1>0, <3>2
  <2>2. CASE \E i \in Sids : Forget(i)
    <3>1. PICK k \in Sids : Forget(k)
      BY <2>2
    <3>2. /\ entries' = [entries EXCEPT ![k] = Gone]
          /\ UNCHANGED <<rev, turn, reqs, answers, panel, dispatches, withdrawn>>
      BY <3>1 DEF Forget, browser, history
    <3> QED
      BY <1>0, <3>2
  <2>3. CASE Restart
    BY <2>3 DEF Restart, browser, history
  <2> QED
    BY <2>1, <2>2, <2>3
<1>2. count'.epochs = count.epochs
  BY <1>0 DEF EndArrives, Forget, Restart, Dropping, Counts
<1>3. \A c \in KnownClaims' : c \in KnownClaims \/ c = NoClaim
  BY <1>1, NoNewClaim
<1>4. \A e \in Entities : rev[e] <= rev'[e]
  BY <1>0, <1>1
<1>5. Steady
  BY <1>1, <1>2, <1>3, <1>4 DEF Steady, history
<1> QED
  BY <1>0, <1>1, <1>5, SteadyKeeps DEF history

\* The browser, and rows that change elsewhere, touch no session.
LEMMA OutsideKeeps ==
  ASSUME IInv, UNCHANGED <<entries, turn, history>>, count'.epochs = count.epochs,
         rev' \in [Entities -> Nat], \A e \in Entities : rev[e] <= rev'[e],
         \A c \in KnownClaims' : c \in KnownClaims \/ c = NoClaim
  PROVE  Dated' /\ DialogueInv'
<1>1. Steady
  BY DEF Steady
<1> QED
  BY <1>1, SteadyKeeps

LEMMA BrowserKeeps ==
  ASSUME IInv, Browser
  PROVE  Dated' /\ DialogueInv' /\ UNCHANGED history
<1>0. /\ TypeInv /\ rev \in [Entities -> Nat] /\ count \in Counts /\ panel \in Panels
      /\ \A e \in Entities : rev[e] <= rev[e]
  BY Typed DEF IInv, TypeInv
<1>p. /\ [panel EXCEPT !.busy = TRUE].ref = panel.ref
      /\ [panel EXCEPT !.busy = FALSE].ref = panel.ref
      /\ [panel EXCEPT !.busy = TRUE, !.card = FALSE, !.plan = FALSE].ref = panel.ref
      /\ [panel EXCEPT !.busy = FALSE, !.card = FALSE, !.plan = FALSE].ref = panel.ref
  BY <1>0 DEF Panels
<1>1. CASE Say \/ TapApply \/ TapCancel \/ TapBuild
  <2>1. PICK kind \in {"say", "confirm", "cancel", "build"} :
          /\ Ready /\ Send(kind, panel.ref) /\ UNCHANGED <<rev, entries, turn, answers, history>>
          /\ panel' \in {[panel EXCEPT !.busy = TRUE],
                         [panel EXCEPT !.busy = TRUE, !.card = FALSE, !.plan = FALSE]}
    BY <1>1 DEF Say, TapApply, TapCancel, TapBuild
  <2>2. \A r \in reqs' : r \in reqs \/ r.claim = panel.ref
    BY <1>0, <2>1, SendTyped
  <2>3. panel'.ref = panel.ref
    BY <1>p, <2>1
  <2>4. count'.epochs = count.epochs
    BY <1>0, <2>1 DEF Send, Counts
  <2>5. \A c \in KnownClaims' : c \in KnownClaims \/ c = NoClaim
    BY <2>1, <2>2, <2>3, NoNewClaim
  <2> QED
    BY <1>0, <2>1, <2>4, <2>5, OutsideKeeps
<1>2. CASE Close
  <2>1. panel.sid \in Sids
    BY <1>0, <1>2, Bounds DEF Close, Panels, Sids
  <2>2. /\ panel' = Closed /\ reqs' = reqs \cup EndOf(panel.sid)
        /\ UNCHANGED <<rev, entries, turn, answers, count, history>>
    BY <1>2 DEF Close
  <2>3. panel'.ref = NoClaim
    BY <2>2 DEF Closed
  <2>4. \A r \in reqs' : r \in reqs \/ r.claim = NoClaim
    BY <2>1, <2>2, EndTyped
  <2>5. \A c \in KnownClaims' : c \in KnownClaims \/ c = NoClaim
    BY <2>2, <2>3, <2>4, NoNewClaim
  <2> QED
    BY <1>0, <2>2, <2>5, OutsideKeeps
<1>3. CASE Open
  <2>1. /\ panel' = [Closed EXCEPT !.sid = count.sids + 1, !.ref = panel.ref]
        /\ count' = [count EXCEPT !.sids = @ + 1]
        /\ UNCHANGED <<rev, entries, turn, reqs, answers, history>>
    BY <1>3 DEF Open
  <2>2. panel'.ref = panel.ref
    BY <2>1 DEF Closed
  <2>3. count'.epochs = count.epochs
    BY <1>0, <2>1 DEF Counts
  <2>4. \A c \in KnownClaims' : c \in KnownClaims \/ c = NoClaim
    BY <2>1, <2>2, NoNewClaim
  <2> QED
    BY <1>0, <2>1, <2>3, <2>4, OutsideKeeps
<1>4. CASE \E a \in answers : Hear(a)
  <2>0. PICK a \in answers : Hear(a)
    BY <1>4
  <2>1. answers' \subseteq answers /\ UNCHANGED <<rev, entries, turn, reqs, count, history>>
    BY <2>0 DEF Hear
  <2>2. panel'.ref \in {panel.ref, NoClaim, a.claim}
    BY <1>0, <2>0 DEF Hear, Panels
  <2>3. \A c \in KnownClaims' : c \in KnownClaims \/ c = NoClaim
    BY <2>1, <2>2, NoNewClaim
  <2> QED
    BY <1>0, <2>1, <2>3, OutsideKeeps
<1>5. CASE \E c \in calls : GiveUp(c)
  <2>1. /\ answers' \subseteq answers /\ UNCHANGED <<rev, entries, turn, reqs, count, history>>
        /\ panel' \in {[panel EXCEPT !.busy = FALSE, !.card = FALSE, !.plan = FALSE],
                       [panel EXCEPT !.busy = FALSE], panel}
    BY <1>5 DEF GiveUp
  <2>2. panel'.ref = panel.ref
    BY <1>p, <2>1
  <2>3. \A c \in KnownClaims' : c \in KnownClaims \/ c = NoClaim
    BY <2>1, <2>2, NoNewClaim
  <2> QED
    BY <1>0, <2>1, <2>3, OutsideKeeps
<1>6. CASE \E b \in batches : \E rows \in Outcomes(b.what), landed \in SUBSET b.what : RunWrites(b, rows, landed)
  <2>0. PICK b \in batches : \E rows \in Outcomes(b.what), landed \in SUBSET b.what : RunWrites(b, rows, landed)
    BY <1>6
  <2>00. PICK rows \in Outcomes(b.what), landed \in SUBSET b.what : RunWrites(b, rows, landed)
    BY <2>0
  <2>1. UNCHANGED <<entries, turn, answers, count, history>>
    BY <2>00 DEF RunWrites
  <2>2. TypeInv' /\ \A e \in Entities : rev[e] <= rev'[e]
    BY <1>0, <2>00, RunTypeInv
  <2>3. rev' \in [Entities -> Nat]
    BY <2>2, TypedNext DEF TypeInv
  <2>4. /\ \A r \in reqs' : r \in reqs \/ r.claim = NoClaim
        /\ panel' \in {Closed, [panel EXCEPT !.busy = FALSE, !.card = FALSE, !.plan = FALSE], panel}
    BY <1>0, <2>00, RunSends
  <2>5. panel'.ref = panel.ref \/ panel'.ref = NoClaim
    <3>1. Closed.ref = NoClaim
      BY DEF Closed
    <3> QED
      BY <1>p, <2>4, <3>1
  <2>6. \A c \in KnownClaims' : c \in KnownClaims \/ c = NoClaim
    BY <2>1, <2>4, <2>5, NoNewClaim
  <2> QED
    BY <2>1, <2>2, <2>3, <2>6, OutsideKeeps
<1> QED
  BY <1>1, <1>2, <1>3, <1>4, <1>5, <1>6 DEF Browser

LEMMA EditKeeps ==
  ASSUME IInv, NEW e \in Entities, Edit(e)
  PROVE  Dated' /\ DialogueInv' /\ UNCHANGED history
<1>0. TypeInv /\ count \in Counts
  BY Typed DEF IInv, TypeInv
<1>1. /\ UNCHANGED <<entries, turn, reqs, answers, panel, history>>
      /\ count' = [count EXCEPT !.edits = @ + 1]
  BY DEF Edit, browser
<1>2. TypeInv' /\ \A x \in Entities : rev[x] <= rev'[x]
  BY <1>0, EditTypeInv
<1>3. rev' \in [Entities -> Nat]
  BY <1>2, TypedNext DEF TypeInv
<1>4. count'.epochs = count.epochs
  BY <1>0, <1>1 DEF Counts
<1>5. \A c \in KnownClaims' : c \in KnownClaims \/ c = NoClaim
  BY <1>1, NoNewClaim
<1> QED
  BY <1>1, <1>2, <1>3, <1>4, <1>5, OutsideKeeps

-----------------------------------------------------------------------------
(* What a step may do to the history *)

CancelsOne ==
  /\ dispatches' = dispatches
  /\ \A x \in withdrawn' : x \in withdrawn \/ \A d \in dispatches : x # <<d.epoch, d.exec>>
HandsOne == withdrawn' = withdrawn /\ \E new : Deserves(new) /\ dispatches' = dispatches \cup {new}

LEMMA InitInv == Init => IInv
<1>1. Init => Dated /\ DialogueInv
  BY DEF Init, Dated, DialogueInv, Apart, Counted, AllSound, AllKept, Live, Busy, KnownClaims, Closed,
         NoClaim
<1> QED
  BY <1>1, InitTypeInv DEF IInv

LEMMA NextInv ==
  ASSUME IInv, [Next]_vars
  PROVE  IInv' /\ (CancelsOne \/ HandsOne)
<1>1. TypeInv'
  BY NextTypeInv DEF IInv
<1>h. UNCHANGED history => CancelsOne
  BY DEF CancelsOne, history
<1>2. CASE Server
  <2>1. ASSUME NEW r \in reqs, Begin(r) \/ ReportArrives(r) PROVE Dated' /\ DialogueInv' /\ CancelsOne
    BY <1>h, <2>1, BeginKeeps, ReportKeeps
  <2>2. CASE (\E r \in reqs : EndArrives(r)) \/ (\E i \in Sids : Forget(i)) \/ Restart
    BY <1>1, <1>h, <2>2, Drops DEF IInv
  <2>3. ASSUME NEW i \in Sids, Turn(i) PROVE Dated' /\ DialogueInv' /\ (CancelsOne \/ HandsOne)
    <3>1. TypeInv
      BY DEF IInv
    <3>2. Busy(i)
      BY <2>3, <3>1, TurnSteps
    <3>3. CASE Soft(i) \/ ShowsNew(i) \/ Confirms(i) \/ \E e \in Entities : ReadTarget(i, e)
      BY <1>h, <3>2, <3>3, SoftKeeps, ShowsKeeps, ReadKeeps
    <3>4. CASE Cancels(i)
      BY <3>2, <3>4, CancelKeeps DEF CancelsOne
    <3>5. CASE Apply(i)
      BY <3>5, ApplyKeeps DEF HandsOne
    <3> QED
      BY <2>3, <3>1, <3>3, <3>4, <3>5, TurnSteps
  <2> QED
    BY <1>1, <1>2, <2>1, <2>2, <2>3 DEF Server, IInv
<1>3. CASE Browser
  BY <1>1, <1>3, <1>h, BrowserKeeps DEF IInv
<1>4. CASE \E e \in Entities : Edit(e)
  BY <1>1, <1>4, <1>h, EditKeeps DEF IInv
<1>5. CASE UNCHANGED vars
  <2>1. CancelsOne
    BY <1>5 DEF vars, CancelsOne
  <2>2. Dated' /\ DialogueInv'
    BY <1>5 DEF vars, IInv, Dated, DialogueInv, Apart, Counted, AllSound, AllKept, Live, Busy, KnownClaims
  <2> QED
    BY <1>1, <2>1, <2>2 DEF IInv
<1> QED
  BY <1>2, <1>3, <1>4, <1>5 DEF Next

-----------------------------------------------------------------------------
(* What is handed over *)

Handed == ShownIsApplied /\ NothingChangedUnseen /\ DispatchedOnce /\ SilentNotResent /\ CancelledOrApplied

LEMMA InitHanded == Init => Handed
BY DEF Init, Handed, ShownIsApplied, NothingChangedUnseen, DispatchedOnce, SilentNotResent, CancelledOrApplied

LEMMA NextHanded ==
  ASSUME Handed, CancelsOne \/ HandsOne
  PROVE  Handed'
<1>1. CASE CancelsOne
  BY <1>1 DEF CancelsOne, Handed, ShownIsApplied, NothingChangedUnseen, DispatchedOnce, SilentNotResent,
              CancelledOrApplied
<1>2. CASE HandsOne
  <2>1. PICK new : Deserves(new) /\ dispatches' = dispatches \cup {new}
    BY <1>2 DEF HandsOne
  <2>2. withdrawn' = withdrawn
    BY <1>2 DEF HandsOne
  <2>3. ShownIsApplied' /\ NothingChangedUnseen' /\ SilentNotResent'
    BY <2>1 DEF Deserves, Handed, ShownIsApplied, NothingChangedUnseen, SilentNotResent
  <2>4. DispatchedOnce'
    BY <2>1 DEF Deserves, Handed, DispatchedOnce
  <2>5. CancelledOrApplied'
    BY <2>1, <2>2 DEF Deserves, Handed, CancelledOrApplied
  <2> QED
    BY <2>3, <2>4, <2>5 DEF Handed
<1> QED
  BY <1>1, <1>2

LEMMA AlwaysHanded == Spec => []Handed
<1>1. Init => IInv /\ Handed
  BY InitInv, InitHanded
<1>2. IInv /\ Handed /\ [Next]_vars => IInv' /\ Handed'
  BY NextInv, NextHanded
<1> QED
  BY <1>1, <1>2, PTL DEF Spec

\* Within a session only the preview whose claim came with the confirmation is
\* handed over, or nothing: a claim fits the open preview of its execution.
THEOREM OnlyWhatWasShown == Spec => []ShownIsApplied
<1>1. Handed => ShownIsApplied
  BY DEF Handed
<1> QED
  BY <1>1, AlwaysHanded, PTL

\* The row of every write that is handed over is at the revision it was
\* captured at: captured before the catalog of the turn, read after it.
THEOREM AgainstUnchangedRows == Spec => []NothingChangedUnseen
<1>1. Handed => NothingChangedUnseen
  BY DEF Handed
<1> QED
  BY <1>1, AlwaysHanded, PTL

\* A preview is handed over once: what was handed over is behind the version
\* and is not the open preview.
THEOREM HandedOverOnce == Spec => []DispatchedOnce
<1>1. Handed => DispatchedOnce
  BY DEF Handed
<1> QED
  BY <1>1, AlwaysHanded, PTL

\* A write no report spoke of is unknown by the time of the next turn, and an
\* unknown write stops the confirmation.
THEOREM SilentWritesStay == Spec => []SilentNotResent
<1>1. Handed => SilentNotResent
  BY DEF Handed
<1> QED
  BY <1>1, AlwaysHanded, PTL

\* No execution is both cancelled and handed over.
THEOREM CancelIsFinal == Spec => []CancelledOrApplied
<1>1. Handed => CancelledOrApplied
  BY DEF Handed
<1> QED
  BY <1>1, AlwaysHanded, PTL

=============================================================================
