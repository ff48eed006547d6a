-------------------------- MODULE GoogleSyncProofs --------------------------
(***************************************************************************)
(* Proofs about the two halves of the way to Google: GoogleOutbox, for     *)
(* every set of tasks and every depth of nested transactions, and          *)
(* GoogleWriteQueue, for any number of tasks, workers and attempts and for *)
(* every bound of its actions.                                             *)
(***************************************************************************)
EXTENDS GoogleOutbox, GoogleWriteQueue, SequenceTheorems, TLAPS

-----------------------------------------------------------------------------

\* What the stacks of savepoints are built from: Append, Front, Last, Head.
LEMMA Stack ==
  ASSUME NEW S, NEW s \in Seq(S), NEW e \in S
  PROVE  /\ Append(s, e) \in Seq(S) /\ Len(Append(s, e)) = Len(s) + 1
         /\ \A i \in 1 .. Len(s) : Append(s, e)[i] = s[i]
         /\ Append(s, e)[Len(s) + 1] = e
         /\ s = <<>> <=> Len(s) = 0
OBVIOUS

LEMMA StackTop ==
  ASSUME NEW S, NEW s \in Seq(S), s # <<>>
  PROVE  /\ Len(s) \in Nat \ {0}
         /\ Front(s) \in Seq(S) /\ Len(Front(s)) = Len(s) - 1
         /\ \A i \in 1 .. Len(s) - 1 : Front(s)[i] = s[i]
         /\ Last(s) \in S /\ Last(s) = s[Len(s)]
         /\ Head(s) \in S /\ Head(s) = s[1]
<1>1. Len(s) \in Nat \ {0}
  OBVIOUS
<1>2. Last(s) \in S /\ Last(s) = s[Len(s)]
  BY <1>1 DEF Last
<1>3. Head(s) \in S /\ Head(s) = s[1]
  OBVIOUS
<1>4. /\ Front(s) \in Seq(S) /\ Len(Front(s)) = Len(s) - 1
      /\ \A i \in 1 .. Len(s) - 1 : Front(s)[i] = s[i]
  <2>1. \A i \in 1 .. Len(s) - 1 : s[i] \in S
    BY <1>1
  <2>2. 1 \in Int /\ Len(s) - 1 \in Int
    BY <1>1
  <2> DEFINE n == Len(s) - 1
             f == SubSeq(s, 1, n)
  <2>3. /\ f \in Seq(S) /\ Len(f) = (IF 1 <= n THEN n - 1 + 1 ELSE 0)
        /\ \A i \in 1 .. n - 1 + 1 : f[i] = s[1 + i - 1]
    BY <2>1, <2>2, SubSeqProperties
  <2>4. Front(s) = f /\ n \in Nat /\ n = Len(s) - 1
    BY <1>1 DEF Front
  <2> HIDE DEF f, n
  <2>5. Len(f) = n
    BY <2>3, <2>4
  <2>6. \A i \in 1 .. n : f[i] = s[i]
    BY <2>3, <2>4
  <2> QED
    BY <2>3, <2>4, <2>5, <2>6
<1> QED
  BY <1>1, <1>2, <1>3, <1>4

-----------------------------------------------------------------------------

LEMMA NothingTyped == Nothing \in Collected
BY DEF Nothing, Collected

\* flush writes rows of tasks of the user.
LEMMA FlushTyped ==
  ASSUME NEW rows \in Rows, NEW c \in Collected
  PROVE  Flushed(rows, c) \in Rows /\ Written(c) \in SUBSET Ids
<1>1. Written(c) \in SUBSET Ids
  BY DEF Written, Ids, Collected
<1>2. Flushed(rows, c) \in Rows
  BY DEF Flushed, Rows, Collected
<1> QED
  BY <1>1, <1>2

LEMMA InitTypeOK == OutboxInit => OutboxTypeOK
<1> SUFFICES ASSUME OutboxInit PROVE OutboxTypeOK
  OBVIOUS
<1>1. db \in Tables
  <2>1. /\ db = [task |-> db.task, changed |-> db.changed, rows |-> db.rows]
        /\ db.task \in [OutboxTasks -> {"absent", "live"}]
        /\ db.changed = {} /\ db.rows = [up |-> {}, del |-> {}]
    BY DEF OutboxInit
  <2>2. db.task \in [OutboxTasks -> {"absent", "live", "gone"}]
    BY <2>1
  <2>3. db.rows \in Rows
    BY <2>1 DEF Rows
  <2> QED
    BY <2>1, <2>2, <2>3 DEF Tables
<1>2. begun \in Seq(Tables) /\ copies \in Seq(Collected) /\ Len(begun) = 0 /\ Len(copies) = 0
  BY DEF OutboxInit
<1>3. Len(begun) <= MaxDepth /\ Len(copies) = (IF begun = <<>> THEN 0 ELSE Len(begun) - 1)
  BY <1>2, DepthAssumption DEF OutboxInit
<1>4. event \subseteq OutboxTasks
  BY DEF OutboxInit
<1> QED
  BY <1>1, <1>2, <1>3, <1>4, NothingTyped DEF OutboxInit, OutboxTypeOK

\* What the actions make of the tables and of the notes.
LEMMA TableUpdates ==
  ASSUME NEW d \in Tables, NEW t \in OutboxTasks
  PROVE  /\ [d EXCEPT !.task[t] = "live", !.changed = @ \cup {t}] \in Tables
         /\ [d EXCEPT !.task[t] = "gone", !.changed = @ \cup {t}] \in Tables
         /\ [d EXCEPT !.changed = @ \cup {t}] \in Tables
         /\ \A r \in Rows : [d EXCEPT !.rows = r] \in Tables
         /\ \A r \in Rows, u \in SUBSET OutboxTasks : [d EXCEPT !.rows = r, !.changed = @ \cup u] \in Tables
         /\ [d EXCEPT !.rows.up = @ \ {t}, !.changed = @ \ {t}] \in Tables
         /\ [d EXCEPT !.rows.del = @ \ {t}] \in Tables
BY DEF Tables, Rows

LEMMA NoteUpdates ==
  ASSUME NEW c \in Collected, NEW t \in OutboxTasks, NEW e \in SUBSET OutboxTasks, NEW w \in SUBSET Ids
  PROVE  /\ [c EXCEPT !.upserts = @ \cup {t}] \in Collected
         /\ [c EXCEPT !.removed = @ \cup {t}, !.deletes = @ \cup ({t} \cap e)] \in Collected
         /\ [c EXCEPT !.written = w] \in Collected
BY DEF Collected

\* Every action keeps the types, and one copy of the notes per open savepoint.
LEMMA NextTypeOK == OutboxTypeOK /\ [OutboxNext]_outboxVars => OutboxTypeOK'
<1> SUFFICES ASSUME OutboxTypeOK, [OutboxNext]_outboxVars PROVE OutboxTypeOK'
  OBVIOUS
<1> USE DEF OutboxTypeOK
<1>s. /\ Len(begun) \in Nat /\ MaxDepth \in Nat
      /\ Open => begun # <<>> /\ Len(begun) > 0
      /\ ~Open => begun = <<>> /\ Len(begun) = 0
  BY DepthAssumption DEF Open
<1>1. CASE Begin
  <2>1. begun' \in Seq(Tables) /\ Len(begun') = Len(begun) + 1 /\ begun' # <<>>
    BY <1>1, <1>s, Stack DEF Begin
  <2>2. copies' \in Seq(Collected) /\ Len(copies') = (IF Open THEN Len(copies) + 1 ELSE 0)
    BY <1>1, <1>s, Stack DEF Begin, Copied
  <2> QED
    BY <1>1, <1>s, <2>1, <2>2 DEF Begin, direct, fixed
<1>2. ASSUME NEW t \in OutboxTasks, SaveTask(t) PROVE OutboxTypeOK'
  BY <1>2, TableUpdates, NoteUpdates DEF SaveTask, direct, fixed
<1>3. ASSUME NEW t \in OutboxTasks, RemoveTask(t) PROVE OutboxTypeOK'
  BY <1>3, TableUpdates, NoteUpdates DEF RemoveTask, direct, fixed
<1>4. ASSUME Release \/ RollBackNested PROVE OutboxTypeOK'
  <2>1. Len(begun) > 1 /\ begun # <<>> /\ copies # <<>>
    BY <1>4, <1>s DEF Release, RollBackNested, Nested
  <2>2. /\ begun' \in Seq(Tables) /\ Len(begun') = Len(begun) - 1
        /\ copies' \in Seq(Collected) /\ Len(copies') = Len(copies) - 1
        /\ Last(begun) \in Tables /\ Last(copies) \in Collected
    BY <1>4, <2>1, StackTop DEF Release, RollBackNested
  <2>3. begun' # <<>>
    BY <1>s, <2>1, <2>2
  <2>4. Len(copies') = (IF begun' = <<>> THEN 0 ELSE Len(begun') - 1) /\ Len(begun') <= MaxDepth
    BY <1>s, <2>1, <2>2, <2>3
  <2>5. db' \in Tables /\ noted' \in Collected
    BY <1>4, <2>2 DEF Release, RollBackNested
  <2>6. UNCHANGED <<flushed, silent, lost, kicked, event, linked>>
    BY <1>4 DEF Release, RollBackNested, direct, fixed
  <2> QED
    BY <2>2, <2>4, <2>5, <2>6
<1>5. CASE Flush
  <2>1. db.rows \in Rows
    BY DEF Tables
  <2>2. Flushed(db.rows, noted) \in Rows /\ Written(noted) \in SUBSET Ids
    BY <2>1, FlushTyped
  <2>3. db' \in Tables
    BY <1>5, <2>1, <2>2 DEF Flush, Tables
  <2> QED
    BY <1>5, <2>2, <2>3, NothingTyped DEF Flush, direct, fixed, Collected
<1>6. ASSUME Commit \/ RollBack PROVE OutboxTypeOK'
  <2>1. begun' = <<>> /\ copies' = <<>> /\ flushed' = FALSE
    BY <1>6 DEF Commit, RollBack
  <2>2. noted' \in Collected
    BY <1>6, NothingTyped DEF Commit, RollBack, Collected
  <2>3. kicked' \subseteq Ids
    BY <1>6 DEF Commit, RollBack, Collected
  <2>4. db' \in Tables
    BY <1>6, <1>s, StackTop DEF Commit, RollBack
  <2>5. UNCHANGED <<silent, lost, event, linked>>
    BY <1>6 DEF Commit, RollBack, direct, fixed
  <2>6. /\ begun' \in Seq(Tables) /\ Len(begun') <= MaxDepth
        /\ copies' \in Seq(Collected) /\ Len(copies') = (IF begun' = <<>> THEN 0 ELSE Len(begun') - 1)
    BY <1>s, <2>1
  <2> QED
    BY <2>1, <2>2, <2>3, <2>4, <2>5, <2>6
<1>7. ASSUME NEW t \in OutboxTasks, ChangeDirectly(t) PROVE OutboxTypeOK'
  BY <1>7, TableUpdates DEF ChangeDirectly, fixed
<1>8. ASSUME NEW t \in OutboxTasks, NoteDirectly(t) PROVE OutboxTypeOK'
  <2>1. PICK namesUser \in BOOLEAN :
          LET c == [Nothing EXCEPT !.upserts = {u \in {t} : namesUser \/ db.task[u] = "live"}]
          IN  /\ db' = [db EXCEPT !.rows = Flushed(@, c), !.changed = @ \cup c.upserts]
              /\ kicked' = kicked \cup Written(c)
    BY <1>8 DEF NoteDirectly
  <2> DEFINE c == [Nothing EXCEPT !.upserts = {u \in {t} : namesUser \/ db.task[u] = "live"}]
  <2>2. c \in Collected /\ c.upserts \subseteq OutboxTasks /\ db.rows \in Rows
    BY NothingTyped DEF Collected, Nothing, Tables
  <2>3. Flushed(db.rows, c) \in Rows /\ Written(c) \in SUBSET Ids
    BY <2>2, FlushTyped
  <2>4. db' = [db EXCEPT !.rows = Flushed(db.rows, c), !.changed = @ \cup c.upserts]
        /\ kicked' = kicked \cup Written(c)
    BY <2>1
  <2> HIDE DEF c
  <2>5. db' \in Tables
    BY <2>2, <2>3, <2>4, TableUpdates
  <2> QED
    BY <1>8, <2>3, <2>4, <2>5 DEF NoteDirectly, fixed
<1>9. CASE CrashBeforeNote
  BY <1>9 DEF CrashBeforeNote, fixed
<1>10. ASSUME NEW t \in OutboxTasks, Sent(t) PROVE OutboxTypeOK'
  BY <1>10, TableUpdates DEF Sent, direct
<1>11. CASE UNCHANGED outboxVars
  BY <1>11 DEF outboxVars
<1> QED
  BY <1>1, <1>2, <1>3, <1>4, <1>5, <1>6, <1>7, <1>8, <1>9, <1>10, <1>11 DEF OutboxNext

\* Types: tables, notes and the two stacks of the connection.
THEOREM OutboxTypeCorrect == OutboxSpec => []OutboxTypeOK
BY InitTypeOK, NextTypeOK, PTL DEF OutboxSpec

-----------------------------------------------------------------------------

Gone(d) == {t \in OutboxTasks : d.task[t] = "gone"}

\* The tables and the notes of one level fit: what is written or noted is true
\* of the tables, and what the tables hold is written or noted.  ex: changes
\* whose note came to nothing; ev: tasks with an event; li: a stored grant.
Level(d, c, ex, ev, li) ==
    /\ d.rows.up \cup c.upserts \subseteq d.changed
    /\ d.rows.del \cup c.deletes \cup c.removed \subseteq Gone(d)
    /\ \A t \in OutboxTasks \ ex : li /\ t \in d.changed /\ d.task[t] = "live" => t \in d.rows.up \cup c.upserts
    /\ \A t \in ev : d.task[t] = "gone" => t \in d.rows.del \cup c.deletes

Fits(d, c) == Level(d, c, silent \cup lost, event, linked)

\* The connection now, and what every open transaction would go back to.
TopFits == Fits(db, noted)
StackFits == \A i \in 1 .. Len(begun) : Fits(begun[i], IF i = 1 THEN Nothing ELSE copies[i - 1])

IsRow(id, d) == IF id[1] = "up" THEN id[2] \in d.rows.up ELSE id[2] \in d.rows.del

\* Between the flush and the COMMIT the notes are exactly the rows written.
FlushFits ==
    /\ ~Open => noted = Nothing /\ ~flushed
    /\ flushed => /\ Len(begun) = 1
                  /\ noted = [Nothing EXCEPT !.written = noted.written]
                  /\ \A id \in noted.written : IsRow(id, db)

Inv == OutboxTypeOK /\ TopFits /\ StackFits /\ FlushFits

-----------------------------------------------------------------------------

\* The tables of a level with the notes of each kind of change.
LEMMA SaveFits ==
  ASSUME NEW d \in Tables, NEW c \in Collected, NEW ex, NEW ev, NEW li, NEW t \in OutboxTasks,
         d.task[t] \in {"absent", "live"}, Level(d, c, ex, ev, li)
  PROVE  Level([d EXCEPT !.task[t] = "live", !.changed = @ \cup {t}],
               [c EXCEPT !.upserts = @ \cup {t}], ex, ev, li)
BY DEF Level, Gone, Tables, Rows, Collected

LEMMA RemoveFits ==
  ASSUME NEW d \in Tables, NEW c \in Collected, NEW ex, NEW ev, NEW li, NEW t \in OutboxTasks,
         d.task[t] = "live", Level(d, c, ex, ev, li)
  PROVE  Level([d EXCEPT !.task[t] = "gone", !.changed = @ \cup {t}],
               [c EXCEPT !.removed = @ \cup {t}, !.deletes = @ \cup ({t} \cap ev)], ex, ev, li)
BY DEF Level, Gone, Tables, Rows, Collected

\* Notes that name no task may name any rows that were written.
LEMMA EmptyFits ==
  ASSUME NEW d, NEW ex, NEW ev, NEW li, NEW w
  PROVE  Level(d, [Nothing EXCEPT !.written = w], ex, ev, li) <=> Level(d, Nothing, ex, ev, li)
BY DEF Level, Nothing

\* After a flush nothing is left to note.
LEMMA FlushLevel ==
  ASSUME NEW d \in Tables, NEW c \in Collected, NEW ex, NEW ev, Level(d, c, ex, ev, linked)
  PROVE  Level([d EXCEPT !.rows = Flushed(@, c)], Nothing, ex, ev, linked)
<1> DEFINE r == Flushed(d.rows, c)
           e == [d EXCEPT !.rows = Flushed(@, c)]
<1>1. /\ r.up = (d.rows.up \ c.removed) \cup (IF linked THEN c.upserts \ c.removed ELSE {})
      /\ r.del = d.rows.del \cup c.deletes
  BY DEF Flushed, Written, Collected
<1>2. e.rows = r /\ e.task = d.task /\ e.changed = d.changed
  BY DEF Tables
<1> HIDE DEF e, r
<1>3. Level(e, Nothing, ex, ev, linked)
  BY <1>1, <1>2 DEF Level, Gone, Nothing
<1> QED
  BY <1>3 DEF e

\* What flush writes are rows of the tables it leaves.
LEMMA WrittenAreRows ==
  ASSUME NEW rows \in Rows, NEW c \in Collected, NEW id \in Written(c), NEW d, d.rows = Flushed(rows, c)
  PROVE  IsRow(id, d)
BY DEF Written, Flushed, IsRow, Rows, Collected

\* A change outside a transaction is excused until it is noted.
LEMMA DirectLevel ==
  ASSUME NEW d \in Tables, NEW ex, NEW ev, NEW li, NEW t \in OutboxTasks, Level(d, Nothing, ex, ev, li)
  PROVE  Level([d EXCEPT !.changed = @ \cup {t}], Nothing, ex \cup {t}, ev, li)
BY DEF Level, Gone, Nothing, Tables, Rows

\* Its note writes the row of a task that is there.
LEMMA NoteLevel ==
  ASSUME NEW d \in Tables, NEW ex, NEW ex2, NEW ev, NEW t \in OutboxTasks, NEW u \in SUBSET {t},
         ex \subseteq ex2 \cup {t}, d.task[t] = "live" => t \in u,
         Level(d, Nothing, ex, ev, linked)
  PROVE  LET c == [Nothing EXCEPT !.upserts = u]
         IN  Level([d EXCEPT !.rows = Flushed(@, c), !.changed = @ \cup u], Nothing, ex2, ev, linked)
<1> DEFINE c == [Nothing EXCEPT !.upserts = u]
           r == Flushed(d.rows, c)
           e == [d EXCEPT !.rows = Flushed(@, c), !.changed = @ \cup u]
<1>1. r.up = d.rows.up \cup (IF linked THEN u ELSE {}) /\ r.del = d.rows.del
  BY DEF Flushed, Written, Nothing, Tables, Rows
<1>2. e.rows = r /\ e.task = d.task /\ e.changed = d.changed \cup u
  BY DEF Tables
<1> HIDE DEF e, r
<1>3. Level(e, Nothing, ex2, ev, linked)
  BY <1>1, <1>2 DEF Level, Gone, Nothing
<1> QED
  BY <1>3 DEF e

\* Rows that are sent are deleted with the change or the event they stood for.
LEMMA SentLevel ==
  ASSUME NEW d \in Tables, NEW ex, NEW ev, NEW li, NEW t \in OutboxTasks, Level(d, Nothing, ex, ev, li)
  PROVE  /\ Level([d EXCEPT !.rows.up = @ \ {t}, !.changed = @ \ {t}], Nothing, ex,
                  IF d.task[t] = "live" THEN ev \cup {t} ELSE ev, li)
         /\ Level([d EXCEPT !.rows.del = @ \ {t}], Nothing, ex, ev \ {t}, li)
BY DEF Level, Gone, Nothing, Tables, Rows

-----------------------------------------------------------------------------

LEMMA InitInv == OutboxInit => Inv
<1> SUFFICES ASSUME OutboxInit PROVE Inv
  OBVIOUS
<1>1. db.changed = {} /\ db.rows = [up |-> {}, del |-> {}] /\ \A t \in OutboxTasks : db.task[t] # "gone"
  BY DEF OutboxInit
<1>2. TopFits
  BY <1>1 DEF OutboxInit, TopFits, Fits, Level, Gone, Nothing
<1>3. StackFits
  BY DEF OutboxInit, StackFits
<1>4. FlushFits
  BY DEF OutboxInit, FlushFits
<1> QED
  BY <1>2, <1>3, <1>4, InitTypeOK DEF Inv

\* Every action keeps every level fitting: a savepoint copies a level, a change
\* and its note move the top level together, a rollback returns to a lower one.
LEMMA NextInv == Inv /\ [OutboxNext]_outboxVars => Inv'
<1> SUFFICES ASSUME Inv, [OutboxNext]_outboxVars PROVE TopFits' /\ StackFits' /\ FlushFits'
  BY NextTypeOK DEF Inv
<1>t. OutboxTypeOK /\ TopFits /\ StackFits /\ FlushFits
  BY DEF Inv
<1>s. /\ Len(begun) \in Nat /\ begun \in Seq(Tables) /\ copies \in Seq(Collected)
      /\ Open <=> Len(begun) > 0
      /\ Open => begun # <<>> /\ Len(copies) = Len(begun) - 1
      /\ db \in Tables /\ noted \in Collected /\ event \subseteq OutboxTasks
  BY <1>t DEF OutboxTypeOK, Open
<1>1. CASE Begin
  <2>1. /\ Len(begun') = Len(begun) + 1 /\ begun'[Len(begun) + 1] = db
        /\ \A i \in 1 .. Len(begun) : begun'[i] = begun[i]
    BY <1>1, <1>s, Stack DEF Begin
  <2>2. \A i \in 1 .. Len(begun) : (IF i = 1 THEN Nothing ELSE copies'[i - 1]) = (IF i = 1 THEN Nothing ELSE copies[i - 1])
    <3>1. CASE Open
      <4>1. \A i \in 1 .. Len(copies) : copies'[i] = copies[i]
        BY <1>1, <1>s, <3>1, Stack DEF Begin, Copied
      <4> QED
        BY <1>s, <3>1, <4>1
    <3>2. CASE ~Open
      BY <1>s, <3>2
    <3> QED
      BY <3>1, <3>2
  <2>3. (IF Len(begun) + 1 = 1 THEN Nothing ELSE copies'[Len(begun)]) = noted
    <3>1. CASE Open
      BY <1>1, <1>s, <3>1, Stack DEF Begin, Copied
    <3>2. CASE ~Open
      BY <1>s, <1>t, <3>2 DEF FlushFits
    <3> QED
      BY <3>1, <3>2
  <2>4. UNCHANGED <<db, noted, flushed, silent, lost, event, linked>> /\ ~flushed
    BY <1>1 DEF Begin, direct, fixed
  <2>5. TopFits'
    BY <1>t, <2>4 DEF TopFits, Fits
  <2>6. ASSUME NEW i \in 1 .. Len(begun') PROVE Fits(begun'[i], IF i = 1 THEN Nothing ELSE copies'[i - 1])
    <3>1. CASE i \in 1 .. Len(begun)
      BY <1>t, <2>1, <2>2, <3>1 DEF StackFits
    <3>2. CASE i = Len(begun) + 1
      BY <1>s, <1>t, <2>1, <2>3, <3>2 DEF TopFits
    <3> QED
      BY <1>s, <2>1, <3>1, <3>2
  <2>7. StackFits'
    BY <2>4, <2>6 DEF StackFits, Fits
  <2>8. FlushFits'
    BY <1>s, <2>1, <2>4 DEF FlushFits, Open
  <2> QED
    BY <2>5, <2>7, <2>8
<1>2. ASSUME NEW t \in OutboxTasks, SaveTask(t) \/ RemoveTask(t) PROVE TopFits' /\ StackFits' /\ FlushFits'
  <2>1. UNCHANGED <<begun, copies, flushed, silent, lost, event, linked>> /\ ~flushed /\ Open
    BY <1>2 DEF SaveTask, RemoveTask, direct, fixed
  <2>2. Fits(db', noted')
    <3>1. CASE SaveTask(t)
      BY <3>1, <1>s, <1>t, SaveFits DEF SaveTask, TopFits, Fits
    <3>2. CASE RemoveTask(t)
      BY <3>2, <1>s, <1>t, RemoveFits DEF RemoveTask, TopFits, Fits
    <3> QED
      BY <1>2, <3>1, <3>2
  <2> QED
    BY <1>t, <2>1, <2>2 DEF TopFits, StackFits, FlushFits, Fits, Open
<1>3. ASSUME Release \/ RollBackNested PROVE TopFits' /\ StackFits' /\ FlushFits'
  <2>1. Len(begun) > 1 /\ begun # <<>> /\ copies # <<>>
    BY <1>3, <1>s DEF Release, RollBackNested, Nested, Open
  <2>2. /\ begun' \in Seq(Tables) /\ Len(begun') = Len(begun) - 1
        /\ \A i \in 1 .. Len(begun) - 1 : begun'[i] = begun[i]
        /\ \A i \in 1 .. Len(copies) - 1 : copies'[i] = copies[i]
        /\ Last(begun) = begun[Len(begun)] /\ Last(copies) = copies[Len(copies)]
    BY <1>3, <1>s, <2>1, StackTop DEF Release, RollBackNested
  <2>3. Len(copies) = Len(begun) - 1 /\ Open /\ Open'
    BY <1>s, <2>1, <2>2 DEF Open
  <2>4. UNCHANGED <<flushed, silent, lost, event, linked>> /\ ~flushed
    <3>1. ~flushed
      BY <1>s, <1>t, <2>1 DEF FlushFits
    <3>2. UNCHANGED <<flushed, silent, lost, event, linked>>
      BY <1>3 DEF Release, RollBackNested, direct, fixed
    <3> QED
      BY <3>1, <3>2
  <2>5. \A i \in 1 .. Len(begun') : Fits(begun'[i], IF i = 1 THEN Nothing ELSE copies'[i - 1])
    <3> TAKE i \in 1 .. Len(begun')
    <3>1. i \in 1 .. Len(begun) /\ begun'[i] = begun[i]
      BY <1>s, <2>2
    <3>2. i # 1 => copies'[i - 1] = copies[i - 1]
      BY <1>s, <2>2, <2>3
    <3> QED
      BY <1>t, <3>1, <3>2 DEF StackFits
  <2>6. Fits(db', noted')
    <3>1. CASE Release
      BY <1>t, <3>1 DEF Release, TopFits
    <3>2. CASE RollBackNested
      <4>1. Fits(begun[Len(begun)], copies[Len(begun) - 1])
        BY <1>s, <1>t, <2>1 DEF StackFits
      <4> QED
        BY <2>2, <2>3, <3>2, <4>1 DEF RollBackNested
    <3> QED
      BY <1>3, <3>1, <3>2
  <2> QED
    BY <2>3, <2>4, <2>5, <2>6 DEF TopFits, StackFits, FlushFits, Fits
<1>4. CASE Flush
  <2>1. db.rows \in Rows
    BY <1>s DEF Tables
  <2>2. UNCHANGED <<begun, copies, silent, lost, event, linked>> /\ Len(begun) = 1
    BY <1>4 DEF Flush, direct, fixed
  <2>3. Fits(db', Nothing)
    BY <1>4, <1>s, <1>t, FlushLevel DEF Flush, TopFits, Fits
  <2>4. noted' = [Nothing EXCEPT !.written = Written(noted)] /\ noted'.written = Written(noted)
    BY <1>4 DEF Flush, Nothing
  <2>5. Fits(db', noted')
    BY <2>3, <2>4, EmptyFits DEF Fits
  <2>6. db'.rows = Flushed(db.rows, noted)
    BY <1>4, <1>s DEF Flush, Tables
  <2>7. \A id \in noted'.written : IsRow(id, db')
    BY <1>s, <2>1, <2>4, <2>6, WrittenAreRows
  <2>8. Open'
    BY <1>s, <2>2 DEF Open
  <2> QED
    BY <1>t, <2>2, <2>4, <2>5, <2>7, <2>8 DEF TopFits, StackFits, FlushFits, Fits
<1>5. ASSUME Commit \/ RollBack PROVE TopFits' /\ StackFits' /\ FlushFits'
  <2>1. begun' = <<>> /\ ~flushed' /\ Len(begun') = 0 /\ ~Open'
    BY <1>5 DEF Commit, RollBack, Open
  <2>2. UNCHANGED <<silent, lost, event, linked>>
    BY <1>5 DEF Commit, RollBack, direct, fixed
  <2>3. noted' = Nothing
    BY <1>5, <1>t DEF Commit, RollBack, FlushFits, Nothing
  <2>4. Fits(db', Nothing)
    <3>1. CASE Commit
      <4>1. Fits(db, noted) /\ noted = [Nothing EXCEPT !.written = noted.written]
        BY <1>t, <3>1 DEF Commit, FlushFits, TopFits
      <4> QED
        BY <3>1, <4>1, EmptyFits DEF Commit, Fits
    <3>2. CASE RollBack
      <4>1. begun # <<>> /\ Head(begun) = begun[1] /\ 1 \in 1 .. Len(begun)
        BY <1>s, <3>2, StackTop DEF RollBack
      <4> QED
        BY <1>t, <3>2, <4>1 DEF RollBack, StackFits
    <3> QED
      BY <1>5, <3>1, <3>2
  <2>5. StackFits'
    BY <2>1 DEF StackFits
  <2> QED
    BY <2>1, <2>2, <2>3, <2>4, <2>5 DEF TopFits, FlushFits, Fits
<1>6. ASSUME ~Open, UNCHANGED <<begun, noted, copies, flushed>>, Fits(db, Nothing)' PROVE TopFits' /\ StackFits' /\ FlushFits'
  <2>1. noted' = Nothing /\ ~flushed' /\ ~Open' /\ Len(begun') = 0
    BY <1>6, <1>s, <1>t DEF FlushFits, Open
  <2> QED
    BY <1>6, <2>1 DEF TopFits, StackFits, FlushFits
<1>n. ~Open => Fits(db, Nothing)
  BY <1>t DEF TopFits, FlushFits
<1>7. ASSUME NEW t \in OutboxTasks, ChangeDirectly(t) PROVE TopFits' /\ StackFits' /\ FlushFits'
  <2>1. Level(db', Nothing, (silent \cup lost) \cup {t}, event, linked)
    BY <1>7, <1>s, <1>n, DirectLevel DEF ChangeDirectly, Fits
  <2>2. silent' \cup lost' = (silent \cup lost) \cup {t}
    BY <1>7 DEF ChangeDirectly
  <2>3. Fits(db, Nothing)'
    BY <1>7, <2>1, <2>2 DEF ChangeDirectly, fixed, Fits
  <2> QED
    BY <1>6, <1>7, <2>3 DEF ChangeDirectly
<1>8. ASSUME NEW t \in OutboxTasks, NoteDirectly(t) PROVE TopFits' /\ StackFits' /\ FlushFits'
  <2>1. PICK namesUser \in BOOLEAN :
          LET c == [Nothing EXCEPT !.upserts = {u \in {t} : namesUser \/ db.task[u] = "live"}]
          IN  db' = [db EXCEPT !.rows = Flushed(@, c), !.changed = @ \cup c.upserts]
    BY <1>8 DEF NoteDirectly
  <2> DEFINE u == {v \in {t} : namesUser \/ db.task[v] = "live"}
             c == [Nothing EXCEPT !.upserts = u]
  <2>2. c.upserts = u
    BY DEF Nothing
  <2>3. db' = [db EXCEPT !.rows = Flushed(@, c), !.changed = @ \cup u]
    BY <2>1, <2>2
  <2>4. u \in SUBSET {t} /\ (db.task[t] = "live" => t \in u)
    OBVIOUS
  <2>5. silent \cup lost \subseteq (silent' \cup lost') \cup {t}
    BY <1>8 DEF NoteDirectly
  <2> HIDE DEF u
  <2>6. Level(db', Nothing, silent' \cup lost', event, linked)
    BY <1>8, <1>s, <1>n, <2>3, <2>4, <2>5, NoteLevel DEF NoteDirectly, Fits
  <2>7. Fits(db, Nothing)'
    BY <1>8, <2>6 DEF NoteDirectly, fixed, Fits
  <2> QED
    BY <1>6, <1>8, <2>7 DEF NoteDirectly
<1>9. CASE CrashBeforeNote
  <2>1. silent' \cup lost' = silent \cup lost
    BY <1>9 DEF CrashBeforeNote
  <2>2. Fits(db, Nothing)'
    BY <1>9, <1>n, <2>1 DEF CrashBeforeNote, fixed, Fits
  <2> QED
    BY <1>6, <1>9, <2>2 DEF CrashBeforeNote
<1>10. ASSUME NEW t \in OutboxTasks, Sent(t) PROVE TopFits' /\ StackFits' /\ FlushFits'
  <2>1. silent' \cup lost' = silent \cup lost /\ linked' = linked
    BY <1>10 DEF Sent, direct
  <2>2. Level(db', Nothing, silent \cup lost, event', linked)
    <3>1. Level(db, Nothing, silent \cup lost, event, linked)
      BY <1>10, <1>n DEF Sent, Fits
    <3>2. \/ /\ db' = [db EXCEPT !.rows.up = @ \ {t}, !.changed = @ \ {t}]
             /\ event' = IF db.task[t] = "live" THEN event \cup {t} ELSE event
          \/ /\ db' = [db EXCEPT !.rows.del = @ \ {t}]
             /\ event' = event \ {t}
      BY <1>10 DEF Sent
    <3>3. /\ Level([db EXCEPT !.rows.up = @ \ {t}, !.changed = @ \ {t}], Nothing, silent \cup lost,
                   IF db.task[t] = "live" THEN event \cup {t} ELSE event, linked)
          /\ Level([db EXCEPT !.rows.del = @ \ {t}], Nothing, silent \cup lost, event \ {t}, linked)
      BY <1>s, <3>1, SentLevel
    <3> QED
      BY <3>2, <3>3
  <2>3. Fits(db, Nothing)'
    BY <2>1, <2>2 DEF Fits
  <2> QED
    BY <1>6, <1>10, <2>3 DEF Sent
<1>11. CASE UNCHANGED outboxVars
  BY <1>11, <1>t DEF outboxVars, TopFits, StackFits, FlushFits, Fits, Open
<1> QED
  BY <1>1, <1>2, <1>3, <1>4, <1>5, <1>7, <1>8, <1>9, <1>10, <1>11 DEF OutboxNext

THEOREM Invariance == OutboxSpec => []Inv
BY InitInv, NextInv, PTL DEF OutboxSpec

-----------------------------------------------------------------------------

\* After every commit, whatever the nesting, what changed is written, and so is
\* the deletion of every event without a task (the subscriber's H-1, AUD-013).
THEOREM IntentsAreCommitted == OutboxSpec => []IntentsCommit
<1>1. Inv => IntentsCommit
  BY DEF Inv, TopFits, FlushFits, Fits, Level, Nothing, IntentsCommit
<1> QED
  BY <1>1, Invariance, PTL

\* After every rollback no row is left of what was undone (H-1).
THEOREM RollbacksAreClean == OutboxSpec => []RollbackLeavesNothing
<1>1. Inv => RollbackLeavesNothing
  BY DEF Inv, TopFits, FlushFits, Fits, Level, Nothing, Gone, RollbackLeavesNothing
<1> QED
  BY <1>1, Invariance, PTL

\* A row is handed to the queue by the step that commits it, or later.
THEOREM KicksFollowCommits == OutboxSpec => KickedWhenCommitted
<1>1. Inv /\ [OutboxNext]_outboxVars =>
        [kicked' # kicked =>
           /\ begun' = <<>>
           /\ \A id \in kicked' \ kicked : IsRow(id, db')]_outboxVars
  <2> SUFFICES ASSUME Inv, OutboxNext, kicked' # kicked
               PROVE  begun' = <<>> /\ \A id \in kicked' \ kicked : IsRow(id, db')
    BY DEF outboxVars
  <2>1. CASE Commit
    BY <2>1 DEF Commit, Inv, FlushFits
  <2>2. ASSUME NEW t \in OutboxTasks, NoteDirectly(t)
        PROVE  begun' = <<>> /\ \A id \in kicked' \ kicked : IsRow(id, db')
    <3>1. PICK namesUser \in BOOLEAN :
            LET c == [Nothing EXCEPT !.upserts = {u \in {t} : namesUser \/ db.task[u] = "live"}]
            IN  /\ db' = [db EXCEPT !.rows = Flushed(@, c), !.changed = @ \cup c.upserts]
                /\ kicked' = kicked \cup Written(c)
      BY <2>2 DEF NoteDirectly
    <3> DEFINE c == [Nothing EXCEPT !.upserts = {u \in {t} : namesUser \/ db.task[u] = "live"}]
    <3>2. c \in Collected /\ db.rows \in Rows
      BY NothingTyped DEF Inv, OutboxTypeOK, Tables, Collected
    <3>3. db'.rows = Flushed(db.rows, c) /\ kicked' = kicked \cup Written(c)
      BY <3>1 DEF Inv, OutboxTypeOK, Tables
    <3> HIDE DEF c
    <3>4. \A id \in Written(c) : IsRow(id, db')
      BY <3>2, <3>3, WrittenAreRows
    <3> QED
      BY <2>2, <3>3, <3>4 DEF NoteDirectly, Open
  <2>3. ASSUME NEW t \in OutboxTasks, Sent(t)
        PROVE  begun' = <<>> /\ \A id \in kicked' \ kicked : IsRow(id, db')
    BY <2>3 DEF Sent, Open
  <2>4. Begin \/ Release \/ RollBackNested \/ Flush \/ RollBack \/ CrashBeforeNote
        \/ (\E t \in OutboxTasks : SaveTask(t) \/ RemoveTask(t) \/ ChangeDirectly(t)) => kicked' = kicked
    BY DEF Begin, Release, RollBackNested, Flush, RollBack, CrashBeforeNote, SaveTask, RemoveTask, ChangeDirectly
  <2> QED
    BY <2>1, <2>2, <2>3, <2>4 DEF OutboxNext
<1>2. Inv /\ [OutboxNext]_outboxVars => [kicked' # kicked =>
         /\ begun' = <<>>
         /\ \A id \in kicked' \ kicked : IF id[1] = "up" THEN id[2] \in db'.rows.up
                                         ELSE id[2] \in db'.rows.del]_outboxVars
  BY <1>1 DEF IsRow
<1> QED
  BY <1>2, Invariance, PTL DEF OutboxSpec, KickedWhenCommitted

-----------------------------------------------------------------------------

\* What the statements make of a row.
LEMMA RowUpdates ==
  ASSUME NEW r \in Row, NEW due \in BOOLEAN
  PROVE  /\ Bump(r) \in Row /\ Insert(r, due) \in Row /\ Deleted(r) \in Row
         /\ Reopen(r, due) \in Row /\ Recorded(r, due) \in Row
         /\ Retried(r, due) \in Row /\ Renewed(r, due) \in Row
         /\ [r EXCEPT !.due = due] \in Row
         /\ \A l \in {"null", "live", "expired"} : [r EXCEPT !.lease = l] \in Row
         /\ Claimed(r) \in Row /\ [Claimed(r) EXCEPT !.lease = "live", !.due = FALSE] \in Row
         /\ Compared(r) \in Row
         /\ \A n \in Nat : Failed(r, n) \in Row
<1>r. r.id \in Nat /\ r.id + 1 \in Nat /\ NoRow \in Row
  BY DEF Row, NoRow
<1>a. \A x \in Row, n \in Nat, d \in BOOLEAN : [x EXCEPT !.status = "pending", !.id = n, !.due = d] \in Row
  BY DEF Row
<1>b. \A x \in Row, n \in Nat, d \in BOOLEAN :
        [x EXCEPT !.status = "pending", !.due = d, !.lease = "null", !.attempts = n, !.tried = 0] \in Row
  BY DEF Row
<1>c. \A n \in Nat : Failed(r, n) \in Row
  BY DEF Row, Failed
<1>d. \A d \in BOOLEAN : [r EXCEPT !.due = d] \in Row
  BY DEF Row
<1>1. Bump(r) \in Row
  BY DEF Row, Bump
<1>2. Insert(r, due) \in Row
  BY <1>r, <1>a DEF Insert
<1>3. Deleted(r) \in Row
  BY DEF Row, NoRow, Deleted
<1>4. Retried(r, due) \in Row
  BY DEF Row, Retried
<1>5. ASSUME NEW x \in Row PROVE Reopen(x, due) \in Row
  <2>1. (IF x.status = "failed" THEN 0 ELSE x.attempts) \in Nat
    BY DEF Row
  <2> QED
    BY <1>b, <2>1 DEF Reopen
<1>6. Renewed(r, due) \in Row
  BY <1>4 DEF Row, Renewed
<1>7. Recorded(r, due) \in Row
  BY <1>1, <1>2, <1>5 DEF Recorded
<1>8. [r EXCEPT !.due = due] \in Row
  BY <1>d
<1>9. \A l \in {"null", "live", "expired"} : [r EXCEPT !.lease = l] \in Row
  BY DEF Row
<1>10. Claimed(r) \in Row /\ [Claimed(r) EXCEPT !.lease = "live", !.due = FALSE] \in Row
  <2>1. Claimed(r) \in Row
    <3>1. r.attempts + 1 \in Nat
      BY DEF Row
    <3>2. \A n \in Nat : [r EXCEPT !.status = "running", !.attempts = n] \in Row
      BY DEF Row
    <3> QED
      BY <3>1, <3>2 DEF Claimed
  <2>2. \A x \in Row : [x EXCEPT !.lease = "live", !.due = FALSE] \in Row
    BY DEF Row
  <2> QED
    BY <2>1, <2>2
<1>11. Compared(r) \in Row
  BY DEF Row, Compared
<1> QED
  BY <1>1, <1>2, <1>3, <1>4, <1>5, <1>6, <1>7, <1>8, <1>9, <1>10, <1>11, <1>c

LEMMA ClaimedRow ==
  ASSUME NEW r \in Row
  PROVE  /\ Claimed(r).status = "running" /\ Claimed(r).attempts = r.attempts + 1
         /\ Claimed(r).id = r.id /\ Claimed(r).revision = r.revision
         /\ [Claimed(r) EXCEPT !.lease = "live", !.due = FALSE].lease = "live"
         /\ [Claimed(r) EXCEPT !.lease = "live", !.due = FALSE].status = "running"
         /\ [Claimed(r) EXCEPT !.lease = "live", !.due = FALSE].attempts = r.attempts + 1
         /\ [Claimed(r) EXCEPT !.lease = "live", !.due = FALSE].id = r.id
         /\ [Claimed(r) EXCEPT !.lease = "live", !.due = FALSE].revision = r.revision
BY DEF Claimed, Row

LEMMA RestTyped == AtRest \in Worker /\ AtRest.pc = "idle" /\ NoBump \in Bumped /\ NoRow \in Row
BY DEF NoRow, Row, AtRest, Worker, PCs, NoBump, Bumped

LEMMA WorkerUpdates ==
  ASSUME NEW x \in Worker
  PROVE  /\ \A pc \in PCs : [x EXCEPT !.pc = pc] \in Worker
         /\ \A n \in Nat, pc \in PCs : [x EXCEPT !.pc = pc, !.content = n] \in Worker
         /\ \A pc \in PCs, r \in Row : [x EXCEPT !.pc = pc, !.seen = r] \in Worker
         /\ \A pc \in PCs, t \in Tasks, r \in Row : [x EXCEPT !.pc = pc, !.task = t, !.seen = r] \in Worker
<1>1. \A pc \in PCs : [x EXCEPT !.pc = pc] \in Worker
  BY DEF Worker
<1>2. \A n \in Nat, pc \in PCs : [x EXCEPT !.pc = pc, !.content = n] \in Worker
  BY DEF Worker
<1>3. \A pc \in PCs, r \in Row : [x EXCEPT !.pc = pc, !.seen = r] \in Worker
  BY DEF Worker
<1>4. \A pc \in PCs, t \in Tasks, r \in Row : [x EXCEPT !.pc = pc, !.task = t, !.seen = r] \in Worker
  BY DEF Worker
<1> QED
  BY <1>1, <1>2, <1>3, <1>4

LEMMA SpentUpdates ==
  ASSUME NEW x \in Spent, NEW t \in Tasks
  PROVE  /\ [x EXCEPT !.edits[t] = @ + 1] \in Spent
         /\ \A f \in {"syncs", "grants", "crashes", "stalls"} : [x EXCEPT ![f] = @ + 1] \in Spent
<1>1. [x EXCEPT !.edits[t] = @ + 1] \in Spent
  BY DEF Spent
<1>2. \A f \in {"syncs", "grants", "crashes", "stalls"} : [x EXCEPT ![f] = @ + 1] \in Spent
  BY DEF Spent
<1> QED
  BY <1>1, <1>2

LEMMA HistUpdates ==
  ASSUME NEW h \in Hist, NEW b \in BOOLEAN
  PROVE  /\ [h EXCEPT !.away = FALSE, !.missed = FALSE] \in Hist
         /\ [h EXCEPT !.away = b] \in Hist
         /\ [h EXCEPT !.missed = b] \in Hist
         /\ [h EXCEPT !.overtaken = b] \in Hist
BY DEF Hist

\* Whoever is at work works on a task; so does a bump that waits for its reopen.
Working == worker \in [Workers -> {x \in Worker : x.pc # "idle" => x.task \in Tasks}]
Bumping == bumped # NoBump => bumped.task \in Tasks

TypeInv == TypeOK /\ Working /\ Bumping

LEMMA InitTypeInv == Init => TypeInv
<1>2. [edits |-> [t \in Tasks |-> 0], syncs |-> 0, grants |-> 0, crashes |-> 0, stalls |-> 0] \in Spent
  BY DEF Spent
<1>3. [away |-> FALSE, missed |-> FALSE, overtaken |-> FALSE] \in Hist
  BY DEF Hist
<1> QED
  BY <1>2, <1>3, RestTyped DEF Init, TypeOK, TypeInv, Working, Bumping

\* Every action keeps the types.
LEMMA NextTypeInv == TypeInv /\ [Next]_vars => TypeInv'
<1> SUFFICES ASSUME TypeInv, [Next]_vars PROVE TypeInv'
  OBVIOUS
<1> USE DEF TypeInv, TypeOK, Bumping
<1>p. Sending \subseteq PCs /\ {"idle", "found", "reopen", "sending", "sent", "broken", "requeue", "renew"} \subseteq PCs
  BY DEF PCs, Sending
<1>a. ASSUME NEW w \in Workers, worker[w].pc # "idle" PROVE worker[w].task \in Tasks
  BY <1>a DEF Working
<1>w. ASSUME NEW w \in Workers, NEW x \in Worker, x.pc # "idle" => x.task \in Tasks,
             worker' = [worker EXCEPT ![w] = x]
      PROVE  worker' \in [Workers -> Worker] /\ Working'
  BY <1>w DEF Working
<1>g. ASSUME NEW w \in Workers, NEW pc \in PCs, Goto(w, pc), worker[w].pc # "idle"
      PROVE  worker' \in [Workers -> Worker] /\ Working'
  <2>1. [worker[w] EXCEPT !.pc = pc] \in Worker /\ [worker[w] EXCEPT !.pc = pc].task = worker[w].task
    BY WorkerUpdates DEF Worker
  <2>2. worker[w].task \in Tasks
    BY <1>a, <1>g
  <2> QED
    BY <1>g, <1>w, <2>1, <2>2 DEF Goto
<1>x. ASSUME NEW w \in Workers, NEW pc \in PCs, GoOn(w, pc), worker[w].pc # "idle"
      PROVE  worker' \in [Workers -> Worker] /\ Working'
  <2>1. [worker[w] EXCEPT !.pc = pc, !.content = 0] \in Worker
        /\ [worker[w] EXCEPT !.pc = pc, !.content = 0].task = worker[w].task
    BY WorkerUpdates DEF Worker
  <2>2. worker[w].task \in Tasks
    BY <1>a, <1>x
  <2> QED
    BY <1>x, <1>w, <2>1, <2>2 DEF GoOn
<1>v. ASSUME NEW w \in Workers, Leave(w) PROVE worker' \in [Workers -> Worker] /\ Working'
  BY <1>v, <1>w, RestTyped DEF Leave
<1>u. UNCHANGED worker => Working'
  BY DEF Working
<1>r. ASSUME NEW t \in Tasks, NEW r \in Row, row' = [row EXCEPT ![t] = r] PROVE row' \in [Tasks -> Row]
  BY <1>r
<1>h. ASSUME NEW w \in Workers, worker[w].task \in Tasks, Note(w) PROVE hist' \in [Tasks -> Hist]
  <2> DEFINE b == hist[worker[w].task].overtaken \/ Overtakes(w)
             h == [hist[worker[w].task] EXCEPT !.overtaken = b]
  <2>1. b \in BOOLEAN
    OBVIOUS
  <2> HIDE DEF b
  <2>2. h \in Hist
    BY <1>h, <2>1, HistUpdates
  <2>3. hist' = [hist EXCEPT ![worker[w].task] = h]
    BY <1>h DEF Note, b
  <2> QED
    BY <2>2, <2>3
<1>d. ASSUME NEW t \in Tasks, Change(t) PROVE local' \in [Tasks -> Nat] /\ seated' \subseteq Tasks
  <2>1. spent.edits[t] + 2 \in Nat
    BY DEF Spent
  <2> QED
    BY <1>d, <2>1 DEF Change
<1>1. ASSUME NEW t \in Tasks, Edit(t) PROVE TypeInv'
  <2>1. Recorded(row[t], FALSE) \in Row
    BY RowUpdates
  <2>2. spent' \in Spent
    BY <1>1, SpentUpdates DEF Edit
  <2>3. local' \in [Tasks -> Nat] /\ seated' \subseteq Tasks
    BY <1>1, <1>d DEF Edit
  <2>4. row' \in [Tasks -> Row]
    BY <1>1, <2>1 DEF Edit
  <2>5. hist' \in [Tasks -> Hist]
    <3> DEFINE h == [hist[t] EXCEPT !.away = FALSE, !.missed = FALSE]
    <3>1. h \in Hist
      BY HistUpdates
    <3>2. hist' = [hist EXCEPT ![t] = h]
      BY <1>1 DEF Edit
    <3> QED
      BY <3>1, <3>2
  <2> QED
    BY <1>1, <1>u, <2>2, <2>3, <2>4, <2>5 DEF Edit, link
<1>2. ASSUME NEW t \in Tasks, EditWithoutGrant(t) PROVE TypeInv'
  BY <1>2, <1>u DEF EditWithoutGrant, link
<1>24. ASSUME NEW t \in Tasks, CommitWithoutGrant(t) PROVE TypeInv'
  <2>1. spent' \in Spent
    BY <1>24, SpentUpdates DEF CommitWithoutGrant
  <2>2. local' \in [Tasks -> Nat] /\ seated' \subseteq Tasks /\ unnoted' \subseteq Tasks
    BY <1>24, <1>d DEF CommitWithoutGrant
  <2>3. hist' \in [Tasks -> Hist]
    BY <1>24, HistUpdates DEF CommitWithoutGrant
  <2> QED
    BY <1>24, <1>u, <2>1, <2>2, <2>3 DEF CommitWithoutGrant, link
<1>3. ASSUME NEW t \in Tasks, DeferUser(t) PROVE TypeInv'
  <2>1. \A u \in Tasks : [row[u] EXCEPT !.due = FALSE] \in Row
    BY RowUpdates
  <2>2. row' \in [Tasks -> Row]
    BY <1>3, <2>1 DEF DeferUser
  <2> QED
    BY <1>3, <1>u, <2>2 DEF DeferUser, data
<1>4. ASSUME NEW t \in Tasks, LeaseRunsOut(t) PROVE TypeInv'
  <2>1. [row[t] EXCEPT !.lease = "expired"] \in Row
    BY RowUpdates
  <2> QED
    BY <1>4, <1>u, <2>1, SpentUpdates DEF LeaseRunsOut, Spend, data, link
<1>5. ASSUME NEW t \in Tasks, BackoffEnds(t) PROVE TypeInv'
  <2>1. [row[t] EXCEPT !.due = TRUE] \in Row
    BY RowUpdates
  <2> QED
    BY <1>5, <1>u, <2>1 DEF BackoffEnds, data, link
<1>6. ASSUME NEW t \in Tasks, NEW w \in Workers, Kick(w, t) \/ Sweep(w, t) PROVE TypeInv'
  <2>1. [AtRest EXCEPT !.pc = "found", !.task = t, !.seen = Compared(row[t])] \in Worker
    BY <1>p, RestTyped, RowUpdates, WorkerUpdates
  <2>2. [AtRest EXCEPT !.pc = "found", !.task = t, !.seen = Compared(row[t])].task = t
    BY DEF AtRest
  <2> QED
    BY <1>6, <1>w, <2>1, <2>2 DEF Kick, Sweep, data
<1>7. ASSUME NEW t \in Tasks, NEW w \in Workers, SyncTask(w, t) PROVE TypeInv'
  <2> DEFINE x == [AtRest EXCEPT !.pc = "reopen", !.task = t, !.seen = [NoRow EXCEPT !.id = row[t].id]]
  <2>0. [NoRow EXCEPT !.id = row[t].id] \in Row
    BY DEF Row, NoRow
  <2>1. x \in Worker /\ x.task = t
    BY <1>p, <2>0, RestTyped, WorkerUpdates DEF AtRest
  <2>2. Insert(row[t], FALSE) \in Row /\ Bump(row[t]) \in Row
    BY RowUpdates
  <2>3. spent' \in Spent
    BY <1>7, SpentUpdates DEF SyncTask, Spend
  <2>4. row' \in [Tasks -> Row]
    BY <1>7, <2>2 DEF SyncTask
  <2>5. UNCHANGED worker \/ worker' = [worker EXCEPT ![w] = x]
    BY <1>7 DEF SyncTask
  <2> HIDE DEF x
  <2>6. worker' \in [Workers -> Worker] /\ Working'
    BY <1>u, <1>w, <2>1, <2>5
  <2> QED
    BY <1>7, <2>3, <2>4, <2>6 DEF SyncTask, data
<1>8. ASSUME NEW w \in Workers, ReopenRow(w) PROVE TypeInv'
  <2>1. worker[w].task \in Tasks
    BY <1>8, <1>a DEF ReopenRow
  <2>2. Reopen(row[worker[w].task], FALSE) \in Row
    BY <2>1, RowUpdates
  <2>3. row' \in [Tasks -> Row]
    BY <1>8, <2>1, <2>2 DEF ReopenRow
  <2>4. worker' \in [Workers -> Worker] /\ Working'
    BY <1>8, <1>v DEF ReopenRow
  <2> QED
    BY <1>8, <2>3, <2>4 DEF ReopenRow, data, link
<1>9. ASSUME NEW w \in Workers, Claim(w) PROVE TypeInv'
  <2> DEFINE x == [worker[w] EXCEPT !.pc = "claimed", !.seen = Claimed(worker[w].seen)]
             r == [Claimed(row[worker[w].task]) EXCEPT !.lease = "live", !.due = FALSE]
  <2>1. worker[w].task \in Tasks
    BY <1>9, <1>a DEF Claim
  <2>2. r \in Row /\ x \in Worker /\ x.task = worker[w].task
    <3>1. r \in Row
      BY <2>1, RowUpdates
    <3>2. worker[w].seen \in Row /\ "claimed" \in PCs
      BY <1>p DEF Worker, Sending
    <3>3. Claimed(worker[w].seen) \in Row
      BY <3>2, RowUpdates
    <3> HIDE DEF r
    <3>4. x \in Worker
      BY <3>2, <3>3, WorkerUpdates
    <3>5. x.task = worker[w].task
      BY DEF Worker
    <3> QED
      BY <3>1, <3>4, <3>5
  <2>3. CASE AsRead(w)
    <3>1. row' = [row EXCEPT ![worker[w].task] = r] /\ worker' = [worker EXCEPT ![w] = x]
      BY <1>9, <2>3 DEF Claim
    <3> HIDE DEF x, r
    <3>2. row' \in [Tasks -> Row] /\ worker' \in [Workers -> Worker] /\ Working'
      BY <1>w, <2>1, <2>2, <3>1
    <3> QED
      BY <1>9, <3>2 DEF Claim, data, link
  <2>4. CASE ~AsRead(w)
    <3>1. worker' \in [Workers -> Worker] /\ Working' /\ row' = row
      BY <1>9, <1>v, <2>4 DEF Claim
    <3> QED
      BY <1>9, <3>1 DEF Claim, data, link
  <2> QED
    BY <2>3, <2>4
<1>10. ASSUME NEW w \in Workers, ReadTask(w) PROVE TypeInv'
  <2> DEFINE x == [worker[w] EXCEPT !.pc = "sending", !.content = local[worker[w].task]]
  <2>1. worker[w].task \in Tasks
    BY <1>10, <1>a DEF ReadTask
  <2>2. x \in Worker /\ x.task = worker[w].task
    <3>1. local[worker[w].task] \in Nat /\ "sending" \in PCs
      BY <1>p, <2>1
    <3>2. x \in Worker
      BY <3>1, WorkerUpdates
    <3>3. x.task = worker[w].task
      BY DEF Worker
    <3> QED
      BY <3>2, <3>3
  <2>3. worker' = [worker EXCEPT ![w] = x]
    BY <1>10 DEF ReadTask
  <2> HIDE DEF x
  <2>4. worker' \in [Workers -> Worker] /\ Working'
    BY <1>w, <2>1, <2>2, <2>3
  <2> QED
    BY <1>10, <2>4 DEF ReadTask, data, link
<1>11. ASSUME NEW w \in Workers, Send(w) PROVE TypeInv'
  <2>1. worker[w].task \in Tasks /\ worker[w].pc # "idle"
    BY <1>11, <1>a DEF Send
  <2>2. worker' \in [Workers -> Worker] /\ Working'
    BY <1>11, <1>g, <1>p, <2>1 DEF Send
  <2>3. google' \in [Tasks -> Nat]
    BY <1>11, <2>1 DEF Send, Worker
  <2> QED
    BY <1>11, <2>2, <2>3 DEF Send, link
<1>12. ASSUME NEW w \in Workers, DeleteSent(w) \/ Requeue(w) \/ FailWrite(w) \/ RenewWrite(w) PROVE TypeInv'
  <2>1. worker[w].task \in Tasks /\ worker[w].pc # "idle" /\ worker[w].content \in Nat
    BY <1>12, <1>a DEF DeleteSent, Requeue, FailWrite, RenewWrite, Worker
  <2>2. worker' \in [Workers -> Worker] /\ Working'
    BY <1>12, <1>p, <1>v, <1>x, <2>1 DEF DeleteSent, Requeue, FailWrite, RenewWrite
  <2>3. /\ Deleted(row[worker[w].task]) \in Row /\ Failed(row[worker[w].task], worker[w].content) \in Row
        /\ \A due \in BOOLEAN : /\ Retried(row[worker[w].task], due) \in Row
                               /\ Renewed(row[worker[w].task], due) \in Row
    BY <2>1, RowUpdates
  <2>4. row' \in [Tasks -> Row]
    BY <1>12, <2>1, <2>3 DEF DeleteSent, Requeue, FailWrite, RenewWrite
  <2>5. hist' \in [Tasks -> Hist]
    BY <1>12, <1>h, <2>1 DEF DeleteSent, Requeue, FailWrite, RenewWrite
  <2> QED
    BY <1>12, <2>2, <2>4, <2>5 DEF DeleteSent, Requeue, FailWrite, RenewWrite, data, link
<1>14. ASSUME NEW w \in Workers, Heartbeat(w) PROVE TypeInv'
  <2>1. worker[w].task \in Tasks
    BY <1>14, <1>a DEF Heartbeat, Sending
  <2>2. [row[worker[w].task] EXCEPT !.lease = "live"] \in Row
    BY <2>1, RowUpdates
  <2>3. row' \in [Tasks -> Row]
    BY <1>14, <2>1, <2>2 DEF Heartbeat
  <2> QED
    BY <1>14, <1>u, <2>3 DEF Heartbeat, data, link
<1>15. ASSUME Disconnect \/ Revoke \/ Connect PROVE TypeInv'
  <2>1. spent' \in Spent
    <3>1. [spent EXCEPT !.grants = @ + 1] \in Spent
      BY DEF Spent
    <3> QED
      BY <1>15, <3>1 DEF Disconnect, Revoke, Connect, Spend
  <2>2. grant' \in {"linked", "revoked", "none"} /\ listener' \in {"rest", "find", "reconcile", "revive"}
    BY <1>15 DEF Disconnect, Revoke, Connect
  <2>3. todo' \subseteq Tasks
    BY <1>15 DEF Disconnect, Revoke, Connect
  <2>4. UNCHANGED <<row, seated, local, google, unnoted, bumped, worker, hist>>
    BY <1>15 DEF Disconnect, Revoke, Connect, data
  <2>5. row' = row /\ seated' = seated /\ local' = local /\ google' = google /\ unnoted' = unnoted /\ bumped' = bumped
        /\ worker' = worker /\ hist' = hist
    BY <2>4
  <2>6. Working' /\ Bumping'
    BY <1>u, <2>5
  <2>7. TypeOK'
    BY <2>1, <2>2, <2>3, <2>5
  <2> QED
    BY <2>6, <2>7
<1>16. ASSUME NEW t \in Tasks, ReconcileTask(t) PROVE TypeInv'
  <2>1. Insert(row[t], TRUE) \in Row /\ Bump(row[t]) \in Row /\ row[t].id \in Nat
    <3>1. row[t] \in Row
      OBVIOUS
    <3>2. \A r \in Row : r.id \in Nat
      BY DEF Row
    <3> QED
      BY <3>1, <3>2, RowUpdates
  <2>2. [task |-> t, id |-> row[t].id] \in Bumped /\ [task |-> t, id |-> row[t].id].task \in Tasks
    BY <2>1 DEF Bumped
  <2>3. row' \in [Tasks -> Row]
    BY <1>16, <2>1 DEF ReconcileTask
  <2>4. bumped' \in Bumped /\ Bumping'
    BY <1>16, <2>2 DEF ReconcileTask
  <2>5. hist' \in [Tasks -> Hist]
    BY <1>16, HistUpdates DEF ReconcileTask
  <2> QED
    BY <1>16, <1>u, <2>3, <2>4, <2>5 DEF ReconcileTask, data
<1>23. ASSUME ReconcileFind PROVE TypeInv'
  <2>1. PICK past \in SUBSET seated :
           /\ todo' = todo \cup Listed(past)
           /\ hist' = [t \in Tasks |->
                          [hist[t] EXCEPT !.missed = \/ @
                                                     \/ /\ hist[t].away /\ Unsent(t)
                                                        /\ t \in past \/ (t \notin seated /\ google[t] = 0)]]
    BY <1>23 DEF ReconcileFind
  <2>2. todo' \subseteq Tasks
    BY <2>1 DEF Listed
  <2>3. \A t \in Tasks, b \in BOOLEAN : [hist[t] EXCEPT !.missed = b] \in Hist
    BY HistUpdates
  <2>4. ASSUME NEW t \in Tasks
        PROVE  (\/ hist[t].missed
                \/ /\ hist[t].away /\ Unsent(t)
                   /\ t \in past \/ (t \notin seated /\ google[t] = 0)) \in BOOLEAN
    OBVIOUS
  <2>5. hist' \in [Tasks -> Hist]
    BY <2>1, <2>3, <2>4
  <2> QED
    BY <1>23, <1>u, <2>2, <2>5 DEF ReconcileFind, data
<1>17. ASSUME ReconcileReopen PROVE TypeInv'
  <2>1. bumped.task \in Tasks
    BY <1>17 DEF ReconcileReopen
  <2>2. Reopen(row[bumped.task], TRUE) \in Row
    BY <2>1, RowUpdates
  <2>3. row' \in [Tasks -> Row]
    BY <1>17, <2>1, <2>2 DEF ReconcileReopen
  <2> QED
    BY <1>17, <1>u, <2>3, RestTyped DEF ReconcileReopen, data
<1>18. ASSUME ReconcileDone \/ ReviveForUser PROVE TypeInv'
  <2>1. \A t \in Tasks : Renewed(row[t], TRUE) \in Row
    BY RowUpdates
  <2>2. row' \in [Tasks -> Row]
    BY <1>18, <2>1 DEF ReconcileDone, ReviveForUser
  <2> QED
    BY <1>18, <1>u, <2>2 DEF ReconcileDone, ReviveForUser, data
<1>19. ASSUME NEW w \in Workers, Crash(w) PROVE TypeInv'
  <2>1. spent' \in Spent
    BY <1>19 DEF Crash, Spend, Spent
  <2> QED
    BY <1>19, <1>v, <2>1 DEF Crash, data, link
<1>20. ASSUME CrashListener PROVE TypeInv'
  <2>1. spent' \in Spent
    BY <1>20 DEF CrashListener, Spend, Spent
  <2>2. ASSUME NEW t \in Tasks
        PROVE  [hist[t] EXCEPT !.missed = \/ @
                                          \/ /\ hist[t].away \/ t = bumped.task
                                             /\ Unsent(t) \/ FailedBefore(t)] \in Hist
    <3>1. (\/ hist[t].missed
           \/ /\ hist[t].away \/ t = bumped.task
              /\ Unsent(t) \/ FailedBefore(t)) \in BOOLEAN
      OBVIOUS
    <3>2. \A b \in BOOLEAN : [hist[t] EXCEPT !.missed = b] \in Hist
      BY HistUpdates
    <3> QED
      BY <3>1, <3>2
  <2>3. hist' \in [Tasks -> Hist]
    BY <1>20, <2>2 DEF CrashListener
  <2> QED
    BY <1>20, <1>u, <2>1, <2>3, RestTyped DEF CrashListener, data
<1>21. CASE UNCHANGED vars
  BY <1>21, <1>u DEF vars
<1> QED
  BY <1>1, <1>2, <1>3, <1>4, <1>5, <1>6, <1>7, <1>8, <1>9, <1>10, <1>11, <1>12, <1>14, <1>15,
     <1>16, <1>17, <1>18, <1>19, <1>20, <1>21, <1>23, <1>24
     DEF Next, WorkerStep, ListenerStep

\* Types of rows, workers, grant and listener.
THEOREM TypeCorrect == Spec => []TypeOK
<1>1. Init /\ [][Next]_vars => []TypeInv
  BY InitTypeInv, NextTypeInv, PTL
<1>2. TypeInv => TypeOK
  BY DEF TypeInv
<1> QED
  BY <1>1, <1>2, PTL DEF Spec

-----------------------------------------------------------------------------

\* A worker between its claim and its outcome.
Sends(w) == worker[w].pc \in Sending

\* Whoever sends holds the row: it is as claimed, its lease lives, and no
\* revision is older than the one that was read.
Fenced ==
    \A w \in Workers :
        Sends(w) => /\ Owned(w)
                    /\ row[worker[w].task].lease = "live"
                    /\ worker[w].seen.revision <= row[worker[w].task].revision

\* A task has one sender.
Alone == \A v, w \in Workers : Sends(v) /\ Sends(w) /\ worker[v].task = worker[w].task => v = w

FenceInv == TypeInv /\ Fenced /\ Alone /\ FenceHolds

\* The listener holds work only while it finds or records tasks, and a change that
\* found no grant commits before there is one.
Resting == listener \notin {"find", "reconcile"} => todo = {} /\ bumped = NoBump
Unnoted == unnoted # {} => ~HasTokens

\* What is owed to Google is known: a row is there, or waits with its sender, for
\* every content Google lacks, and a failure of an older content is about to be
\* reopened by the listener.
KnownFailed(t) ==
    FailedBefore(t) =>
        /\ listener # "rest"
        /\ hist[t].away \/ (bumped.task = t /\ bumped.id = row[t].id)
Known(t) == ~Unsent(t) /\ KnownFailed(t)

\* Nothing is known of a task that was changed while the account was away, until
\* the reconcile of the reconnect reaches it, or if it left the task as it was.
Excused(t) ==
    \/ hist[t].missed
    \/ hist[t].away /\ (~HasTokens \/ listener = "find" \/ t \in todo)
Tracked == \A t \in Tasks : Excused(t) \/ Known(t)

TrackInv == FenceInv /\ Resting /\ Unnoted /\ Tracked

-----------------------------------------------------------------------------

\* What a row update leaves to the worker that sends the row.
KeepsClaim(r, q) ==
    /\ q.status = r.status /\ q.id = r.id /\ q.attempts = r.attempts
    /\ q.lease = r.lease /\ r.revision <= q.revision

\* In a step, w sends only if it did before, the same claim of the same row.
SendsOn(w) ==
    worker'[w].pc \in Sending =>
        /\ Sends(w)
        /\ worker'[w].task = worker[w].task /\ worker'[w].seen = worker[w].seen

\* Changes that record an edit, wake, defer or revive a row leave a running row
\* to its sender.
LEMMA RunningRowsKept ==
  ASSUME NEW r \in Row, r.status = "running", NEW due \in BOOLEAN
  PROVE  /\ KeepsClaim(r, r) /\ KeepsClaim(r, Bump(r))
         /\ KeepsClaim(r, Reopen(r, due)) /\ KeepsClaim(r, Recorded(r, due))
BY DEF KeepsClaim, Bump, Reopen, Recorded, Row

\* Such a step keeps the fence.
LEMMA FenceKept ==
  ASSUME TypeInv, TypeInv', Fenced, Alone,
         \A w \in Workers : SendsOn(w),
         \A w \in Workers : worker'[w].pc \in Sending =>
             KeepsClaim(row[worker[w].task], row'[worker[w].task])
  PROVE  Fenced' /\ Alone'
<1>1. ASSUME NEW w \in Workers, worker'[w].pc \in Sending
      PROVE  /\ Owned(w)' /\ row'[worker'[w].task].lease = "live"
             /\ worker'[w].seen.revision <= row'[worker'[w].task].revision
  <2>1. Sends(w) /\ worker'[w].task = worker[w].task /\ worker'[w].seen = worker[w].seen
    BY <1>1 DEF SendsOn
  <2>2. worker[w].task \in Tasks
    BY <2>1 DEF TypeInv, Working, Sends, Sending
  <2>3. worker[w].seen \in Row
    BY DEF TypeInv, TypeOK, Worker
  <2>4. row[worker[w].task] \in Row /\ row'[worker[w].task] \in Row
    BY <2>2 DEF TypeInv, TypeOK
  <2>5. KeepsClaim(row[worker[w].task], row'[worker[w].task])
    BY <1>1
  <2>6. /\ Owned(w) /\ row[worker[w].task].lease = "live"
        /\ worker[w].seen.revision <= row[worker[w].task].revision
    BY <2>1 DEF Fenced
  <2>7. Owned(w)' /\ row'[worker'[w].task].lease = "live"
    BY <2>1, <2>5, <2>6 DEF Owned, KeepsClaim
  <2>8. worker'[w].seen.revision <= row'[worker'[w].task].revision
    <3>1. /\ worker[w].seen.revision \in Nat
          /\ row[worker[w].task].revision \in Nat /\ row'[worker[w].task].revision \in Nat
      BY <2>3, <2>4 DEF Row
    <3> QED
      BY <2>1, <2>5, <2>6, <3>1 DEF KeepsClaim
  <2> QED
    BY <2>7, <2>8
<1>2. Alone'
  BY DEF Alone, Sends, SendsOn
<1> QED
  BY <1>1, <1>2 DEF Fenced, Sends

LEMMA InitFence == Init => FenceInv
BY InitTypeInv DEF Init, FenceInv, Fenced, Alone, FenceHolds, Sends, Sending, AtRest

\* No step breaks the fence while no living worker loses its lease and no sweep
\* claims over a live lease.
LEMMA NextFence ==
  ASSUME MaxStalls = 0, SlowSweep = FALSE
  PROVE  FenceInv /\ [Next]_vars => FenceInv'
<1> SUFFICES ASSUME FenceInv, [Next]_vars PROVE FenceInv'
  OBVIOUS
<1>t. TypeInv /\ TypeInv'
  BY NextTypeInv DEF FenceInv
<1>f. Fenced /\ Alone /\ FenceHolds
  BY DEF FenceInv
<1>k. ASSUME NEW w \in Workers, Sends(w)
      PROVE  /\ worker[w].task \in Tasks /\ row[worker[w].task] \in Row
             /\ row[worker[w].task].status = "running" /\ row[worker[w].task].lease = "live"
             /\ HasLiveOwner(worker[w].task)
  <2>1. worker[w].task \in Tasks
    BY <1>k, <1>t DEF TypeInv, Working, Sends, Sending
  <2>2. row[worker[w].task] \in Row
    BY <1>t, <2>1 DEF TypeInv, TypeOK
  <2>3. Owned(w) /\ row[worker[w].task].lease = "live"
    BY <1>f, <1>k DEF Fenced
  <2> QED
    BY <1>k, <2>1, <2>2, <2>3 DEF Owned, HasLiveOwner, Sends
<1>s. \A w \in Workers : UNCHANGED worker => SendsOn(w)
  BY DEF SendsOn, Sends
<1>n. Sending \cap {"idle", "found", "reopen"} = {}
  BY DEF Sending
<1>w. ASSUME NEW w \in Workers, NEW x, worker' = [worker EXCEPT ![w] = x], x.pc \notin Sending
      PROVE  \A v \in Workers : SendsOn(v) /\ (worker'[v].pc \in Sending => v # w)
  BY <1>t, <1>w DEF SendsOn, Sends, TypeInv, TypeOK
<1>l. ASSUME NEW w \in Workers, Leave(w)
      PROVE  \A v \in Workers : SendsOn(v) /\ (worker'[v].pc \in Sending => v # w)
  <2>1. AtRest.pc \notin Sending
    BY <1>n DEF AtRest
  <2> QED
    BY <1>l, <1>w, <2>1 DEF Leave
<1>g. ASSUME NEW w \in Workers, NEW pc \in Sending, Goto(w, pc) \/ GoOn(w, pc), Sends(w)
      PROVE  \A v \in Workers : SendsOn(v)
  BY <1>t, <1>g DEF Goto, GoOn, SendsOn, Sends, TypeInv, TypeOK, Worker
<1>u. hist' = hist => FenceHolds'
  BY <1>f DEF FenceHolds
\* Steps that change a row that runs no further than its revision.
<1>q. ASSUME \A w \in Workers : SendsOn(w), FenceHolds',
             \A t \in Tasks : row[t].status = "running" =>
                 row'[t] = row[t] \/ row'[t] = Bump(row[t])
                   \/ (\E due \in BOOLEAN : row'[t] = Recorded(row[t], due) \/ row'[t] = Reopen(row[t], due))
      PROVE  FenceInv'
  <2>1. ASSUME NEW w \in Workers, worker'[w].pc \in Sending
        PROVE  KeepsClaim(row[worker[w].task], row'[worker[w].task])
    <3>1. Sends(w)
      BY <1>q, <2>1 DEF SendsOn
    <3>2. /\ worker[w].task \in Tasks /\ row[worker[w].task] \in Row
          /\ row[worker[w].task].status = "running"
      BY <1>k, <3>1
    <3>3. \/ row'[worker[w].task] = row[worker[w].task]
          \/ row'[worker[w].task] = Bump(row[worker[w].task])
          \/ \E due \in BOOLEAN : \/ row'[worker[w].task] = Recorded(row[worker[w].task], due)
                                 \/ row'[worker[w].task] = Reopen(row[worker[w].task], due)
      BY <1>q, <3>2
    <3>4. KeepsClaim(row[worker[w].task], row[worker[w].task])
          /\ KeepsClaim(row[worker[w].task], Bump(row[worker[w].task]))
          /\ \A due \in BOOLEAN :
                 /\ KeepsClaim(row[worker[w].task], Recorded(row[worker[w].task], due))
                 /\ KeepsClaim(row[worker[w].task], Reopen(row[worker[w].task], due))
      BY <3>2, RunningRowsKept
    <3> QED
      BY <3>3, <3>4
  <2>2. Fenced' /\ Alone'
    BY <1>f, <1>q, <1>t, <2>1, FenceKept
  <2> QED
    BY <1>q, <1>t, <2>2 DEF FenceInv
\* Steps of the task of w, which leaves: nobody else sends that task.
<1>o. ASSUME NEW w \in Workers, Sends(w), Leave(w), NEW r, row' = [row EXCEPT ![worker[w].task] = r],
             FenceHolds'
      PROVE  FenceInv'
  <2>1. \A v \in Workers : SendsOn(v) /\ (worker'[v].pc \in Sending => v # w)
    BY <1>l, <1>o
  <2>2. ASSUME NEW v \in Workers, worker'[v].pc \in Sending
        PROVE  KeepsClaim(row[worker[v].task], row'[worker[v].task])
    <3>1. Sends(v) /\ v # w
      BY <2>1, <2>2 DEF SendsOn
    <3>2. worker[v].task # worker[w].task
      BY <1>f, <1>o, <3>1 DEF Alone
    <3>3. row'[worker[v].task] = row[worker[v].task]
      BY <1>k, <1>o, <1>t, <3>1, <3>2 DEF TypeInv, TypeOK
    <3> QED
      BY <1>k, <3>1, <3>3, RunningRowsKept
  <2>3. Fenced' /\ Alone'
    BY <1>f, <1>t, <2>1, <2>2, FenceKept
  <2> QED
    BY <1>o, <1>t, <2>3 DEF FenceInv
<1>h. ASSUME NEW w \in Workers, Sends(w), Note(w) PROVE FenceHolds'
  <2>1. ~Overtakes(w)
    BY <1>f, <1>h DEF Overtakes, Alone, Sends
  <2>2. \A t \in Tasks : hist[t] \in Hist /\ ~hist[t].overtaken
    BY <1>f, <1>t DEF TypeInv, TypeOK, FenceHolds
  <2>3. worker[w].task \in Tasks
    BY <1>h, <1>k
  <2> QED
    BY <1>h, <1>t, <2>1, <2>2, <2>3 DEF Note, FenceHolds, TypeInv, TypeOK, Hist
<1>j. ASSUME \A t \in Tasks : hist'[t].overtaken = hist[t].overtaken PROVE FenceHolds'
  BY <1>f, <1>j DEF FenceHolds
<1>1. ASSUME NEW t \in Tasks, Edit(t) PROVE FenceInv'
  <2>1. FenceHolds'
    BY <1>1, <1>j, <1>t DEF Edit, TypeInv, TypeOK, Hist
  <2>2. \A u \in Tasks : row'[u] = row[u] \/ row'[u] = Recorded(row[u], FALSE)
    BY <1>1, <1>t DEF Edit, TypeInv, TypeOK
  <2> QED
    BY <1>1, <1>q, <1>s, <2>1, <2>2 DEF Edit
<1>2. ASSUME NEW t \in Tasks, EditWithoutGrant(t) \/ CommitWithoutGrant(t) PROVE FenceInv'
  <2>1. FenceHolds'
    BY <1>2, <1>j, <1>t DEF EditWithoutGrant, CommitWithoutGrant, TypeInv, TypeOK, Hist
  <2> QED
    BY <1>2, <1>q, <1>s, <2>1 DEF EditWithoutGrant, CommitWithoutGrant
<1>3. ASSUME NEW t \in Tasks, DeferUser(t) PROVE FenceInv'
  BY <1>3, <1>q, <1>s, <1>u DEF DeferUser
<1>4. ASSUME NEW t \in Tasks, LeaseRunsOut(t) PROVE FenceInv'
  <2>1. ~HasLiveOwner(t)
    BY <1>4, <1>t DEF LeaseRunsOut, Spend, TypeInv, TypeOK, Spent
  <2>2. ASSUME NEW w \in Workers, worker'[w].pc \in Sending
        PROVE  KeepsClaim(row[worker[w].task], row'[worker[w].task])
    <3>1. Sends(w)
      BY <1>4, <2>2 DEF LeaseRunsOut, Sends
    <3>2. worker[w].task # t
      BY <1>k, <2>1, <3>1
    <3>3. row'[worker[w].task] = row[worker[w].task]
      BY <1>4, <1>k, <1>t, <3>1, <3>2 DEF LeaseRunsOut, TypeInv, TypeOK
    <3> QED
      BY <1>k, <3>1, <3>3, RunningRowsKept
  <2>3. \A w \in Workers : SendsOn(w)
    BY <1>4, <1>s DEF LeaseRunsOut
  <2>4. Fenced' /\ Alone'
    BY <1>f, <1>t, <2>2, <2>3, FenceKept
  <2> QED
    BY <1>4, <1>t, <1>u, <2>4 DEF FenceInv, LeaseRunsOut
<1>5. ASSUME NEW t \in Tasks, BackoffEnds(t) PROVE FenceInv'
  BY <1>5, <1>q, <1>s, <1>t, <1>u DEF BackoffEnds, TypeInv, TypeOK
<1>6. ASSUME NEW t \in Tasks, NEW w \in Workers, Kick(w, t) \/ Sweep(w, t) PROVE FenceInv'
  <2>1. [AtRest EXCEPT !.pc = "found", !.task = t, !.seen = Compared(row[t])].pc \notin Sending
    BY <1>n DEF AtRest
  <2>2. \A v \in Workers : SendsOn(v)
    BY <1>6, <1>w, <2>1 DEF Kick, Sweep
  <2> QED
    BY <1>6, <1>q, <1>u, <2>2 DEF Kick, Sweep
<1>7. ASSUME NEW t \in Tasks, NEW w \in Workers, SyncTask(w, t) PROVE FenceInv'
  <2>1. [AtRest EXCEPT !.pc = "reopen", !.task = t, !.seen = [NoRow EXCEPT !.id = row[t].id]].pc \notin Sending
    BY <1>n DEF AtRest
  <2>2. \A v \in Workers : SendsOn(v)
    BY <1>7, <1>s, <1>w, <2>1 DEF SyncTask
  <2>3. \A u \in Tasks : row[u].status = "running" => row'[u] = row[u] \/ row'[u] = Bump(row[u])
    BY <1>7, <1>t DEF SyncTask, TypeInv, TypeOK
  <2> QED
    BY <1>7, <1>q, <1>u, <2>2, <2>3 DEF SyncTask
<1>8. ASSUME NEW w \in Workers, ReopenRow(w) PROVE FenceInv'
  <2>1. \A v \in Workers : SendsOn(v)
    BY <1>8, <1>l DEF ReopenRow
  <2>2. \A u \in Tasks : row'[u] = row[u] \/ row'[u] = Reopen(row[u], FALSE)
    BY <1>8, <1>t DEF ReopenRow, TypeInv, TypeOK
  <2> QED
    BY <1>8, <1>q, <1>u, <2>1, <2>2 DEF ReopenRow
<1>9. ASSUME NEW w \in Workers, Claim(w) PROVE FenceInv'
  <2> DEFINE t == worker[w].task
  <2>1. CASE ~AsRead(w)
    BY <1>9, <1>l, <1>q, <1>u, <2>1 DEF Claim
  <2>2. CASE AsRead(w)
    <3>1. t \in Tasks /\ row[t] \in Row /\ row[t].lease # "live"
      BY <1>9, <1>t, <2>2 DEF Claim, AsRead, TypeInv, TypeOK, Working
    <3>2. \A v \in Workers : Sends(v) => worker[v].task # t
      BY <1>k, <3>1
    <3>3. \A v \in Workers : v # w => worker'[v] = worker[v]
      BY <1>9, <1>t, <2>2 DEF Claim, TypeInv, TypeOK
    <3>4. \A u \in Tasks : u # t => row'[u] = row[u]
      BY <1>9, <1>t, <2>2 DEF Claim, TypeInv, TypeOK
    <3>5. worker[w] \in Worker
      BY <1>t DEF TypeInv, TypeOK
    <3>6. /\ worker'[w].task = t /\ worker'[w].seen.id = worker[w].seen.id
          /\ worker'[w].seen.attempts = worker[w].seen.attempts + 1
          /\ worker'[w].seen.revision = worker[w].seen.revision
      <4>1. worker'[w] = [worker[w] EXCEPT !.pc = "claimed", !.seen = Claimed(worker[w].seen)]
        BY <1>9, <1>t, <2>2 DEF Claim, TypeInv, TypeOK
      <4>2. worker[w].seen \in Row
        BY <3>5 DEF Worker
      <4>3. worker'[w].task = t /\ worker'[w].seen = Claimed(worker[w].seen)
        BY <3>5, <4>1 DEF Worker
      <4> QED
        BY <4>2, <4>3, ClaimedRow
    <3>7. /\ row'[t].status = "running" /\ row'[t].lease = "live" /\ row'[t].id = row[t].id
          /\ row'[t].attempts = row[t].attempts + 1 /\ row'[t].revision = row[t].revision
      <4>1. row'[t] = [Claimed(row[t]) EXCEPT !.lease = "live", !.due = FALSE]
        BY <1>9, <1>t, <2>2, <3>1 DEF Claim, TypeInv, TypeOK
      <4> QED
        BY <3>1, <4>1, ClaimedRow
    <3>8. /\ row[t].id = worker[w].seen.id /\ row[t].attempts = worker[w].seen.attempts
          /\ row[t].revision = worker[w].seen.revision /\ row[t].revision \in Nat
      BY <2>2, <3>1 DEF AsRead, Row
    <3>9. ASSUME NEW v \in Workers, worker'[v].pc \in Sending
          PROVE  /\ Owned(v)' /\ row'[worker'[v].task].lease = "live"
                 /\ worker'[v].seen.revision <= row'[worker'[v].task].revision
                 /\ (v # w => worker'[v].task # t)
      <4>1. CASE v = w
        BY <3>6, <3>7, <3>8, <4>1 DEF Owned
      <4>2. CASE v # w
        <5>1. worker'[v] = worker[v] /\ Sends(v)
          BY <3>3, <3>9, <4>2 DEF Sends
        <5>2. worker[v].task # t /\ worker[v].task \in Tasks
          BY <1>k, <3>2, <5>1
        <5>3. row'[worker[v].task] = row[worker[v].task]
          BY <3>4, <5>2
        <5> QED
          BY <1>f, <5>1, <5>2, <5>3 DEF Fenced, Owned
      <4> QED
        BY <4>1, <4>2
    <3>10. Fenced'
      BY <3>9 DEF Fenced, Sends
    <3>11. Alone'
      BY <1>f, <3>3, <3>6, <3>9 DEF Alone, Sends
    <3> QED
      BY <1>9, <1>t, <1>u, <3>10, <3>11 DEF FenceInv, Claim
  <2> QED
    BY <2>1, <2>2
<1>10. ASSUME NEW w \in Workers, ReadTask(w) PROVE FenceInv'
  <2>1. \A v \in Workers : SendsOn(v)
    BY <1>10, <1>t DEF ReadTask, SendsOn, Sends, Sending, TypeInv, TypeOK, Worker
  <2> QED
    BY <1>10, <1>q, <1>u, <2>1 DEF ReadTask
<1>11. ASSUME NEW w \in Workers, Send(w) PROVE FenceInv'
  <2>1. Sends(w) /\ {"sent", "broken"} \subseteq Sending
    BY <1>11 DEF Send, Sends, Sending
  <2>2. \A v \in Workers : SendsOn(v)
    BY <1>11, <1>g, <2>1 DEF Send
  <2> QED
    BY <1>11, <1>q, <1>u, <2>2 DEF Send
<1>12. ASSUME NEW w \in Workers, DeleteSent(w) \/ Requeue(w) \/ RenewWrite(w) \/ FailWrite(w) PROVE FenceInv'
  <2>1. Sends(w) /\ {"requeue", "renew"} \subseteq Sending
    BY <1>12 DEF DeleteSent, Requeue, RenewWrite, FailWrite, Sends, Sending
  <2>2. Owned(w)
    BY <1>f, <2>1 DEF Fenced
  <2>3. CASE UNCHANGED <<row, hist>> /\ (GoOn(w, "requeue") \/ GoOn(w, "renew"))
    BY <1>g, <1>q, <1>u, <2>1, <2>3
  <2>4. CASE Leave(w) /\ Note(w) /\ \E r : row' = [row EXCEPT ![worker[w].task] = r]
    BY <1>h, <1>o, <2>1, <2>4
  <2> QED
    BY <1>12, <2>2, <2>3, <2>4 DEF DeleteSent, Requeue, RenewWrite, FailWrite
<1>13. ASSUME NEW w \in Workers, Heartbeat(w) PROVE FenceInv'
  <2>1. Sends(w)
    BY <1>13 DEF Heartbeat, Sends
  <2>2. row[worker[w].task].lease = "live" /\ worker[w].task \in Tasks /\ row[worker[w].task] \in Row
    BY <1>k, <2>1
  <2>3. [row[worker[w].task] EXCEPT !.lease = "live"] = row[worker[w].task]
    BY <2>2 DEF Row
  <2>4. row' = row
    BY <1>13, <1>t, <2>2, <2>3 DEF Heartbeat, TypeInv, TypeOK
  <2> QED
    BY <1>13, <1>q, <1>s, <1>u, <2>4 DEF Heartbeat, link
<1>14. ASSUME Disconnect \/ Revoke \/ Connect \/ ReconcileDone PROVE FenceInv'
  BY <1>14, <1>q, <1>s, <1>u DEF Disconnect, Revoke, Connect, ReconcileDone
<1>15. ASSUME NEW t \in Tasks, ReconcileTask(t) PROVE FenceInv'
  <2>1. \A u \in Tasks : row[u].status = "running" => row'[u] = row[u] \/ row'[u] = Bump(row[u])
    BY <1>15, <1>t DEF ReconcileTask, TypeInv, TypeOK
  <2>2. FenceHolds'
    BY <1>15, <1>j, <1>t DEF ReconcileTask, TypeInv, TypeOK, Hist
  <2> QED
    BY <1>15, <1>q, <1>s, <2>1, <2>2 DEF ReconcileTask
<1>21. ASSUME ReconcileFind PROVE FenceInv'
  <2>1. FenceHolds'
    BY <1>21, <1>j, <1>t DEF ReconcileFind, TypeInv, TypeOK, Hist
  <2> QED
    BY <1>21, <1>q, <1>s, <2>1 DEF ReconcileFind
<1>16. ASSUME ReconcileReopen PROVE FenceInv'
  <2>1. \A u \in Tasks : row'[u] = row[u] \/ row'[u] = Reopen(row[u], TRUE)
    BY <1>16, <1>t DEF ReconcileReopen, TypeInv, TypeOK
  <2> QED
    BY <1>16, <1>q, <1>s, <1>u, <2>1 DEF ReconcileReopen
<1>17. ASSUME ReviveForUser PROVE FenceInv'
  BY <1>17, <1>q, <1>s, <1>u DEF ReviveForUser
<1>18. ASSUME NEW w \in Workers, Crash(w) PROVE FenceInv'
  BY <1>18, <1>l, <1>q, <1>u DEF Crash
<1>19. ASSUME CrashListener PROVE FenceInv'
  <2>1. FenceHolds'
    BY <1>19, <1>f, <1>t DEF CrashListener, FenceHolds, TypeInv, TypeOK, Hist
  <2> QED
    BY <1>19, <1>q, <1>s, <2>1 DEF CrashListener
<1>20. CASE UNCHANGED vars
  BY <1>20, <1>q, <1>s, <1>u DEF vars
<1> QED
  BY <1>1, <1>2, <1>3, <1>4, <1>5, <1>6, <1>7, <1>8, <1>9, <1>10, <1>11, <1>12, <1>13, <1>14, <1>15,
     <1>16, <1>17, <1>18, <1>19, <1>20, <1>21
     DEF Next, WorkerStep, ListenerStep

\* Of the workers that send a row, one holds any claim of it, and no outcome is
\* written over a newer claim: while living workers keep their leases.
THEOREM OneSender ==
  ASSUME MaxStalls = 0, SlowSweep = FALSE
  PROVE  Spec => [](OneSenderPerClaim /\ FenceHolds)
<1>1. Init /\ [][Next]_vars => []FenceInv
  BY InitFence, NextFence, PTL
<1>2. FenceInv => OneSenderPerClaim /\ FenceHolds
  BY DEF FenceInv, Alone, Sends, OneSenderPerClaim
<1> QED
  BY <1>1, <1>2, PTL DEF Spec

-----------------------------------------------------------------------------

\* A row is noted again: its revision goes on; a bump leaves status and id.
NotedAgain(r, q) == q.revision = r.revision + 1
Bumps(r, q) == NotedAgain(r, q) /\ q.status = r.status /\ q.id = r.id

LEMMA BumpNotes ==
  ASSUME NEW r \in Row
  PROVE  Bumps(r, Bump(r))
BY DEF Bump, Row, Bumps, NotedAgain

LEMMA InsertWaits ==
  ASSUME NEW r, NEW due
  PROVE  Insert(r, due).status = "pending"
BY DEF Insert, NoRow

LEMMA RecordedWaits ==
  ASSUME NEW r \in Row, NEW due
  PROVE  /\ Recorded(r, due).status \in {"pending", "running"}
         /\ r.status = "none" \/ NotedAgain(r, Recorded(r, due))
<1>1. CASE r.status = "none"
  BY <1>1, InsertWaits DEF Recorded
<1>2. CASE r.status # "none"
  <2>1. Bump(r) \in Row /\ Bump(r).status = r.status /\ NotedAgain(r, Bump(r))
    BY DEF Bump, Row, NotedAgain
  <2>2. ASSUME NEW x \in Row, x.status # "none"
        PROVE  Reopen(x, due).status \in {"pending", "running"} /\ Reopen(x, due).revision = x.revision
    BY <2>2 DEF Reopen, Row
  <2> QED
    BY <1>2, <2>1, <2>2 DEF Recorded, NotedAgain
<1> QED
  BY <1>1, <1>2

\* In a step, a sender of the row as read is on its way out, has read nothing
\* yet, or was that before.
SentAlike(t) ==
    \A w \in Workers :
        worker'[w].pc \in Sending /\ worker'[w].task = t /\ row'[t].revision = worker'[w].seen.revision =>
            \/ worker'[w].pc \in {"claimed", "requeue", "renew"}
            \/ worker'[w] = worker[w] /\ row[t].revision = worker[w].seen.revision

\* A step that changes no content, loses no row and fails none keeps what is
\* known of a task.
LEMMA KnownKept ==
  ASSUME NEW t \in Tasks, Known(t),
         google'[t] = google[t], local'[t] = local[t],
         row'[t].status = "none" => row[t].status = "none",
         row'[t].status = "failed" =>
             /\ row[t].status = "failed" /\ row'[t].id = row[t].id /\ row'[t].tried = row[t].tried
             /\ (bumped.task = t /\ bumped.id = row[t].id) => bumped' = bumped,
         hist[t].away => hist'[t].away,
         listener # "rest" => listener' # "rest",
         SentAlike(t)
  PROVE  Known(t)'
<1>1. KnownFailed(t)'
  BY DEF Known, KnownFailed, FailedBefore
<1>2. ~Unsent(t)'
  BY DEF Known, Unsent, SentAlike, Behind, SameRevision, Sending
<1> QED
  BY <1>1, <1>2 DEF Known

LEMMA InitTrack == Init => TrackInv
<1> SUFFICES ASSUME Init PROVE TrackInv
  OBVIOUS
<1>1. ASSUME NEW t \in Tasks PROVE Known(t)
  <2>1. google[t] = local[t] /\ row[t].status = "none"
    BY DEF Init, NoRow
  <2>2. \A w \in Workers : ~Behind(w)
    BY DEF Init, AtRest, Behind
  <2> QED
    BY <2>1, <2>2 DEF Known, KnownFailed, Unsent, FailedBefore
<1> QED
  BY <1>1, InitFence DEF Init, TrackInv, Resting, Unnoted, Tracked

\* No step loses track of what is owed to Google.
LEMMA NextTrack ==
  ASSUME MaxStalls = 0, SlowSweep = FALSE, SlowCommit = FALSE
  PROVE  TrackInv /\ [Next]_vars => TrackInv'
<1> SUFFICES ASSUME TrackInv, [Next]_vars PROVE TrackInv'
  OBVIOUS
<1>f. FenceInv /\ FenceInv'
  BY NextFence DEF TrackInv
<1>t. TypeInv /\ TypeInv'
  BY <1>f DEF FenceInv
<1>y. /\ row \in [Tasks -> Row] /\ hist \in [Tasks -> Hist] /\ worker \in [Workers -> Worker]
      /\ local \in [Tasks -> Nat] /\ google \in [Tasks -> Nat]
  BY <1>t DEF TypeInv, TypeOK
<1>r. Resting /\ Unnoted /\ Tracked
  BY DEF TrackInv
<1>k. ASSUME NEW w \in Workers, Sends(w)
      PROVE  /\ worker[w].task \in Tasks /\ row[worker[w].task] \in Row
             /\ row[worker[w].task].status = "running"
             /\ worker[w].seen.revision \in Nat /\ row[worker[w].task].revision \in Nat
             /\ worker[w].seen.revision <= row[worker[w].task].revision
  <2>1. worker[w].task \in Tasks
    BY <1>k, <1>t DEF TypeInv, Working, Sends, Sending
  <2>2. row[worker[w].task] \in Row /\ worker[w].seen \in Row
    BY <1>y, <2>1 DEF Worker
  <2>3. Owned(w) /\ worker[w].seen.revision <= row[worker[w].task].revision
    BY <1>f, <1>k DEF FenceInv, Fenced
  <2> QED
    BY <2>1, <2>2, <2>3 DEF Owned, Row
<1>a. ASSUME NEW v \in Workers, NEW w \in Workers, Sends(v), Sends(w), worker[v].task = worker[w].task
      PROVE  v = w
  BY <1>a, <1>f DEF FenceInv, Alone
<1>e. ASSUME NEW t \in Tasks, grant' = grant, listener' = listener, todo' = todo,
             hist'[t].missed = hist[t].missed, hist'[t].away = hist[t].away, ~Excused(t)'
      PROVE  Known(t)
  BY <1>e, <1>r DEF Tracked, Excused, HasTokens
<1>l. listener' = listener /\ todo' = todo /\ bumped' = bumped => Resting'
  BY <1>r DEF Resting
<1>g. unnoted' = unnoted /\ grant' = grant => Unnoted'
  BY <1>r DEF Unnoted, HasTokens
\* To conclude: what is not excused is known.
<1>z. ASSUME Resting', Unnoted', \A t \in Tasks : ~Excused(t)' => Known(t)' PROVE TrackInv'
  BY <1>f, <1>z DEF TrackInv, Tracked
\* The same for steps that touch neither the grant nor the listener.
<1>q. ASSUME UNCHANGED link, unnoted' = unnoted,
             \A t \in Tasks : hist'[t].missed = hist[t].missed /\ hist'[t].away = hist[t].away,
             \A t \in Tasks : Known(t) => Known(t)'
      PROVE  TrackInv'
  BY <1>e, <1>g, <1>l, <1>q, <1>z DEF link
\* And for those that leave contents alone too.
<1>s. ASSUME UNCHANGED link, UNCHANGED data, hist' = hist,
             \A t \in Tasks :
                 /\ row'[t].status = "none" => row[t].status = "none"
                 /\ row'[t].status = "failed" => /\ row[t].status = "failed" /\ row'[t].id = row[t].id
                                                 /\ row'[t].tried = row[t].tried
                 /\ SentAlike(t)
      PROVE  TrackInv'
  BY <1>q, <1>s, KnownKept DEF link, data
<1>u. ASSUME NEW t \in Tasks, UNCHANGED worker, row'[t].revision = row[t].revision PROVE SentAlike(t)
  BY <1>u DEF SentAlike
\* A row whose revision went on is sent by nobody as it was read; a row that
\* was not there is sent by nobody.
<1>b. ASSUME NEW t \in Tasks,
             \A w \in Workers : worker'[w].pc \in Sending =>
                 Sends(w) /\ worker'[w].task = worker[w].task /\ worker'[w].seen = worker[w].seen,
             row[t].status = "none" \/ NotedAgain(row[t], row'[t])
      PROVE  \A w \in Workers : worker'[w].pc \in Sending /\ worker'[w].task = t =>
                 row'[t].revision # worker'[w].seen.revision
  <2> SUFFICES ASSUME NEW w \in Workers, worker'[w].pc \in Sending, worker'[w].task = t
               PROVE  row'[t].revision # worker'[w].seen.revision
    OBVIOUS
  <2>1. Sends(w) /\ worker[w].task = t /\ worker'[w].seen = worker[w].seen
    BY <1>b
  <2>2. row[t].status = "running" /\ worker[w].seen.revision <= row[t].revision
        /\ worker[w].seen.revision \in Nat /\ row[t].revision \in Nat
    BY <1>k, <2>1
  <2> QED
    BY <1>b, <2>1, <2>2 DEF NotedAgain
<1>i. ASSUME NEW t \in Tasks, row'[t].status \in {"pending", "running"},
             \A w \in Workers : worker'[w].pc \in Sending /\ worker'[w].task = t =>
                 row'[t].revision # worker'[w].seen.revision
      PROVE  Known(t)'
  BY <1>i DEF Known, KnownFailed, FailedBefore, Unsent, Behind, SameRevision, Sending
\* A worker that leaves, or that is not among the senders yet, changes nothing.
<1>v. ASSUME NEW w \in Workers, NEW x, worker' = [worker EXCEPT ![w] = x],
             x.pc \notin {"sending", "sent", "broken"}
      PROVE  \A t \in Tasks : row'[t].revision = row[t].revision => SentAlike(t)
  BY <1>v, <1>y DEF SentAlike, Sending
<1>o. ASSUME NEW w \in Workers, Leave(w)
      PROVE  \A t \in Tasks : row'[t].revision = row[t].revision => SentAlike(t)
  BY <1>o, <1>v DEF Leave, AtRest
\* Whoever writes an outcome is the only sender of the row.
<1>m. ASSUME NEW w \in Workers, Sends(w), Leave(w)
      PROVE  \A v \in Workers : worker'[v].pc \in Sending => worker'[v].task # worker[w].task
  <2>1. \A v \in Workers : v # w => worker'[v] = worker[v]
    BY <1>m, <1>y DEF Leave
  <2>2. worker'[w].pc \notin Sending
    BY <1>m, <1>y DEF Leave, AtRest, Sending
  <2> QED
    BY <1>a, <1>m, <2>1, <2>2 DEF Sends
<1>n. ASSUME NEW w \in Workers, Sends(w), Note(w)
      PROVE  \A t \in Tasks : hist'[t].missed = hist[t].missed /\ hist'[t].away = hist[t].away
  BY <1>n, <1>y DEF Note, Hist
<1>1. ASSUME NEW t \in Tasks, Edit(t) PROVE TrackInv'
  <2>1. row[t] \in Row /\ row'[t] = Recorded(row[t], FALSE)
    BY <1>1, <1>y DEF Edit
  <2>2. UNCHANGED <<worker, google, unnoted, link>>
    BY <1>1 DEF Edit
  <2>3. Known(t)'
    <3>1. row'[t].status \in {"pending", "running"}
          /\ (row[t].status = "none" \/ NotedAgain(row[t], row'[t]))
      BY <2>1, RecordedWaits
    <3> QED
      BY <1>b, <1>i, <2>2, <3>1 DEF Sends
  <2>4. ASSUME NEW u \in Tasks, u # t, ~Excused(u)' PROVE Known(u)'
    <3>1. row'[u] = row[u] /\ local'[u] = local[u] /\ hist'[u] = hist[u]
      BY <1>1, <1>y, <2>4 DEF Edit, Change
    <3>2. Known(u)
      BY <1>e, <2>2, <2>4, <3>1 DEF link
    <3> QED
      BY <1>u, <2>2, <3>1, <3>2, KnownKept DEF link
  <2> QED
    BY <1>g, <1>l, <1>z, <2>2, <2>3, <2>4 DEF link
<1>2. ASSUME NEW t \in Tasks, EditWithoutGrant(t) \/ CommitWithoutGrant(t) PROVE TrackInv'
  <2>1. ~HasTokens /\ UNCHANGED <<row, google, worker, link>>
    BY <1>2, <1>r DEF EditWithoutGrant, CommitWithoutGrant, Unnoted
  <2>2. Unnoted' /\ Resting'
    BY <1>l, <2>1 DEF Unnoted, HasTokens, link
  <2>3. ASSUME NEW u \in Tasks, ~Excused(u)' PROVE Known(u)'
    <3>1. hist'[u] = hist[u] /\ local'[u] = local[u]
      <4>1. CASE EditWithoutGrant(t)
        BY <4>1 DEF EditWithoutGrant
      <4>2. CASE CommitWithoutGrant(t)
        <5>1. hist'[t].away
          BY <1>y, <4>2 DEF CommitWithoutGrant, Hist
        <5>2. u # t
          BY <2>1, <2>3, <5>1 DEF Excused, HasTokens, link
        <5> QED
          BY <1>y, <4>2, <5>2 DEF CommitWithoutGrant, Change
      <4> QED
        BY <1>2, <4>1, <4>2
    <3>2. Known(u)
      BY <1>e, <2>1, <2>3, <3>1 DEF link
    <3> QED
      BY <1>u, <2>1, <3>1, <3>2, KnownKept DEF link
  <2> QED
    BY <1>z, <2>2, <2>3
<1>3. ASSUME NEW t \in Tasks, DeferUser(t) \/ LeaseRunsOut(t) \/ BackoffEnds(t) PROVE TrackInv'
  <2>1. UNCHANGED <<data, link, worker, hist>>
    BY <1>3 DEF DeferUser, LeaseRunsOut, BackoffEnds, link
  <2>2. ASSUME NEW u \in Tasks
        PROVE  /\ row'[u].status = row[u].status /\ row'[u].id = row[u].id
               /\ row'[u].revision = row[u].revision /\ row'[u].tried = row[u].tried
    BY <1>3, <1>y DEF DeferUser, LeaseRunsOut, BackoffEnds, Row
  <2> QED
    BY <1>s, <1>u, <2>1, <2>2
<1>4. ASSUME NEW t \in Tasks, NEW w \in Workers, Kick(w, t) \/ Sweep(w, t) PROVE TrackInv'
  <2>1. [AtRest EXCEPT !.pc = "found", !.task = t, !.seen = Compared(row[t])].pc = "found"
    BY DEF AtRest
  <2>2. \A u \in Tasks : SentAlike(u)
    BY <1>4, <1>v, <2>1 DEF Kick, Sweep
  <2> QED
    BY <1>4, <1>s, <2>2 DEF Kick, Sweep, link
<1>5. ASSUME NEW t \in Tasks, NEW w \in Workers, SyncTask(w, t) PROVE TrackInv'
  <2> DEFINE x == [AtRest EXCEPT !.pc = "reopen", !.task = t, !.seen = [NoRow EXCEPT !.id = row[t].id]]
  <2>1. x.pc = "reopen" /\ "reopen" \notin Sending
    BY DEF AtRest, Sending
  <2>2. /\ row[t] \in Row
        /\ \/ row[t].status = "none" /\ row'[t] = Insert(row[t], FALSE)
           \/ row[t].status # "none" /\ row'[t] = Bump(row[t])
    BY <1>5, <1>y DEF SyncTask
  <2>3. worker' = worker \/ worker' = [worker EXCEPT ![w] = x]
    BY <1>5 DEF SyncTask
  <2>4. UNCHANGED <<data, link, hist>>
    BY <1>5 DEF SyncTask, link
  <2> HIDE DEF x
  <2>5. ASSUME NEW v \in Workers, worker'[v].pc \in Sending
        PROVE  worker'[v] = worker[v]
    BY <1>y, <2>1, <2>3, <2>5
  <2>6. SentAlike(t)
    <3>1. row[t].status = "none" \/ NotedAgain(row[t], row'[t])
      <4>1. row[t].status = "none" \/ row'[t] = Bump(row[t])
        BY <2>2
      <4>2. row[t] \in Row
        BY <2>2
      <4>3. NotedAgain(row[t], Bump(row[t]))
        BY <4>2, BumpNotes DEF Bumps
      <4> QED
        BY <4>1, <4>3
    <3>2. \A v \in Workers : worker'[v].pc \in Sending /\ worker'[v].task = t =>
              row'[t].revision # worker'[v].seen.revision
      BY <1>b, <2>5, <3>1 DEF Sends
    <3> QED
      BY <3>2 DEF SentAlike
  <2>7. ASSUME NEW u \in Tasks, u # t PROVE row'[u] = row[u] /\ SentAlike(u)
    <3>1. row'[u] = row[u]
      BY <1>5, <1>y, <2>7 DEF SyncTask
    <3> QED
      BY <2>5, <3>1 DEF SentAlike
  <2>8. (row'[t].status = "none" => row[t].status = "none")
        /\ (row'[t].status = "failed" => /\ row[t].status = "failed" /\ row'[t].id = row[t].id
                                         /\ row'[t].tried = row[t].tried)
    <3>1. CASE row[t].status = "none"
      BY <2>2, <3>1, InsertWaits
    <3>2. CASE row[t].status # "none"
      <4>1. row'[t].status \in {"pending", row[t].status}
        BY <2>2, <3>2 DEF Insert, NoRow, Bump, Row
      <4>2. row'[t].status = "pending" \/ (row'[t].id = row[t].id /\ row'[t].tried = row[t].tried)
        BY <2>2 DEF Insert, NoRow, Bump, Row
      <4> QED
        BY <3>2, <4>1, <4>2
    <3> QED
      BY <3>1, <3>2
  <2> QED
    BY <1>s, <2>4, <2>6, <2>7, <2>8
<1>6. ASSUME NEW w \in Workers, ReopenRow(w) PROVE TrackInv'
  <2>1. ASSUME NEW u \in Tasks PROVE row'[u] = row[u] \/ row'[u] = Reopen(row[u], FALSE)
    BY <1>6, <1>y DEF ReopenRow
  <2>2. ASSUME NEW u \in Tasks
        PROVE  /\ row'[u].status = "none" => row[u].status = "none"
               /\ row'[u].status = "failed" => /\ row[u].status = "failed" /\ row'[u].id = row[u].id
                                               /\ row'[u].tried = row[u].tried
               /\ row'[u].revision = row[u].revision
    <3>1. row[u] \in Row
      BY <1>y
    <3>2. CASE row'[u] = Reopen(row[u], FALSE)
      BY <3>1, <3>2 DEF Reopen, Row
    <3> QED
      BY <2>1, <3>2
  <2> QED
    BY <1>6, <1>o, <1>s, <2>2 DEF ReopenRow
<1>7. ASSUME NEW w \in Workers, Claim(w) PROVE TrackInv'
  <2>1. CASE ~AsRead(w)
    BY <1>7, <1>o, <1>s, <2>1 DEF Claim
  <2>2. CASE AsRead(w)
    <3>1. ASSUME NEW u \in Tasks
          PROVE  row'[u].revision = row[u].revision /\ (row'[u] = row[u] \/ row'[u].status = "running")
      <4>1. row[u] \in Row
        BY <1>y
      <4>2. row'[u] = row[u] \/ row'[u] = [Claimed(row[u]) EXCEPT !.lease = "live", !.due = FALSE]
        BY <1>7, <1>y, <2>2 DEF Claim
      <4> QED
        BY <4>1, <4>2, ClaimedRow
    <3> DEFINE x == [worker[w] EXCEPT !.pc = "claimed", !.seen = Claimed(worker[w].seen)]
    <3>2. worker' = [worker EXCEPT ![w] = x]
      BY <1>7, <2>2 DEF Claim
    <3>3. x.pc = "claimed"
      <4>1. worker[w] \in Worker
        BY <1>y
      <4> QED
        BY <4>1 DEF Worker
    <3> HIDE DEF x
    <3>4. \A u \in Tasks : SentAlike(u)
      BY <1>v, <3>1, <3>2, <3>3
    <3> QED
      BY <1>7, <1>s, <3>1, <3>4 DEF Claim
  <2> QED
    BY <2>1, <2>2
<1>8. ASSUME NEW w \in Workers, ReadTask(w) PROVE TrackInv'
  <2>1. UNCHANGED <<row, data, link, hist>>
    BY <1>8 DEF ReadTask
  <2>2. worker'[w].task = worker[w].task /\ worker'[w].pc = "sending" /\ worker'[w].content = local[worker[w].task]
    BY <1>8, <1>y DEF ReadTask, Worker
  <2>3. \A v \in Workers : v # w => worker'[v] = worker[v]
    BY <1>8, <1>y DEF ReadTask
  <2>4. ASSUME NEW t \in Tasks, Known(t) PROVE Known(t)'
    <3>1. KnownFailed(t)'
      BY <2>1, <2>4 DEF Known, KnownFailed, FailedBefore, data, link
    <3>2. ~Unsent(t)'
      BY <2>1, <2>2, <2>3, <2>4 DEF Known, Unsent, Behind, SameRevision, data
    <3> QED
      BY <3>1, <3>2 DEF Known
  <2> QED
    BY <1>q, <2>1, <2>4 DEF data
<1>9. ASSUME NEW w \in Workers, Send(w) PROVE TrackInv'
  <2> DEFINE d == worker[w].task
  <2>1. UNCHANGED <<row, local, unnoted, link, hist>> /\ worker[w].pc = "sending"
    BY <1>9 DEF Send
  <2>2. Sends(w) /\ d \in Tasks /\ row[d].status = "running"
    BY <1>k, <2>1 DEF Sends, Sending
  <2>3. /\ worker'[w].task = d /\ worker'[w].content = worker[w].content /\ worker'[w].seen = worker[w].seen
        /\ worker'[w].pc \in {"sent", "broken"}
        /\ worker'[w].pc = "sent" => google'[d] = worker[w].content
        /\ worker[w].content # local[d] => Behind(w)
    BY <1>9, <1>y, <2>1, <2>2 DEF Send, Goto, Worker, Behind
  <2>4. \A v \in Workers : v # w => worker'[v] = worker[v]
    BY <1>9, <1>y DEF Send, Goto
  <2>5. \A t \in Tasks : t # d => google'[t] = google[t]
    BY <1>9, <1>y DEF Send
  <2>6. ASSUME NEW t \in Tasks, Known(t) PROVE Known(t)'
    <3>1. CASE t # d
      BY <2>1, <2>3, <2>4, <2>5, <2>6, <3>1, KnownKept DEF SentAlike, link
    <3>2. CASE t = d
      <4>1. row'[t].status = "running"
        BY <2>1, <2>2, <3>2
      <4>2. \A v \in Workers : worker'[v].pc \in Sending /\ worker'[v].task = t => v = w
        BY <1>a, <2>2, <2>4, <3>2 DEF Sends
      <4>3. SameRevision(w)' => worker[w].content = local[t]
        BY <2>1, <2>2, <2>3, <2>6, <3>2 DEF Known, Unsent, SameRevision
      <4>4. SameRevision(w)' => ~Behind(w)'
        BY <2>1, <2>3, <3>2, <4>3 DEF Behind
      <4>5. ~Unsent(t)'
        BY <4>1, <4>2, <4>4 DEF Unsent, Behind, Sending
      <4>6. KnownFailed(t)'
        BY <4>1 DEF KnownFailed, FailedBefore
      <4> QED
        BY <4>5, <4>6 DEF Known
    <3> QED
      BY <3>1, <3>2
  <2> QED
    BY <1>q, <2>1, <2>6
\* Outcomes: the row of w changes and w leaves, or w goes on without touching it.
<1>c. ASSUME NEW w \in Workers, Sends(w), NEW pc \in {"requeue", "renew"}, GoOn(w, pc),
             UNCHANGED <<row, hist, data, link>>
      PROVE  TrackInv'
  <2>1. [worker[w] EXCEPT !.pc = pc, !.content = 0].pc = pc
    BY <1>y DEF Worker
  <2>2. worker' = [worker EXCEPT ![w] = [worker[w] EXCEPT !.pc = pc, !.content = 0]]
    BY <1>c DEF GoOn
  <2>3. \A t \in Tasks : SentAlike(t)
    BY <1>c, <1>v, <2>1, <2>2
  <2> QED
    BY <1>c, <1>s, <2>3
<1>d. ASSUME NEW w \in Workers, Sends(w), Leave(w), UNCHANGED <<data, link>>,
             NEW t \in Tasks, worker[w].task = t,
             NEW r, row' = [row EXCEPT ![t] = r],
             Note(w), Excused(t) \/ (row'[t].status = "none" => google[t] = local[t]),
             Excused(t) \/ (row'[t].status = "failed" => row'[t].tried = local[t])
      PROVE  TrackInv'
  <2>1. ASSUME ~Excused(t) PROVE Known(t)'
    <3>1. ~\E v \in Workers : worker'[v].task = t /\ Behind(v)'
      BY <1>d, <1>m DEF Behind, Sending
    <3>2. ~Unsent(t)' /\ ~FailedBefore(t)'
      BY <1>d, <2>1, <3>1 DEF Unsent, FailedBefore, data
    <3> QED
      BY <3>2 DEF Known, KnownFailed
  <2>5. \A u \in Tasks : hist'[u].missed = hist[u].missed /\ hist'[u].away = hist[u].away
    BY <1>d, <1>n
  <2>2. ASSUME NEW u \in Tasks, u # t, Known(u) PROVE Known(u)'
    <3>1. row'[u] = row[u]
      BY <1>d, <1>y, <2>2
    <3>2. SentAlike(u)
      BY <1>d, <1>o, <3>1
    <3> QED
      BY <1>d, <2>2, <2>5, <3>1, <3>2, KnownKept DEF data, link
  <2>3. ~Excused(t)' => Known(t)'
    BY <1>d, <2>1, <2>5 DEF Excused, HasTokens, link
  <2>4. \A u \in Tasks : ~Excused(u)' => Known(u)'
    BY <1>d, <1>e, <2>2, <2>3, <2>5 DEF link
  <2> QED
    BY <1>d, <1>g, <1>l, <1>z, <2>4 DEF data, link
<1>10. ASSUME NEW w \in Workers, DeleteSent(w) PROVE TrackInv'
  <2>1. Sends(w) /\ worker[w].pc = "sent"
    BY <1>10 DEF DeleteSent, Sends, Sending
  <2>2. PICK t \in Tasks : t = worker[w].task
    BY <1>k, <2>1
  <2>3. CASE ~(Owned(w) /\ SameRevision(w))
    BY <1>10, <1>c, <2>1, <2>3 DEF DeleteSent
  <2>4. CASE Owned(w) /\ SameRevision(w)
    <3>1. Leave(w) /\ Note(w) /\ row' = [row EXCEPT ![t] = Deleted(row[t])] /\ UNCHANGED <<data, link>>
      BY <1>10, <2>2, <2>4 DEF DeleteSent
    <3>2. Known(t) => google[t] = local[t]
      BY <2>1, <2>2, <2>4 DEF Known, Unsent, Behind
    <3>3. row'[t] = Deleted(row[t])
      BY <1>y, <3>1
    <3>4. row'[t].status = "none"
      BY <3>3 DEF Deleted, NoRow
    <3>5. Excused(t) \/ google[t] = local[t]
      BY <1>r, <3>2 DEF Tracked
    <3> QED
      BY <1>d, <2>1, <2>2, <3>1, <3>4, <3>5
  <2> QED
    BY <2>3, <2>4
<1>11. ASSUME NEW w \in Workers, Requeue(w) \/ RenewWrite(w) PROVE TrackInv'
  <2>1. Sends(w) /\ Leave(w) /\ UNCHANGED <<data, link>>
    BY <1>11 DEF Requeue, RenewWrite, Sends, Sending
  <2>2. PICK t \in Tasks : t = worker[w].task
    BY <1>k, <2>1
  <2>3. Owned(w) /\ row[t] \in Row
    BY <1>f, <1>y, <2>1 DEF FenceInv, Fenced
  <2>4. Note(w) /\ (row' = [row EXCEPT ![t] = Retried(row[t], TRUE)] \/ row' = [row EXCEPT ![t] = Renewed(row[t], FALSE)])
    BY <1>11, <2>2, <2>3 DEF Requeue, RenewWrite
  <2>5. row'[t] = Retried(row[t], TRUE) \/ row'[t] = Renewed(row[t], FALSE)
    BY <1>y, <2>4
  <2>6. row'[t].status = "pending"
    BY <2>3, <2>5 DEF Retried, Renewed, Row
  <2> QED
    BY <1>d, <2>1, <2>2, <2>4, <2>6
<1>12. ASSUME NEW w \in Workers, FailWrite(w) PROVE TrackInv'
  <2>1. Sends(w) /\ worker[w].pc = "broken" /\ UNCHANGED <<data, link>>
    BY <1>12 DEF FailWrite, Sends, Sending
  <2>2. PICK t \in Tasks : t = worker[w].task
    BY <1>k, <2>1
  <2>3. Owned(w) /\ row[t] \in Row
    BY <1>f, <1>y, <2>1 DEF FenceInv, Fenced
  <2>4. CASE worker[w].seen.attempts < MaxAttempts
    <3>1. Note(w) /\ Leave(w) /\ row' = [row EXCEPT ![t] = Retried(row[t], FALSE)]
      BY <1>12, <2>2, <2>3, <2>4 DEF FailWrite
    <3>2. row'[t] = Retried(row[t], FALSE)
      BY <1>y, <3>1
    <3>3. row'[t].status = "pending"
      BY <2>3, <3>2 DEF Retried, Row
    <3> QED
      BY <1>d, <2>1, <2>2, <3>1, <3>3
  <2>5. CASE ~(worker[w].seen.attempts < MaxAttempts) /\ ~SameRevision(w)
    BY <1>12, <1>c, <2>1, <2>5 DEF FailWrite
  <2>6. CASE ~(worker[w].seen.attempts < MaxAttempts) /\ SameRevision(w)
    <3>1. Note(w) /\ Leave(w) /\ row' = [row EXCEPT ![t] = Failed(row[t], worker[w].content)]
      BY <1>12, <2>2, <2>3, <2>6 DEF FailWrite
    <3>2. row'[t] = Failed(row[t], worker[w].content)
      BY <1>y, <3>1
    <3>3. row'[t].status = "failed" /\ row'[t].tried = worker[w].content
      BY <2>3, <3>2 DEF Failed, Row
    <3>4. Known(t) => worker[w].content = local[t]
      BY <2>1, <2>2, <2>6 DEF Known, Unsent, Behind
    <3>5. Excused(t) \/ row'[t].tried = local[t]
      BY <1>r, <3>3, <3>4 DEF Tracked
    <3> QED
      BY <1>d, <2>1, <2>2, <3>1, <3>3, <3>5
  <2> QED
    BY <2>4, <2>5, <2>6
<1>13. ASSUME NEW w \in Workers, Heartbeat(w) PROVE TrackInv'
  <2>1. UNCHANGED <<data, link, worker, hist>>
    BY <1>13 DEF Heartbeat
  <2>2. ASSUME NEW u \in Tasks
        PROVE  /\ row'[u].status = row[u].status /\ row'[u].id = row[u].id
               /\ row'[u].revision = row[u].revision /\ row'[u].tried = row[u].tried
    BY <1>13, <1>y DEF Heartbeat, Row
  <2> QED
    BY <1>s, <1>u, <2>1, <2>2
<1>14. ASSUME Disconnect \/ Revoke PROVE TrackInv'
  <2>1. UNCHANGED <<row, data, listener, todo, bumped, worker, hist>> /\ HasTokens
    BY <1>14 DEF Disconnect, Revoke, HasTokens
  <2>2. Resting'
    BY <1>l, <2>1
  <2>3. Unnoted'
    BY <1>r, <2>1 DEF Unnoted, data
  <2>4. ASSUME NEW t \in Tasks, ~Excused(t)' PROVE Known(t)'
    <3>1. Known(t)
      BY <1>r, <2>1, <2>4 DEF Tracked, Excused
    <3>2. SentAlike(t)
      BY <1>u, <2>1
    <3> QED
      BY <2>1, <3>1, <3>2, KnownKept DEF data
  <2> QED
    BY <1>z, <2>2, <2>3, <2>4
<1>15. ASSUME Connect PROVE TrackInv'
  <2>1. UNCHANGED <<row, data, todo, bumped, worker, hist>> /\ unnoted = {}
    BY <1>15 DEF Connect
  <2>2. Resting'
    BY <1>15, <1>r DEF Connect, Resting
  <2>3. Unnoted'
    BY <2>1 DEF Unnoted, data
  <2>4. ASSUME NEW t \in Tasks, ~Excused(t)' PROVE Known(t)'
    <3>1. ~HasTokens \/ listener = "find" => listener' = "find"
      BY <1>15 DEF Connect
    <3>2. Known(t)
      BY <1>r, <2>1, <2>4, <3>1 DEF Tracked, Excused
    <3>3. SentAlike(t)
      BY <1>u, <2>1
    <3>4. listener' # "rest"
      BY <1>15 DEF Connect
    <3> QED
      BY <2>1, <3>2, <3>3, <3>4, KnownKept DEF data
  <2> QED
    BY <1>z, <2>2, <2>3, <2>4
<1>22. ASSUME ReconcileFind PROVE TrackInv'
  <2>1. PICK past \in SUBSET seated :
           /\ todo' = todo \cup Listed(past)
           /\ hist' = [t \in Tasks |->
                          [hist[t] EXCEPT !.missed = \/ @
                                                     \/ /\ hist[t].away /\ Unsent(t)
                                                        /\ t \in past \/ (t \notin seated /\ google[t] = 0)]]
    BY <1>22 DEF ReconcileFind
  <2>2. UNCHANGED <<row, data, grant, bumped, worker>> /\ listener = "find" /\ listener' = "reconcile"
    BY <1>22 DEF ReconcileFind
  <2>3. Resting' /\ Unnoted'
    BY <1>g, <2>2 DEF Resting, data
  <2>4. ASSUME NEW t \in Tasks, ~Excused(t)' PROVE Known(t)'
    <3>1. /\ hist'[t].away = hist[t].away
          /\ hist'[t].missed <=> \/ hist[t].missed
                               \/ /\ hist[t].away /\ Unsent(t)
                                  /\ t \in past \/ (t \notin seated /\ google[t] = 0)
      BY <1>y, <2>1 DEF Hist
    <3>2. SentAlike(t)
      BY <1>u, <2>2
    <3>3. CASE hist[t].away
      <4>1. t \notin Listed(past)
        BY <2>1, <2>4, <3>1, <3>3 DEF Excused
      <4>2. ~Unsent(t)
        BY <2>4, <3>1, <3>3, <4>1 DEF Listed, Excused
      <4>3. ~Unsent(t)'
        BY <2>2, <4>2 DEF Unsent, Behind, SameRevision, data
      <4>4. KnownFailed(t)'
        BY <2>2, <3>1, <3>3 DEF KnownFailed
      <4> QED
        BY <4>3, <4>4 DEF Known
    <3>4. CASE ~hist[t].away
      <4>1. Known(t)
        BY <1>r, <2>4, <3>1, <3>4 DEF Tracked, Excused
      <4> QED
        BY <2>2, <3>1, <3>2, <4>1, KnownKept DEF data
    <3> QED
      BY <3>3, <3>4
  <2> QED
    BY <1>z, <2>3, <2>4
<1>16. ASSUME NEW t \in Tasks, ReconcileTask(t) PROVE TrackInv'
  <2>1. UNCHANGED <<data, grant, listener, worker>> /\ listener = "reconcile" /\ bumped = NoBump
        /\ todo' = todo \ {t}
    BY <1>16 DEF ReconcileTask
  <2>2. Resting' /\ Unnoted'
    BY <1>g, <2>1 DEF Resting, data
  <2>3. row[t] \in Row /\ \A u \in Tasks : u # t => row'[u] = row[u] /\ hist'[u] = hist[u]
    BY <1>16, <1>y DEF ReconcileTask
  <2>4. \/ row[t].status = "none" /\ row'[t] = Insert(row[t], TRUE)
        \/ row[t].status # "none" /\ row'[t] = Bump(row[t]) /\ bumped' = [task |-> t, id |-> row[t].id]
    BY <1>16, <1>y DEF ReconcileTask
  <2>5. Known(t)'
    <3>1. row[t].status = "none" \/ NotedAgain(row[t], row'[t])
      BY <2>3, <2>4, BumpNotes DEF Bumps
    <3>2. \A w \in Workers : worker'[w].pc \in Sending /\ worker'[w].task = t =>
              row'[t].revision # worker'[w].seen.revision
      BY <1>b, <2>1, <3>1 DEF Sends
    <3>3. CASE row'[t] = Insert(row[t], TRUE)
      <4>1. row'[t].status = "pending"
        BY <3>3, InsertWaits
      <4> QED
        BY <1>i, <3>2, <4>1
    <3>4. CASE /\ row[t].status # "none" /\ row'[t] = Bump(row[t])
               /\ bumped' = [task |-> t, id |-> row[t].id]
      <4>1. row'[t].status = row[t].status /\ row'[t].id = row[t].id
        BY <2>3, <3>4, BumpNotes DEF Bumps
      <4>2. ~Unsent(t)'
        BY <3>2, <3>4, <4>1 DEF Unsent, Behind, SameRevision, Sending
      <4>3. KnownFailed(t)'
        BY <2>1, <3>4, <4>1 DEF KnownFailed
      <4> QED
        BY <4>2, <4>3 DEF Known
    <3> QED
      BY <2>4, <3>3, <3>4
  <2>6. ASSUME NEW u \in Tasks, u # t, ~Excused(u)' PROVE Known(u)'
    <3>1. row'[u] = row[u] /\ hist'[u] = hist[u]
      BY <2>3, <2>6
    <3>2. Known(u)
      BY <1>r, <2>1, <2>6, <3>1 DEF Tracked, Excused, HasTokens
    <3>3. bumped.task # u
      BY <2>1, NoTaskAssumption DEF NoBump
    <3>4. SentAlike(u)
      BY <1>u, <2>1, <3>1
    <3> QED
      BY <2>1, <3>1, <3>2, <3>3, <3>4, KnownKept DEF data
  <2> QED
    BY <1>z, <2>2, <2>5, <2>6
<1>17. ASSUME ReconcileReopen PROVE TrackInv'
  <2>1. UNCHANGED <<data, grant, listener, todo, worker, hist>> /\ listener = "reconcile"
    BY <1>17 DEF ReconcileReopen
  <2>2. Resting' /\ Unnoted'
    BY <1>g, <2>1 DEF Resting, data
  <2>3. ASSUME NEW t \in Tasks
        PROVE  \/ row'[t] = Reopen(row[t], TRUE)
               \/ row'[t] = row[t] /\ ~(bumped.task = t /\ bumped.id = row[t].id)
    BY <1>17, <1>y DEF ReconcileReopen
  <2>4. ASSUME NEW t \in Tasks, ~Excused(t)' PROVE Known(t)'
    <3>1. Known(t)
      BY <1>e, <2>1, <2>4
    <3>2. row'[t].revision = row[t].revision /\ (row'[t].status = "none" => row[t].status = "none")
      <4>1. row[t] \in Row
        BY <1>y
      <4>2. CASE row'[t] = Reopen(row[t], TRUE)
        BY <4>1, <4>2 DEF Reopen, Row
      <4> QED
        BY <2>3, <4>2
    <3>3. row'[t].status = "failed" => row'[t] = row[t] /\ ~(bumped.task = t /\ bumped.id = row[t].id)
      <4>1. row[t] \in Row
        BY <1>y
      <4>2. CASE row'[t] = Reopen(row[t], TRUE)
        BY <4>1, <4>2 DEF Reopen, Row
      <4> QED
        BY <2>3, <4>2
    <3>4. SentAlike(t)
      BY <1>u, <2>1, <3>2
    <3> QED
      BY <2>1, <3>1, <3>2, <3>3, <3>4, KnownKept DEF data
  <2> QED
    BY <1>z, <2>2, <2>4
<1>18. ASSUME ReconcileDone \/ ReviveForUser PROVE TrackInv'
  <2>1. UNCHANGED <<data, grant, todo, bumped, worker, hist>>
    BY <1>18 DEF ReconcileDone, ReviveForUser
  <2>2. Resting'
    BY <1>18, <1>r DEF Resting, ReconcileDone, ReviveForUser
  <2>3. Unnoted'
    BY <1>g, <2>1 DEF data
  <2>4. ASSUME NEW t \in Tasks, ~Excused(t)' PROVE Known(t)'
    <3>1. Known(t)
      <4>1. listener # "find"
        BY <1>18 DEF ReconcileDone, ReviveForUser
      <4> QED
        BY <1>r, <2>1, <2>4, <4>1 DEF Tracked, Excused, HasTokens
    <3>2. row[t] \in Row
      BY <1>y
    <3>3. CASE ReconcileDone
      <4>1. SentAlike(t)
        BY <1>u, <2>1, <3>3 DEF ReconcileDone
      <4> QED
        BY <2>1, <3>1, <3>3, <4>1, KnownKept DEF data, ReconcileDone
    <3>4. CASE ReviveForUser
      <4>1. \/ row[t].status \in {"pending", "failed"} /\ row'[t] = Renewed(row[t], TRUE)
            \/ row[t].status \notin {"pending", "failed"} /\ row'[t] = row[t]
        BY <3>4 DEF ReviveForUser
      <4>2. /\ row'[t].status # "failed" /\ row'[t].revision = row[t].revision
            /\ row'[t].status = "none" => row[t].status = "none"
        BY <3>2, <4>1 DEF Renewed, Retried, Row
      <4>3. ~Unsent(t)'
        BY <2>1, <3>1, <4>2 DEF Known, Unsent, Behind, SameRevision, data
      <4> QED
        BY <4>2, <4>3 DEF Known, KnownFailed, FailedBefore
    <3> QED
      BY <1>18, <3>3, <3>4
  <2> QED
    BY <1>z, <2>2, <2>3, <2>4
<1>19. ASSUME NEW w \in Workers, Crash(w) PROVE TrackInv'
  BY <1>19, <1>o, <1>s DEF Crash
<1>20. ASSUME CrashListener PROVE TrackInv'
  <2>1. UNCHANGED <<row, data, grant, worker>> /\ todo' = {} /\ bumped' = NoBump
    BY <1>20 DEF CrashListener
  <2>2. ASSUME NEW t \in Tasks
        PROVE  hist'[t].missed <=> \/ hist[t].missed
                                   \/ /\ hist[t].away \/ t = bumped.task
                                      /\ Unsent(t) \/ FailedBefore(t)
    BY <1>20, <1>y DEF CrashListener, Hist
  <2>3. Resting' /\ Unnoted'
    BY <1>g, <2>1 DEF Resting, data
  <2>4. ASSUME NEW t \in Tasks, ~Excused(t)' PROVE Known(t)'
    <3>1. ~Unsent(t) /\ ~FailedBefore(t)
      <4>1. CASE hist[t].away
        BY <2>2, <2>4, <4>1 DEF Excused
      <4>2. CASE ~hist[t].away
        <5>1. Known(t)
          BY <1>r, <2>2, <2>4, <4>2 DEF Tracked, Excused
        <5> QED
          BY <2>2, <2>4, <5>1 DEF Excused, Known, KnownFailed
      <4> QED
        BY <4>1, <4>2
    <3>2. ~Unsent(t)' /\ ~FailedBefore(t)'
      BY <2>1, <3>1 DEF Unsent, FailedBefore, Behind, SameRevision, data
    <3> QED
      BY <3>2 DEF Known, KnownFailed
  <2> QED
    BY <1>z, <2>3, <2>4
<1>21. CASE UNCHANGED vars
  <2>1. UNCHANGED <<data, link, row, worker, hist>>
    BY <1>21 DEF vars, data, link
  <2> QED
    BY <1>s, <1>u, <2>1
<1> QED
  BY <1>1, <1>2, <1>3, <1>4, <1>5, <1>6, <1>7, <1>8, <1>9, <1>10, <1>11, <1>12, <1>13, <1>14, <1>15,
     <1>16, <1>17, <1>18, <1>19, <1>20, <1>21, <1>22
     DEF Next, WorkerStep, ListenerStep

\* With the account connected and the listener at rest, a task without a row is
\* in Google as it is here.
THEOREM NothingIsForgotten ==
  ASSUME MaxStalls = 0, SlowSweep = FALSE, SlowCommit = FALSE
  PROVE  Spec => []NothingForgotten
<1>1. Init /\ [][Next]_vars => []TrackInv
  BY InitTrack, NextTrack, PTL
<1>2. TrackInv => NothingForgotten
  BY DEF TrackInv, Resting, Tracked, Known, Unsent, Excused, HasTokens, NothingForgotten, Settled
<1> QED
  BY <1>1, <1>2, PTL DEF Spec

\* And a row that failed for good was tried at the newest content.
THEOREM FailsAtNewest ==
  ASSUME MaxStalls = 0, SlowSweep = FALSE, SlowCommit = FALSE
  PROVE  Spec => []FailedAtNewest
<1>1. Init /\ [][Next]_vars => []TrackInv
  BY InitTrack, NextTrack, PTL
<1>2. TrackInv => FailedAtNewest
  BY DEF TrackInv, Resting, Tracked, Known, KnownFailed, FailedBefore, Excused, HasTokens, FailedAtNewest,
         Settled
<1> QED
  BY <1>1, <1>2, PTL DEF Spec

=============================================================================
