---------------------------- MODULE GoogleOutbox ----------------------------
(***************************************************************************)
(* The transactional outbox for Google Calendar: google-sync-outbox.ts and  *)
(* google-sync-outbox.subscriber.ts, on one database connection.            *)
(*                                                                         *)
(* The subscriber notes every changed or removed task on the connection's   *)
(* query runner, keeps a copy of the notes per open savepoint, and writes   *)
(* the queue rows just before the outermost commit.  The database undoes    *)
(* its own writes; the notes live in the process and it must undo them.     *)
(* The rows' later life is GoogleWriteQueue.                               *)
(***************************************************************************)
EXTENDS Naturals, Sequences, SequencesExt

CONSTANTS OutboxTasks,  \* tasks of one user
          MaxDepth      \* bound: open transactions, nested ones included

ASSUME DepthAssumption == MaxDepth \in Nat \ {0}

VARIABLES db,       \* the tables, as this connection sees them
          begun,    \* the tables at the start of every open transaction
          noted,    \* runner.data[OUTBOX_KEY]
          copies,   \* runner.data[SAVEPOINTS_KEY], one per open savepoint
          flushed,  \* the rows of this transaction are written
          silent,   \* tasks changed outside a transaction, not yet noted
          lost,     \* history: such tasks whose note died with the process
          kicked,   \* rows handed to the queue
          event,    \* tasks that had a Google event when they were read
          linked    \* the user has a stored grant

outboxVars == <<db, begun, noted, copies, flushed, silent, lost, kicked, event, linked>>
fixed == <<event, linked>>
direct == <<silent, lost>>

\* up, del: tasks with a pending upsert row; with a delete row of their event.
\* changed: tasks with a change that no upsert was sent for.
Rows == [up : SUBSET OutboxTasks, del : SUBSET OutboxTasks]
Tables == [task : [OutboxTasks -> {"absent", "live", "gone"}], changed : SUBSET OutboxTasks, rows : Rows]
Ids == {"up", "del"} \X OutboxTasks

Collected == [upserts : SUBSET OutboxTasks, removed : SUBSET OutboxTasks, deletes : SUBSET OutboxTasks,
              written : SUBSET Ids]
Nothing == [upserts |-> {}, removed |-> {}, deletes |-> {}, written |-> {}]

OutboxTypeOK ==
    /\ db \in Tables
    /\ begun \in Seq(Tables) /\ Len(begun) <= MaxDepth
    /\ noted \in Collected
    /\ copies \in Seq(Collected) /\ Len(copies) = (IF begun = <<>> THEN 0 ELSE Len(begun) - 1)
    /\ flushed \in BOOLEAN
    /\ silent \subseteq OutboxTasks /\ lost \subseteq OutboxTasks
    /\ kicked \subseteq Ids
    /\ event \subseteq OutboxTasks
    /\ linked \in BOOLEAN

-----------------------------------------------------------------------------

Open == begun # <<>>
Nested == Len(begun) > 1

\* The rows flush writes for what was collected.
Written(c) ==
    {<<"up", t>> : t \in IF linked THEN c.upserts \ c.removed ELSE {}}
        \cup {<<"del", t>> : t \in c.deletes}

\* flush: the upserts of removed tasks are dropped, then the rows are recorded.
Flushed(rows, c) ==
    [up  |-> (rows.up \ c.removed) \cup {t \in OutboxTasks : <<"up", t>> \in Written(c)},
     del |-> rows.del \cup c.deletes]

\* Slip: a savepoint keeps only what is noted after it was set.
CopiedSince(c) == Nothing

\* copyCollected: a copy of its own, or it would follow the later notes.
Copied(c) == c

-----------------------------------------------------------------------------

OutboxInit ==
    /\ db \in [task : [OutboxTasks -> {"absent", "live"}], changed : {{}},
               rows : {[up |-> {}, del |-> {}]}]
    /\ event \in SUBSET {t \in OutboxTasks : db.task[t] = "live"}
    /\ linked \in BOOLEAN
    /\ begun = <<>> /\ copies = <<>>
    /\ noted = Nothing
    /\ flushed = FALSE
    /\ silent = {} /\ lost = {} /\ kicked = {}

\* startTransaction and afterTransactionStart: nested ones are savepoints.
Begin ==
    /\ Len(begun) < MaxDepth /\ ~flushed
    /\ begun' = Append(begun, db)
    /\ copies' = IF Open THEN Append(copies, Copied(noted)) ELSE copies
    /\ UNCHANGED <<db, noted, flushed, direct, kicked, fixed>>

\* afterInsert / afterUpdate of a task or a slot, or noteGoogleSync, inside a
\* transaction.  Changes of bookkeeping columns only are no change here.
SaveTask(t) ==
    /\ Open /\ ~flushed
    /\ db.task[t] \in {"absent", "live"}
    /\ db' = [db EXCEPT !.task[t] = "live", !.changed = @ \cup {t}]
    /\ noted' = [noted EXCEPT !.upserts = @ \cup {t}]
    /\ UNCHANGED <<begun, copies, flushed, direct, kicked, fixed>>

\* afterRemove: no upsert any more, and a delete for the event it had.
RemoveTask(t) ==
    /\ Open /\ ~flushed
    /\ db.task[t] = "live"
    /\ db' = [db EXCEPT !.task[t] = "gone", !.changed = @ \cup {t}]
    /\ noted' = [noted EXCEPT !.removed = @ \cup {t}, !.deletes = @ \cup ({t} \cap event)]
    /\ UNCHANGED <<begun, copies, flushed, direct, kicked, fixed>>

\* A nested transaction commits: its notes belong to the enclosing one.
Release ==
    /\ Nested
    /\ begun' = Front(begun) /\ copies' = Front(copies)
    /\ UNCHANGED <<db, noted, flushed, direct, kicked, fixed>>

\* Slip: the notes survive the savepoint they were made in.
RollBackKeepsNotes ==
    /\ Nested
    /\ db' = Last(begun)
    /\ begun' = Front(begun) /\ copies' = Front(copies)
    /\ UNCHANGED <<noted, flushed, direct, kicked, fixed>>

\* H-1: back to a savepoint, and to the notes that were made before it.
RollBackNested ==
    /\ Nested
    /\ db' = Last(begun) /\ noted' = Last(copies)
    /\ begun' = Front(begun) /\ copies' = Front(copies)
    /\ UNCHANGED <<flushed, direct, kicked, fixed>>

\* Slip: rows are handed to the queue as soon as they are written.
FlushAndKick ==
    /\ Len(begun) = 1 /\ ~flushed
    /\ db' = [db EXCEPT !.rows = Flushed(@, noted)]
    /\ noted' = Nothing
    /\ kicked' = kicked \cup Written(noted)
    /\ flushed' = TRUE
    /\ UNCHANGED <<begun, copies, direct, fixed>>

\* beforeTransactionCommit of the outermost transaction.
Flush ==
    /\ Len(begun) = 1 /\ ~flushed
    /\ db' = [db EXCEPT !.rows = Flushed(@, noted)]
    /\ noted' = [Nothing EXCEPT !.written = Written(noted)]
    /\ flushed' = TRUE
    /\ UNCHANGED <<begun, copies, direct, kicked, fixed>>

\* COMMIT and afterTransactionCommit: the rows are kicked.
Commit ==
    /\ flushed
    /\ begun' = <<>> /\ copies' = <<>> /\ flushed' = FALSE
    /\ kicked' = kicked \cup noted.written
    /\ noted' = [noted EXCEPT !.written = {}]
    /\ UNCHANGED <<db, direct, fixed>>

\* The work, the flush or the COMMIT fails, or the process dies: nothing of the
\* transaction is left.
RollBack ==
    /\ Open
    /\ Nested => ~flushed
    /\ db' = Head(begun)
    /\ begun' = <<>> /\ copies' = <<>> /\ flushed' = FALSE
    /\ noted' = Nothing
    /\ UNCHANGED <<direct, kicked, fixed>>

\* A criteria update outside any transaction, at once durable.
ChangeDirectly(t) ==
    /\ ~Open
    /\ db.task[t] = "live"
    /\ db' = [db EXCEPT !.changed = @ \cup {t}]
    /\ silent' = silent \cup {t}
    /\ UNCHANGED <<begun, noted, copies, flushed, lost, kicked, fixed>>

\* The noteGoogleSync that follows it: a flush of its own, and the kick.  A
\* caller that names the user gets a row even if the task is gone by now.
NoteDirectly(t) ==
    /\ ~Open
    /\ t \in silent
    /\ silent' = silent \ {t}
    /\ \E namesUser \in BOOLEAN :
           LET c == [Nothing EXCEPT !.upserts = {u \in {t} : namesUser \/ db.task[u] = "live"}]
           IN  /\ db' = [db EXCEPT !.rows = Flushed(@, c), !.changed = @ \cup c.upserts]
               /\ kicked' = kicked \cup Written(c)
    /\ UNCHANGED <<begun, noted, copies, flushed, lost, fixed>>

\* The process dies between the two.
CrashBeforeNote ==
    /\ ~Open
    /\ silent # {}
    /\ lost' = lost \cup silent
    /\ silent' = {}
    /\ UNCHANGED <<db, begun, noted, copies, flushed, kicked, fixed>>

\* The queue (GoogleWriteQueue) sends a row and deletes it.
Sent(t) ==
    /\ ~Open
    /\ \/ /\ t \in db.rows.up
          /\ db' = [db EXCEPT !.rows.up = @ \ {t}, !.changed = @ \ {t}]
          /\ kicked' = kicked \ {<<"up", t>>}
          /\ event' = IF db.task[t] = "live" THEN event \cup {t} ELSE event
       \/ /\ t \in db.rows.del
          /\ db' = [db EXCEPT !.rows.del = @ \ {t}]
          /\ kicked' = kicked \ {<<"del", t>>}
          /\ event' = event \ {t}
    /\ UNCHANGED <<begun, noted, copies, flushed, direct, linked>>

OutboxNext ==
    \/ Begin \/ Release \/ RollBackNested \/ Flush \/ Commit \/ RollBack
    \/ \E t \in OutboxTasks : SaveTask(t) \/ RemoveTask(t) \/ ChangeDirectly(t) \/ NoteDirectly(t) \/ Sent(t)
    \/ CrashBeforeNote

OutboxSpec == OutboxInit /\ [][OutboxNext]_outboxVars

-----------------------------------------------------------------------------

\* Commit and intent are atomic, however the changes were nested: outside a
\* transaction every changed task of a connected user has its upsert row, unless
\* it was changed outside a transaction and its note came to nothing; and the
\* event of every removed task has its delete row, also of a user who is
\* disconnected (AUD-013).
IntentsCommit ==
    ~Open =>
        /\ \A t \in OutboxTasks \ (silent \cup lost) :
               linked /\ t \in db.changed /\ db.task[t] = "live" => t \in db.rows.up
        /\ \A t \in event : db.task[t] = "gone" => t \in db.rows.del

\* A rollback leaves no intent: no row for a change that was undone, and no
\* delete row for the event of a task that still exists (H-1).
RollbackLeavesNothing ==
    ~Open => /\ db.rows.up \subseteq db.changed
             /\ db.rows.del \subseteq {t \in OutboxTasks : db.task[t] = "gone"}

\* Rows are handed to the queue when they are committed and not before.
KickedWhenCommitted ==
    [][kicked' # kicked =>
         /\ begun' = <<>>
         /\ \A id \in kicked' \ kicked : IF id[1] = "up" THEN id[2] \in db'.rows.up
                                         ELSE id[2] \in db'.rows.del]_outboxVars

=============================================================================
