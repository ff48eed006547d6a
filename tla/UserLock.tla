------------------------------ MODULE UserLock ------------------------------
(***************************************************************************)
(* Per-user serialization of scheduling writes: schedule/user-lock.ts.      *)
(*                                                                         *)
(* In a process a chain of promises per user; between processes a Postgres  *)
(* session advisory lock, taken on a connection of a small pool that every  *)
(* process has for it.  Postgres hashes the user into a 32-bit key, so two  *)
(* users can share one.                                                    *)
(***************************************************************************)
EXTENDS Naturals, FiniteSets

CONSTANTS Calls,        \* calls of withUserLock
          NoCall,
          Users, Processes,
          Keys, KeyOf,  \* hashtext of the lock name: [Users -> Keys]
          PoolSize,     \* USER_LOCK_POOL_SIZE (4 in the code)
          Distributed,  \* Postgres; otherwise SQLite and one process
          MaxCrashes,   \* bound: processes that die
          MaxDrops      \* bound: connections lost while their process lives

ASSUME NoCallAssumption == NoCall \notin Calls
ASSUME KeyOfAssumption == KeyOf \in [Users -> Keys]
ASSUME PoolAssumption == PoolSize \in Nat \ {0}
ASSUME LockAssumption ==
    /\ Distributed \in BOOLEAN /\ MaxCrashes \in Nat /\ MaxDrops \in Nat
    /\ ~Distributed => \A p, q \in Processes : p = q

VARIABLES call,    \* [Calls -> Call]
          tail,    \* [Processes -> [Users -> call or NoCall]], the map "chains"
          holder,  \* [Keys -> call or NoCall], the session that has the lock
          clock,   \* calls made so far
          spent    \* the bounds used so far

vars == <<call, tail, holder, clock, spent>>

\* "waiting": for the call before it; "pool": for a connection; "locking": for
\* Postgres; "closing": the unlock failed; "settled": its promise is settled,
\* its entry of chains not yet looked at; "dead": its process died.
PCs == {"made", "waiting", "pool", "locking", "running", "unlocking", "closing",
        "settled", "gone", "dead"}
Connected == {"locking", "running", "unlocking", "closing"}
Pending == {"waiting", "pool"} \cup Connected

\* before: the call whose promise it was chained to; no: its place in time;
\* session: its connection is up; passed: its run began.
Call == [pc : PCs, user : Users, process : Processes,
         before : Calls \cup {NoCall}, no : Nat, session : BOOLEAN, passed : BOOLEAN]

TypeOK ==
    /\ call \in [Calls -> Call]
    /\ tail \in [Processes -> [Users -> Calls \cup {NoCall}]]
    /\ holder \in [Keys -> Calls \cup {NoCall}]
    /\ clock \in Nat
    /\ spent \in [crashes : Nat, drops : Nat]

-----------------------------------------------------------------------------

Is(c, pc) == call[c].pc = pc
Goto(c, pc) == call' = [call EXCEPT ![c].pc = pc]
Key(c) == KeyOf[call[c].user]

\* Slip: the entry of a user is dropped when any of its calls is done.
DroppedAtOnce(c) == [tail EXCEPT ![call[c].process][call[c].user] = NoCall]

\* chains after a settled call: its entry goes if no later call replaced it.
Dropped(c) ==
    [tail EXCEPT ![call[c].process][call[c].user] = IF @ = c THEN NoCall ELSE @]

\* Slip: a call starts when the call before it has started.
BeforeStarted(c) == \A b \in Calls : call[c].before = b => call[b].passed

\* The promise this call was chained to is settled.
BeforeSettled(c) == \A b \in Calls : call[c].before = b => call[b].pc \in {"settled", "gone"}

\* Slip: connections are never given back.
EverInPool(p) == {c \in Calls : call[c].process = p /\ call[c].pc \in Connected \cup {"settled", "gone"}}

\* Connections of the lock pool in use.
InPool(p) == {c \in Calls : call[c].process = p /\ call[c].pc \in Connected}

\* The lock of this call's session is given back.
Freed(c) == [k \in Keys |-> IF holder[k] = c THEN NoCall ELSE holder[k]]

-----------------------------------------------------------------------------

Init ==
    /\ call \in [Calls -> {[pc |-> "made", user |-> u, process |-> p, before |-> NoCall,
                            no |-> 0, session |-> FALSE, passed |-> FALSE] :
                              u \in Users, p \in Processes}]
    /\ tail = [p \in Processes |-> [u \in Users |-> NoCall]]
    /\ holder = [k \in Keys |-> NoCall]
    /\ clock = 0
    /\ spent = [crashes |-> 0, drops |-> 0]

\* withUserLock: chained to the last call of this user in this process.
Enter(c) ==
    /\ Is(c, "made")
    /\ clock' = clock + 1
    /\ call' = [call EXCEPT ![c].pc = "waiting", ![c].no = clock,
                            ![c].before = tail[call[c].process][call[c].user]]
    /\ tail' = [tail EXCEPT ![call[c].process][call[c].user] = c]
    /\ UNCHANGED <<holder, spent>>

\* previous.then(locked, locked): whatever the call before it came to.
Start(c) ==
    /\ Is(c, "waiting")
    /\ BeforeSettled(c)
    /\ IF Distributed
       THEN Goto(c, "pool")
       ELSE call' = [call EXCEPT ![c].pc = "running", ![c].passed = TRUE]
    /\ UNCHANGED <<tail, holder, clock, spent>>

\* runner.connect, the time limit and the pg_advisory_lock query.
Connect(c) ==
    /\ Is(c, "pool")
    /\ Cardinality(InPool(call[c].process)) < PoolSize
    /\ call' = [call EXCEPT ![c].pc = "locking", ![c].session = TRUE]
    /\ UNCHANGED <<tail, holder, clock, spent>>

\* Postgres gives the lock to one of the sessions that wait for it.
Acquire(c) ==
    /\ Is(c, "locking")
    /\ holder[Key(c)] = NoCall
    /\ holder' = [holder EXCEPT ![Key(c)] = c]
    /\ call' = [call EXCEPT ![c].pc = "running", ![c].passed = TRUE]
    /\ UNCHANGED <<tail, clock, spent>>

\* Slip: a call that waited too long runs without the lock.
TimeoutGoesOn(c) ==
    /\ Is(c, "locking")
    /\ holder[Key(c)] # NoCall
    /\ call' = [call EXCEPT ![c].pc = "running", ![c].passed = TRUE]
    /\ UNCHANGED <<tail, holder, clock, spent>>

\* lock_timeout: the call is rejected and its work never runs.
Timeout(c) ==
    /\ Is(c, "locking")
    /\ holder[Key(c)] # NoCall
    /\ call' = [call EXCEPT ![c].pc = "settled", ![c].session = FALSE]
    /\ UNCHANGED <<tail, holder, clock, spent>>

\* The work ends or throws.
Finish(c) ==
    /\ Is(c, "running")
    /\ Goto(c, IF Distributed THEN "unlocking" ELSE "settled")
    /\ UNCHANGED <<tail, holder, clock, spent>>

\* Slip: the connection of a failed unlock goes back to the pool.
UnlockAndRelease(c) ==
    /\ Is(c, "unlocking")
    /\ call' = [call EXCEPT ![c].pc = "settled", ![c].session = FALSE]
    /\ holder' \in {Freed(c), holder}
    /\ UNCHANGED <<tail, clock, spent>>

\* pg_advisory_unlock, which can fail.
Unlock(c) ==
    /\ Is(c, "unlocking")
    /\ \/ /\ call[c].session
          /\ call' = [call EXCEPT ![c].pc = "settled", ![c].session = FALSE]
          /\ holder' = Freed(c)
       \/ /\ Goto(c, "closing")
          /\ UNCHANGED holder
    /\ UNCHANGED <<tail, clock, spent>>

\* AUD-020: a connection that may still hold the lock is closed.
Close(c) ==
    /\ Is(c, "closing")
    /\ call' = [call EXCEPT ![c].pc = "settled", ![c].session = FALSE]
    /\ holder' = Freed(c)
    /\ UNCHANGED <<tail, clock, spent>>

\* The callback on its tail, a microtask later: others can call in between.
Forget(c) ==
    /\ Is(c, "settled")
    /\ Goto(c, "gone")
    /\ tail' = Dropped(c)
    /\ UNCHANGED <<holder, clock, spent>>

\* A connection is lost and Postgres ends its session; a waiting query fails,
\* a running work does not notice.
LoseSession(c) ==
    /\ call[c].pc \in Connected /\ call[c].session
    /\ spent.drops < MaxDrops
    /\ spent' = [spent EXCEPT !.drops = @ + 1]
    /\ call' = [call EXCEPT ![c].session = FALSE,
                            ![c].pc = IF @ = "locking" THEN "settled" ELSE @]
    /\ holder' = Freed(c)
    /\ UNCHANGED <<tail, clock>>

\* A process dies: its calls are lost and its sessions end.
Crash(p) ==
    /\ \E c \in Calls : call[c].process = p /\ call[c].pc \in Pending
    /\ spent.crashes < MaxCrashes
    /\ spent' = [spent EXCEPT !.crashes = @ + 1]
    /\ call' = [c \in Calls |->
                  IF call[c].process = p /\ call[c].pc \in Pending \cup {"settled"}
                  THEN [call[c] EXCEPT !.pc = "dead", !.session = FALSE]
                  ELSE call[c]]
    /\ tail' = [tail EXCEPT ![p] = [u \in Users |-> NoCall]]
    /\ holder' = [k \in Keys |-> IF holder[k] # NoCall /\ call[holder[k]].process = p
                                 THEN NoCall ELSE holder[k]]
    /\ UNCHANGED clock

CallStep(c) ==
    \/ Start(c) \/ Connect(c) \/ Acquire(c) \/ Timeout(c) \/ Finish(c) \/ Unlock(c)
    \/ Close(c) \/ Forget(c)

Next ==
    \/ \E c \in Calls : Enter(c) \/ CallStep(c) \/ LoseSession(c)
    \/ \E p \in Processes : Crash(p)
    \/ /\ \A c \in Calls : call[c].pc \in {"gone", "dead"}
       /\ UNCHANGED vars

\* Every work ends, the pool and Postgres serve their queues in order, and a
\* wait for a lock ends with the lock or with its time limit.
Fairness == \A c \in Calls : SF_vars(CallStep(c))

Spec == Init /\ [][Next]_vars /\ Fairness

-----------------------------------------------------------------------------

\* One scheduling write at a time for a user, in all instances together.
MutualExclusion ==
    \A c, d \in Calls :
        Is(c, "running") /\ Is(d, "running") /\ call[c].user = call[d].user => c = d

\* Two scheduling writes of a user overlap only on Postgres, and only after the
\* lock session of one of them was cut off while it worked: never by a crash of
\* the other process, a failed unlock, a time limit or a shared key.
ExclusiveSessions ==
    \A c, d \in Calls :
        Is(c, "running") /\ Is(d, "running") /\ call[c].user = call[d].user /\ c # d
        => Distributed /\ ~(call[c].session /\ call[d].session)

\* In a process a user's work runs in the order of the calls, also behind a
\* call that failed, and also when a session is lost.
InCallOrder ==
    \A c, d \in Calls :
        /\ call[c].pc \in Pending /\ call[d].pc \in Pending
        /\ call[c].process = call[d].process /\ call[c].user = call[d].user
        /\ call[c].no < call[d].no
        => Is(d, "waiting")

\* The map of chains holds no call that is over, so it does not grow.
NoLeftoverChain ==
    \A p \in Processes, u \in Users :
        tail[p][u] # NoCall => call[tail[p][u]].pc \in Pending \cup {"settled"}

\* A lock is never left with a connection nobody will close (AUD-020).
LockComesBack == \A k \in Keys : []<>(holder[k] = NoCall)

\* Whatever waits for a connection or for another instance comes to an end:
\* holders of the pool never wait for it.
EveryCallEnds == \A c \in Calls : Is(c, "waiting") ~> call[c].pc \in {"gone", "dead"}

=============================================================================
