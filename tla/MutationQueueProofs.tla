------------------------ MODULE MutationQueueProofs ------------------------
(***************************************************************************)
(* Proofs about MutationQueue, for every set of jobs and flows and every   *)
(* bound on attempts and faults.                                           *)
(***************************************************************************)
EXTENDS MutationQueue, FiniteSets, FiniteSetTheorems, TLAPS

-----------------------------------------------------------------------------

\* A working flow works on a job; an idle one on none.
Working == \A w \in Flows : ~Idle(w) => flow[w].job \in Jobs

TypeInv == TypeOK /\ Working

\* The initial rows and flows are well typed.
LEMMA InitTypeInv == Init => TypeInv
<1> SUFFICES ASSUME Init PROVE TypeInv
  OBVIOUS
<1>1. \A k \in Kinds : NewRow(k) \in Row
  BY KindsAssumption DEF NewRow, Row, Status, AllKinds
<1>2. LegacyRow \in Row
  BY DEF LegacyRow, NewRow, Row, Status, AllKinds
<1>3. row \in [Jobs -> Row]
  BY <1>1, <1>2 DEF Init
<1>4. IdleFlow \in Flow
  BY DEF IdleFlow, Flow, PCs, Handling
<1>5. flow \in [Flows -> Flow]
  BY <1>4 DEF Init
<1>6. hist \in [Jobs -> Hist]
  BY DEF Init, NoHist, Hist
<1>7. Working
  BY DEF Working, Idle, Init, IdleFlow
<1> QED
  BY <1>3, <1>5, <1>6, <1>7 DEF TypeInv, TypeOK, Init

\* The rows that begin, retry and the finishers write are rows.
LEMMA RowUpdates ==
  ASSUME NEW r \in Row
  PROVE  /\ [r EXCEPT !.status = "pending", !.due = TRUE] \in Row
         /\ [r EXCEPT !.status = "pending", !.due = FALSE, !.lease = "null", !.stage = "progress"] \in Row
         /\ [r EXCEPT !.status = "running", !.attempts = 1, !.lease = "live"] \in Row
         /\ \A s \in Status, t \in {"progress", "done", "error"} :
              [r EXCEPT !.status = s, !.stage = t] \in Row
<1>1. [r EXCEPT !.status = "pending", !.due = TRUE] \in Row
  BY DEF Row, Status
<1>2. [r EXCEPT !.status = "pending", !.due = FALSE, !.lease = "null", !.stage = "progress"] \in Row
  BY DEF Row, Status
<1>3. [r EXCEPT !.status = "running", !.attempts = 1, !.lease = "live"] \in Row
  BY DEF Row, Status
<1>4. ASSUME NEW s \in Status, NEW t \in {"progress", "done", "error"}
      PROVE  [r EXCEPT !.status = s, !.stage = t] \in Row
  BY DEF Row
<1> QED
  BY <1>1, <1>2, <1>3, <1>4

\* Every action keeps rows, flows and history well typed.
LEMMA NextTypeInv == TypeInv /\ [Next]_vars => TypeInv'
<1> SUFFICES ASSUME TypeInv, [Next]_vars PROVE TypeInv'
  OBVIOUS
<1> USE DEF TypeInv, TypeOK, Working, Idle
<1> IdleFlow \in Flow /\ IdleFlow.pc = "idle"
  BY DEF IdleFlow, Flow, PCs, Handling
<1>a. ASSUME NEW w \in Flows, flow[w].job \in Jobs, NEW s \in Finished
      PROVE  (FencedFinish(w, s) => row' \in [Jobs -> Row] /\ hist' \in [Jobs -> Hist])
             /\ (UnfencedFinish(w, s) => row' \in [Jobs -> Row] /\ hist' \in [Jobs -> Hist])
  <2> DEFINE j == flow[w].job
             stage == IF s = "done" THEN "done" ELSE "error"
  <2>1. [row EXCEPT ![j].status = s, ![j].stage = stage] \in [Jobs -> Row]
    <3>1. [row[j] EXCEPT !.status = s, !.stage = stage] \in Row
      BY <1>a, RowUpdates DEF Status, Finished
    <3> QED
      BY <1>a, <3>1
  <2>2. [hist EXCEPT ![j].decider = flow[w].mine] \in [Jobs -> Hist]
    BY <1>a DEF Hist, Flow
  <2> QED
    BY <2>1, <2>2 DEF FencedFinish, UnfencedFinish, Decided, Finish
<1>1. ASSUME NEW j \in Jobs, Begin(j) PROVE TypeInv'
  <2>1. row' \in [Jobs -> Row]
    <3>1. [row[j] EXCEPT !.status = "pending", !.due = TRUE] \in Row
      BY RowUpdates
    <3> QED
      BY <1>1, <3>1 DEF Begin
  <2> QED
    BY <1>1, <2>1 DEF Begin
<1>2. ASSUME NEW j \in Jobs, LeaseRunsOut(j) PROVE TypeInv'
  BY <1>2 DEF LeaseRunsOut, Row
<1>3. ASSUME NEW j \in Jobs, BackoffEnds(j) PROVE TypeInv'
  BY <1>3 DEF BackoffEnds, Row
<1>4. ASSUME NEW j \in Jobs, FailLegacy(j) PROVE TypeInv'
  <2>1. row' \in [Jobs -> Row]
    <3>1. [row[j] EXCEPT !.status = "failed", !.stage = "error"] \in Row
      BY RowUpdates DEF Status
    <3> QED
      BY <1>4, <3>1 DEF FailLegacy, Finish
  <2> QED
    BY <1>4, <2>1 DEF FailLegacy
<1>5. ASSUME NEW j \in Jobs, Purge(j) PROVE TypeInv'
  BY <1>5 DEF Purge, Row, Status
<1>6. ASSUME NEW j \in Jobs, NEW w \in Flows, BeginInline(w, j) PROVE TypeInv'
  <2>1. row' \in [Jobs -> Row]
    <3>1. [row[j] EXCEPT !.status = "running", !.attempts = 1, !.lease = "live"] \in Row
      BY RowUpdates
    <3> QED
      BY <1>6, <3>1 DEF BeginInline
  <2>2. flow' \in [Flows -> Flow] /\ Working'
    BY <1>6 DEF BeginInline, Flow, PCs
  <2> QED
    BY <1>6, <2>1, <2>2 DEF BeginInline
<1>7. ASSUME NEW j \in Jobs, NEW w \in Flows, Claim(w, j) PROVE TypeInv'
  <2>1. row' \in [Jobs -> Row]
    BY <1>7 DEF Claim, Row, Status
  <2>2. flow' \in [Flows -> Flow] /\ Working'
    BY <1>7 DEF Claim, Flow, PCs, Row
  <2>3. hist' \in [Jobs -> Hist]
    BY <1>7 DEF Claim, Hist
  <2> QED
    BY <1>7, <2>1, <2>2, <2>3 DEF Claim
<1>8. ASSUME NEW w \in Flows, Read(w) PROVE TypeInv'
  <2> DEFINE j == flow[w].job
             next == IF row[j].kind \in {"inline", "unknown"} THEN "refuse"
                     ELSE IF row[j].kind = "sync" \/ row[j].placed THEN "sync"
                     ELSE "place"
  <2>1. flow[w].job \in Jobs /\ flow[w] \in Flow /\ row[j].attempts \in Nat
    BY <1>8 DEF Read, Row
  <2>2. next \in PCs /\ next # "idle"
    BY DEF PCs, Handling
  <2>3. [flow[w] EXCEPT !.pc = next, !.fence = row[j].attempts] \in Flow
    BY <2>1, <2>2 DEF Flow
  <2> HIDE DEF next
  <2>4. flow' \in [Flows -> Flow]
    BY <1>8, <2>3 DEF Read, Leave, next
  <2>5. Working'
    BY <1>8, <2>1, <2>2 DEF Read, Leave, Flow
  <2> QED
    BY <1>8, <2>4, <2>5 DEF Read
<1>9. ASSUME NEW w \in Flows, Refuse(w) PROVE TypeInv'
  BY <1>9, <1>a DEF Refuse, Leave, Finished
<1>10. ASSUME NEW w \in Flows, Place(w) PROVE TypeInv'
  <2>1. row' \in [Jobs -> Row]
    BY <1>10 DEF Place, SetStage, Row
  <2>2. flow' \in [Flows -> Flow] /\ Working'
    BY <1>10 DEF Place, Goto, Flow, PCs, Handling
  <2>3. hist' \in [Jobs -> Hist]
    BY <1>10 DEF Place, Hist
  <2> QED
    BY <1>10, <2>1, <2>2, <2>3 DEF Place
<1>11. ASSUME NEW w \in Flows, NothingToDo(w) PROVE TypeInv'
  BY <1>11 DEF NothingToDo, Goto, Flow, PCs, Handling
<1>12. ASSUME NEW w \in Flows, Mark(w) PROVE TypeInv'
  <2>1. flow[w].job \in Jobs
    BY <1>12 DEF Mark
  <2>2. row' \in [Jobs -> Row]
    BY <1>12, <2>1 DEF Mark, Row
  <2>3. flow' \in [Flows -> Flow] /\ Working'
    BY <1>12 DEF Mark, Goto, Flow, PCs, Handling
  <2> QED
    BY <1>12, <2>2, <2>3 DEF Mark
<1>13. ASSUME NEW w \in Flows, Sync(w) PROVE TypeInv'
  <2>1. row' \in [Jobs -> Row]
    BY <1>13 DEF Sync, SetStage, Row
  <2>2. flow' \in [Flows -> Flow] /\ Working'
    BY <1>13 DEF Sync, Goto, Flow, PCs, Handling
  <2> QED
    BY <1>13, <2>1, <2>2 DEF Sync
<1>14. ASSUME NEW w \in Flows, MoveFinish(w) PROVE TypeInv'
  <2>1. flow' \in [Flows -> Flow] /\ Working'
    BY <1>14 DEF MoveFinish, Goto, Flow, PCs, Handling
  <2> QED
    BY <1>14, <1>a, <2>1 DEF MoveFinish, Finished
<1>15. ASSUME NEW w \in Flows, ReadAgain(w) PROVE TypeInv'
  BY <1>15 DEF ReadAgain, Leave, Goto, Flow, PCs, Handling
<1>16. ASSUME NEW w \in Flows, Complete(w) PROVE TypeInv'
  BY <1>16, <1>a DEF Complete, Leave, Finished
<1>17. ASSUME NEW w \in Flows, NEW refused \in BOOLEAN, FailOrRetry(w, refused)
       PROVE  TypeInv'
  <2>1. flow[w].job \in Jobs
    BY <1>17 DEF FailOrRetry, Handling
  <2>2. FencedRetry(w) => row' \in [Jobs -> Row] /\ hist' \in [Jobs -> Hist]
    <3> DEFINE j == flow[w].job
    <3>1. [row[j] EXCEPT !.status = "pending", !.due = FALSE,
                         !.lease = "null", !.stage = "progress"] \in Row
      BY <2>1, RowUpdates
    <3>2. \A n \in Nat : [hist[j] EXCEPT !.lostMarks = n] \in Hist
      BY <2>1 DEF Hist
    <3>3. hist[j].lostMarks \in Nat
      BY <2>1 DEF Hist
    <3>4. [row EXCEPT ![j].status = "pending", ![j].due = FALSE,
                     ![j].lease = "null", ![j].stage = "progress"] \in [Jobs -> Row]
      BY <2>1, <3>1
    <3>5. \A n \in Nat : [hist EXCEPT ![j].lostMarks = n] \in [Jobs -> Hist]
      BY <2>1, <3>2
    <3>6. (IF flow[w].pc = "mark" THEN hist[j].lostMarks + 1
           ELSE hist[j].lostMarks) \in Nat
      BY <3>3
    <3>7. CASE Owns(j, flow[w].fence)
      BY <3>4, <3>5, <3>6, <3>7 DEF FencedRetry
    <3>8. CASE ~Owns(j, flow[w].fence)
      BY <3>8 DEF FencedRetry
    <3> QED
      BY <3>7, <3>8
  <2> QED
    BY <1>17, <1>a, <2>1, <2>2 DEF FailOrRetry, Leave, Finished
<1>18. ASSUME NEW w \in Flows, InlineFinish(w) PROVE TypeInv'
  BY <1>18, <1>a DEF InlineFinish, Leave, Finished
<1>19. ASSUME NEW w \in Flows, InlineThrow(w) PROVE TypeInv'
  BY <1>19 DEF InlineThrow, Leave
<1>20. ASSUME NEW w \in Flows, Heartbeat(w) PROVE TypeInv'
  BY <1>20 DEF Heartbeat, Row
<1>21. ASSUME NEW w \in Flows, Crash(w) PROVE TypeInv'
  BY <1>21 DEF Crash, Leave
<1>22. CASE UNCHANGED vars
  BY <1>22 DEF vars
<1> QED
  BY <1>1, <1>2, <1>3, <1>4, <1>5, <1>6, <1>7, <1>8, <1>9, <1>10, <1>11, <1>12, <1>13,
     <1>14, <1>15, <1>16, <1>17, <1>18, <1>19, <1>20, <1>21, <1>22 DEF Next, FlowStep

\* The table, the flows and the history stay well typed.
THEOREM TypeCorrect == Spec => []TypeOK
<1>1. Init => TypeInv
  BY InitTypeInv
<1>2. TypeInv /\ [Next]_vars => TypeInv'
  BY NextTypeInv
<1>3. TypeInv => TypeOK
  BY DEF TypeInv
<1> QED
  BY <1>1, <1>2, <1>3, PTL DEF Spec

-----------------------------------------------------------------------------

\* What holds of one row at every moment.
Sound(j) ==
    /\ row[j].status = "absent" => row[j].attempts = 0 /\ row[j].stage = "progress"
    /\ row[j].status = "pending" => row[j].attempts < MaxAttempts /\ row[j].stage = "progress"
    /\ row[j].status = "running" => row[j].lease # "null" /\ row[j].stage = "progress"
    /\ row[j].status = "done" => row[j].stage = "done"
    /\ row[j].status = "failed" => row[j].stage = "error"
    /\ row[j].attempts <= MaxAttempts + hist[j].takeovers

RowsSound == \A j \in Jobs : Sound(j)

LEMMA InitRowsSound == Init => RowsSound
<1> SUFFICES ASSUME Init, NEW j \in Jobs PROVE Sound(j)
  BY DEF RowsSound
<1>1. row[j].status \in {"absent", "pending"} /\ row[j].stage = "progress"
      /\ row[j].attempts = 0
  <2>1. \A k \in Kinds : NewRow(k).status = "absent" /\ NewRow(k).stage = "progress"
                         /\ NewRow(k).attempts = 0
    BY DEF NewRow
  <2>2. LegacyRow.status = "pending" /\ LegacyRow.stage = "progress" /\ LegacyRow.attempts = 0
    BY DEF LegacyRow, NewRow
  <2>3. (\E k \in Kinds : row[j] = NewRow(k)) \/ row[j] = LegacyRow
    BY DEF Init
  <2> QED
    BY <2>1, <2>2, <2>3
<1>2. hist[j].takeovers = 0
  BY DEF Init, NoHist
<1> QED
  BY <1>1, <1>2, AttemptsAssumption DEF Sound

LEMMA NextRowsSound == TypeInv /\ RowsSound /\ [Next]_vars => RowsSound'
<1> SUFFICES ASSUME TypeInv, RowsSound, [Next]_vars PROVE RowsSound'
  OBVIOUS
<1> USE AttemptsAssumption
<1>t. /\ row \in [Jobs -> Row] /\ hist \in [Jobs -> Hist] /\ flow \in [Flows -> Flow]
      /\ \A w \in Flows : flow[w].pc # "idle" => flow[w].job \in Jobs
  BY DEF TypeInv, TypeOK, Working, Idle
<1>n. \A k \in Jobs : row[k].attempts \in Nat /\ hist[k].takeovers \in Nat
  BY <1>t DEF Row, Hist
<1>1. ASSUME NEW j \in Jobs, Begin(j) PROVE RowsSound'
  BY <1>1, <1>t, <1>n DEF Begin, RowsSound, Sound
<1>2. ASSUME NEW j \in Jobs, LeaseRunsOut(j) PROVE RowsSound'
  BY <1>2, <1>t DEF LeaseRunsOut, RowsSound, Sound
<1>3. ASSUME NEW j \in Jobs, BackoffEnds(j) PROVE RowsSound'
  BY <1>3, <1>t DEF BackoffEnds, RowsSound, Sound
<1>4. ASSUME NEW j \in Jobs, FailLegacy(j) PROVE RowsSound'
  BY <1>4, <1>t DEF FailLegacy, Finish, RowsSound, Sound
<1>5. ASSUME NEW j \in Jobs, Purge(j) PROVE RowsSound'
  BY <1>5, <1>t DEF Purge, RowsSound, Sound
<1>6. ASSUME NEW j \in Jobs, NEW w \in Flows, BeginInline(w, j) PROVE RowsSound'
  BY <1>6, <1>t, <1>n DEF BeginInline, RowsSound, Sound
<1>7. ASSUME NEW j \in Jobs, NEW w \in Flows, Claim(w, j) PROVE RowsSound'
  BY <1>7, <1>t, <1>n DEF Claim, Due, Orphaned, RowsSound, Sound, Row, Hist
<1>8. ASSUME NEW w \in Flows, flow[w].job \in Jobs, NEW s \in Finished,
             FencedFinish(w, s) \/ UnfencedFinish(w, s)
      PROVE  RowsSound'
  BY <1>8, <1>t, <1>n DEF FencedFinish, UnfencedFinish, Decided, Finish, Finished, RowsSound, Sound, Row, Hist
<1>9. ASSUME NEW w \in Flows, NEW refused \in BOOLEAN, FailOrRetry(w, refused)
      PROVE  RowsSound'
  BY <1>9, <1>8, <1>t, <1>n DEF FailOrRetry, FencedRetry, Owns, Handling, Finished, RowsSound, Sound, Row, Hist
<1>10. ASSUME NEW w \in Flows, Refuse(w) \/ MoveFinish(w) \/ Complete(w) \/ InlineFinish(w)
       PROVE  RowsSound'
  BY <1>10, <1>8, <1>t DEF Refuse, MoveFinish, Complete, InlineFinish, Finished
<1>11. ASSUME NEW w \in Flows, Place(w) \/ Sync(w) PROVE RowsSound'
  <2> DEFINE j == flow[w].job
  <2>1. j \in Jobs
    BY <1>11, <1>t DEF Place, Sync
  <2>2. SetStage(j)
    BY <1>11 DEF Place, Sync
  <2>3. \A k \in Jobs : /\ row'[k].status = row[k].status
                        /\ row'[k].attempts = row[k].attempts
                        /\ row'[k].lease = row[k].lease
                        /\ \/ row'[k].stage = row[k].stage
                           \/ row[k].status = "running" /\ row'[k].stage = "progress"
    BY <2>1, <2>2, <1>t DEF SetStage, Row
  <2>4. \A k \in Jobs : hist'[k].takeovers = hist[k].takeovers
    BY <1>11, <2>1, <1>t DEF Place, Sync, Hist
  <2> QED
    BY <2>3, <2>4 DEF RowsSound, Sound
<1>12. ASSUME NEW w \in Flows, Mark(w) \/ Heartbeat(w) PROVE RowsSound'
  BY <1>12, <1>t DEF Mark, Heartbeat, Owns, Handling, RowsSound, Sound, Row
<1>13. CASE UNCHANGED <<row, hist>>
  BY <1>13 DEF RowsSound, Sound
<1> QED
  BY <1>1, <1>2, <1>3, <1>4, <1>5, <1>6, <1>7, <1>9, <1>10, <1>11, <1>12, <1>13
  DEF Next, FlowStep, vars, Read, NothingToDo, ReadAgain, InlineThrow, Crash

\* Every row is sound in every reachable state.
LEMMA AlwaysSound == Spec => [](TypeInv /\ RowsSound)
<1>1. Init => TypeInv /\ RowsSound
  BY InitTypeInv, InitRowsSound
<1>2. TypeInv /\ RowsSound /\ [Next]_vars => (TypeInv /\ RowsSound)'
  BY NextTypeInv, NextRowsSound
<1> QED
  BY <1>1, <1>2, PTL DEF Spec

\* However many jobs, flows, crashes and lost leases: a running row always
\* carries a lease and a pending one an attempt, so no job is stranded, and
\* the stage a client polls is final exactly when the status is.
THEOREM NothingStranded == Spec => []NotStranded
<1>1. RowsSound => NotStranded
  BY DEF RowsSound, Sound, NotStranded
<1> QED
  BY <1>1, AlwaysSound, PTL

\* A job runs at most MaxAttempts times, plus once per lease taken over.
THEOREM BoundedAttempts == Spec => []AttemptsBounded
<1>1. RowsSound => AttemptsBounded
  BY DEF RowsSound, Sound, AttemptsBounded
<1> QED
  BY <1>1, AlwaysSound, PTL

-----------------------------------------------------------------------------

\* Claims of one job carry distinct attempt numbers, none above the row's.
DistinctClaims ==
    /\ \A w \in Flows :
         flow[w].pc # "idle" => 1 <= flow[w].mine /\ flow[w].mine <= row[flow[w].job].attempts
    /\ \A v, w \in Flows :
         /\ flow[v].pc # "idle" /\ flow[w].pc # "idle"
         /\ flow[v].job = flow[w].job /\ flow[v].mine = flow[w].mine
         => v = w

\* Between claim and read nobody else can claim the job or put it back, so
\* the attempt number that is read is the one the claim wrote.
FenceIsMine ==
    /\ \A w \in Flows : flow[w].pc \notin {"idle", "claimed"} => flow[w].fence = flow[w].mine
    /\ \A w \in Flows :
         flow[w].pc = "claimed" =>
            LET r == row[flow[w].job]
            IN  /\ flow[w].mine = r.attempts
                /\ \/ r.status = "running" /\ r.lease = "live"
                   \/ r.status \in Finished \cup {"purged"}

ClaimInv == DistinctClaims /\ FenceIsMine

LEMMA InitClaimInv == Init => ClaimInv
  BY DEF Init, IdleFlow, ClaimInv, DistinctClaims, FenceIsMine

\* With no lease lost between claim and read, the fence of every flow is the
\* number of its own claim.
LEMMA NextClaimInv ==
  ASSUME SlowRead = FALSE, TypeInv, RowsSound, ClaimInv, [Next]_vars
  PROVE  ClaimInv'
<1> USE DEF ClaimInv
<1>t. /\ row \in [Jobs -> Row] /\ flow \in [Flows -> Flow]
      /\ \A w \in Flows : flow[w].pc # "idle" => flow[w].job \in Jobs
  BY DEF TypeInv, TypeOK, Working, Idle
<1>n. /\ \A k \in Jobs : row[k].attempts \in Nat
      /\ \A w \in Flows : flow[w].mine \in Nat /\ flow[w].fence \in Nat
  BY <1>t DEF Row, Flow
<1>f. ASSUME flow' = flow,
             \A k \in Jobs : row'[k].attempts = row[k].attempts
      PROVE  DistinctClaims'
  BY <1>f, <1>t DEF DistinctClaims
<1>l. ASSUME NEW w \in Flows, Leave(w) \/ (\E pc \in Handling : flow[w].pc # "idle" /\ Goto(w, pc)),
             \A k \in Jobs : row'[k].attempts = row[k].attempts
      PROVE  DistinctClaims'
  BY <1>l, <1>t DEF Leave, Goto, IdleFlow, DistinctClaims, Flow
\* No flow between claim and read sees a pending or an absent row.
<1>p. \A w \in Flows : flow[w].pc = "claimed" => row[flow[w].job].status \notin {"absent", "pending"}
  BY DEF FenceIsMine, Finished
<1>1. ASSUME NEW j \in Jobs, Begin(j) PROVE ClaimInv'
  <2>1. FenceIsMine'
    BY <1>1, <1>t, <1>p DEF Begin, FenceIsMine
  <2> QED
    BY <1>1, <1>f, <1>t, <2>1 DEF Begin, Row
<1>2. ASSUME NEW j \in Jobs, LeaseRunsOut(j) PROVE ClaimInv'
  <2>1. \A w \in Flows : flow[w].pc = "claimed" => flow[w].job # j
    BY <1>2, <1>t DEF LeaseRunsOut, HasLiveOwner, Idle, FenceIsMine
  <2>2. FenceIsMine'
    BY <1>2, <2>1, <1>t DEF LeaseRunsOut, FenceIsMine
  <2> QED
    BY <1>2, <1>f, <1>t, <2>2 DEF LeaseRunsOut, Row
<1>3. ASSUME NEW j \in Jobs, BackoffEnds(j) PROVE ClaimInv'
  <2>1. FenceIsMine'
    BY <1>3, <1>t, <1>p DEF BackoffEnds, FenceIsMine
  <2> QED
    BY <1>3, <1>f, <1>t, <2>1 DEF BackoffEnds, Row
<1>4. ASSUME NEW j \in Jobs, FailLegacy(j) PROVE ClaimInv'
  <2>1. FenceIsMine'
    BY <1>4, <1>t, <1>p DEF FailLegacy, Finish, Finished, FenceIsMine
  <2> QED
    BY <1>4, <1>f, <1>t, <2>1 DEF FailLegacy, Finish, Row
<1>5. ASSUME NEW j \in Jobs, Purge(j) PROVE ClaimInv'
  <2>1. FenceIsMine'
    BY <1>5, <1>t DEF Purge, FenceIsMine
  <2> QED
    BY <1>5, <1>f, <1>t, <2>1 DEF Purge, Row
<1>6. ASSUME NEW j \in Jobs, NEW w \in Flows, BeginInline(w, j) PROVE ClaimInv'
  <2>1. \A v \in Flows : flow[v].pc # "idle" => flow[v].job # j
    BY <1>6, <1>t, <1>n DEF BeginInline, RowsSound, Sound, DistinctClaims
  <2>2. row'[j].attempts = 1 /\ \A k \in Jobs \ {j} : row'[k] = row[k]
    BY <1>6, <1>t DEF BeginInline, Row
  <2>3. /\ flow'[w] = [pc |-> "inline", job |-> j, mine |-> 1, fence |-> 1]
        /\ \A v \in Flows \ {w} : flow'[v] = flow[v]
    BY <1>6, <1>t DEF BeginInline
  <2>4. DistinctClaims'
    BY <2>1, <2>2, <2>3, <1>t DEF DistinctClaims
  <2>5. FenceIsMine'
    BY <2>1, <2>2, <2>3, <1>t DEF FenceIsMine
  <2> QED
    BY <2>4, <2>5
<1>7. ASSUME NEW j \in Jobs, NEW w \in Flows, Claim(w, j) PROVE ClaimInv'
  <2>1. \A v \in Flows : flow[v].pc = "claimed" => flow[v].job # j
    BY <1>7, <1>t, <1>p DEF Claim, Due, Orphaned, FenceIsMine, Finished
  <2>2. /\ row'[j].attempts = row[j].attempts + 1
        /\ row'[j].status = "running" /\ row'[j].lease = "live"
        /\ \A k \in Jobs \ {j} : row'[k] = row[k]
    BY <1>7, <1>t DEF Claim, Row
  <2>3. /\ flow'[w] = [pc |-> "claimed", job |-> j, mine |-> row[j].attempts + 1, fence |-> 0]
        /\ \A v \in Flows \ {w} : flow'[v] = flow[v]
    BY <1>7, <1>t DEF Claim
  <2>4. DistinctClaims'
    BY <2>2, <2>3, <1>t, <1>n DEF DistinctClaims
  <2>5. FenceIsMine'
    BY <2>1, <2>2, <2>3, <1>t DEF FenceIsMine
  <2> QED
    BY <2>4, <2>5
<1>8. ASSUME NEW w \in Flows, Read(w) PROVE ClaimInv'
  <2> DEFINE j == flow[w].job
             next == IF row[j].kind \in {"inline", "unknown"} THEN "refuse"
                     ELSE IF row[j].kind = "sync" \/ row[j].placed THEN "sync"
                     ELSE "place"
  <2>1. flow[w].pc = "claimed" /\ flow[w].mine = row[j].attempts /\ row' = row
    BY <1>8 DEF Read, FenceIsMine
  <2>2. next \notin {"idle", "claimed"}
    OBVIOUS
  <2> HIDE DEF next
  <2>3. \/ flow' = [flow EXCEPT ![w] = IdleFlow]
        \/ flow' = [flow EXCEPT ![w].pc = next, ![w].fence = row[j].attempts]
    BY <1>8 DEF Read, Leave, next
  <2>4. \/ flow'[w].pc = "idle"
        \/ /\ flow'[w].pc = next /\ flow'[w].job = j
           /\ flow'[w].mine = flow[w].mine /\ flow'[w].fence = row[j].attempts
    BY <2>3, <1>t DEF IdleFlow, Flow
  <2>5. \A v \in Flows \ {w} : flow'[v] = flow[v]
    BY <2>3, <1>t
  <2>6. DistinctClaims'
    BY <2>1, <2>4, <2>5 DEF DistinctClaims
  <2>7. FenceIsMine'
    BY <2>1, <2>2, <2>4, <2>5 DEF FenceIsMine
  <2> QED
    BY <2>6, <2>7
<1>9. ASSUME NEW w \in Flows, flow[w].pc \notin {"idle", "claimed"},
             NEW s \in Finished, FencedFinish(w, s) \/ UnfencedFinish(w, s),
             Leave(w) \/ Goto(w, "returned")
      PROVE  ClaimInv'
  <2> DEFINE j == flow[w].job
  <2>1. \A k \in Jobs : /\ row'[k].attempts = row[k].attempts
                        /\ row'[k].lease = row[k].lease
                        /\ row'[k].status = row[k].status \/ row'[k].status \in Finished
    BY <1>9, <1>t DEF FencedFinish, UnfencedFinish, Decided, Finish, Row
  <2>2. DistinctClaims'
    BY <1>9, <1>l, <2>1 DEF Handling
  <2>3. \A v \in Flows : \/ flow'[v] = flow[v]
                        \/ flow'[v].pc = "idle"
                        \/ /\ flow[v].pc \notin {"idle", "claimed"}
                           /\ flow'[v].pc = "returned"
                           /\ flow'[v].mine = flow[v].mine /\ flow'[v].fence = flow[v].fence
    BY <1>9, <1>t DEF Leave, Goto, IdleFlow, Flow
  <2>4. FenceIsMine'
    BY <2>1, <2>3, <1>t DEF FenceIsMine, Finished
  <2> QED
    BY <2>2, <2>4
<1>10. ASSUME NEW w \in Flows, Refuse(w) \/ MoveFinish(w) \/ Complete(w) \/ InlineFinish(w)
       PROVE  ClaimInv'
  BY <1>10, <1>9 DEF Refuse, MoveFinish, Complete, InlineFinish, Finished
<1>11. ASSUME NEW w \in Flows, NEW refused \in BOOLEAN, FailOrRetry(w, refused)
       PROVE  ClaimInv'
  <2>1. flow[w].pc \notin {"idle", "claimed"} /\ flow[w].job \in Jobs /\ Leave(w)
    BY <1>11, <1>t DEF FailOrRetry, Handling
  <2>2. CASE FencedFinish(w, "failed")
    BY <1>9, <2>1, <2>2 DEF Finished
  <2>3. CASE FencedRetry(w)
    <3> DEFINE j == flow[w].job
    <3>1. \A k \in Jobs : row'[k].attempts = row[k].attempts
      BY <2>1, <2>3, <1>t DEF FencedRetry, Row
    <3>2. row' = row \/ (Owns(j, flow[w].mine) /\ \A k \in Jobs \ {j} : row'[k] = row[k])
      BY <2>1, <2>3, <1>t DEF FencedRetry, FenceIsMine
    <3>3. row' = row \/ (\A v \in Flows : flow[v].pc = "claimed" => flow[v].job # j)
      BY <2>1, <3>2, <1>t DEF Owns, FenceIsMine, DistinctClaims
    <3>4. \A v \in Flows : flow'[v] = flow[v] \/ flow'[v].pc = "idle"
      BY <2>1, <1>t DEF Leave, IdleFlow
    <3>5. FenceIsMine'
      BY <3>2, <3>3, <3>4, <1>t DEF FenceIsMine
    <3> QED
      BY <1>l, <2>1, <3>1, <3>5
  <2> QED
    BY <1>11, <2>2, <2>3 DEF FailOrRetry
<1>12. ASSUME NEW w \in Flows, flow[w].pc \in Handling,
              Leave(w) \/ \E pc \in Handling : Goto(w, pc),
              \A k \in Jobs : /\ row'[k].attempts = row[k].attempts
                             /\ row'[k].lease = row[k].lease
                             /\ row'[k].status = row[k].status
       PROVE  ClaimInv'
  <2>1. DistinctClaims'
    BY <1>12, <1>l DEF Handling
  <2>2. \A v \in Flows : \/ flow'[v] = flow[v]
                        \/ flow'[v].pc = "idle"
                        \/ /\ flow[v].pc \in Handling /\ flow'[v].pc \in Handling
                           /\ flow'[v].mine = flow[v].mine /\ flow'[v].fence = flow[v].fence
    BY <1>12, <1>t DEF Leave, Goto, IdleFlow, Flow
  <2>3. FenceIsMine'
    BY <1>12, <2>2, <1>t DEF FenceIsMine, Handling
  <2> QED
    BY <2>1, <2>3
<1>13. ASSUME NEW w \in Flows, Place(w) \/ Sync(w) PROVE ClaimInv'
  <2>1. flow[w].job \in Jobs /\ SetStage(flow[w].job)
    BY <1>13, <1>t DEF Place, Sync
  <2>2. \A k \in Jobs : /\ row'[k].attempts = row[k].attempts
                        /\ row'[k].lease = row[k].lease
                        /\ row'[k].status = row[k].status
    BY <2>1, <1>t DEF SetStage, Row
  <2> QED
    BY <1>12, <1>13, <2>2 DEF Place, Sync, Handling
<1>14. ASSUME NEW w \in Flows, Mark(w) PROVE ClaimInv'
  <2>1. flow[w].job \in Jobs
    BY <1>14, <1>t DEF Mark
  <2>2. \A k \in Jobs : /\ row'[k].attempts = row[k].attempts
                        /\ row'[k].lease = row[k].lease
                        /\ row'[k].status = row[k].status
    BY <1>14, <2>1, <1>t DEF Mark, Row
  <2> QED
    BY <1>12, <1>14, <2>2 DEF Mark, Handling
<1>15. ASSUME NEW w \in Flows, NothingToDo(w) \/ ReadAgain(w) PROVE ClaimInv'
  BY <1>12, <1>15 DEF NothingToDo, ReadAgain, Handling
<1>16. ASSUME NEW w \in Flows, Heartbeat(w) PROVE ClaimInv'
  <2>1. flow[w].job \in Jobs
    BY <1>16, <1>t DEF Heartbeat, Handling
  <2>2. FenceIsMine'
    BY <1>16, <2>1, <1>t DEF Heartbeat, FenceIsMine
  <2> QED
    BY <1>16, <1>f, <2>1, <2>2, <1>t DEF Heartbeat, Row
<1>17. ASSUME NEW w \in Flows, InlineThrow(w) \/ Crash(w) PROVE ClaimInv'
  <2>1. row' = row /\ Leave(w)
    BY <1>17 DEF InlineThrow, Crash
  <2>2. FenceIsMine'
    BY <2>1, <1>t DEF Leave, IdleFlow, FenceIsMine
  <2> QED
    BY <1>l, <2>1, <2>2
<1>18. CASE UNCHANGED vars
  BY <1>18 DEF vars, DistinctClaims, FenceIsMine
<1> QED
  BY <1>1, <1>2, <1>3, <1>4, <1>5, <1>6, <1>7, <1>8, <1>10, <1>11, <1>13, <1>14, <1>15,
     <1>16, <1>17, <1>18 DEF Next, FlowStep

\* Two flows never work on the same attempt of a job, whatever crashes, lost
\* leases and takeovers happen, provided no lease runs out in the moment
\* between a claim and the read that follows it.
THEOREM OneOwner ==
  ASSUME SlowRead = FALSE
  PROVE  Spec => []SoleOwner
<1>1. Init => TypeInv /\ RowsSound /\ ClaimInv
  BY InitTypeInv, InitRowsSound, InitClaimInv
<1>2. TypeInv /\ RowsSound /\ ClaimInv /\ [Next]_vars
        => (TypeInv /\ RowsSound /\ ClaimInv)'
  BY NextTypeInv, NextRowsSound, NextClaimInv
<1>3. ClaimInv => SoleOwner
  BY DEF ClaimInv, DistinctClaims, FenceIsMine, SoleOwner, Handling
<1> QED
  BY <1>1, <1>2, <1>3, PTL DEF Spec

-----------------------------------------------------------------------------

\* Only a request's own flow works inline, and only on an inline job.
InlineOnInline ==
    \A w \in Flows : flow[w].pc = "inline" => row[flow[w].job].kind = "inline"

OutcomeInv == InlineOnInline /\ OutcomeOfLatestClaim

LEMMA InitOutcomeInv == Init => OutcomeInv
<1> SUFFICES ASSUME Init PROVE OutcomeInv
  OBVIOUS
<1>1. \A j \in Jobs : row[j].status \notin Finished
  <2>1. \A k \in Kinds : NewRow(k).status = "absent"
    BY DEF NewRow
  <2>2. LegacyRow.status = "pending"
    BY DEF LegacyRow, NewRow
  <2> QED
    BY <2>1, <2>2 DEF Init, Finished
<1> QED
  BY <1>1 DEF Init, IdleFlow, OutcomeInv, InlineOnInline, OutcomeOfLatestClaim, Fenced

\* The final status of a fenced job is only ever written under its fence.
LEMMA NextOutcomeInv ==
  ASSUME TypeInv, FenceIsMine, OutcomeInv, [Next]_vars
  PROVE  OutcomeInv'
<1> USE DEF OutcomeInv
<1>t. /\ row \in [Jobs -> Row] /\ flow \in [Flows -> Flow] /\ hist \in [Jobs -> Hist]
      /\ \A w \in Flows : flow[w].pc # "idle" => flow[w].job \in Jobs
  BY DEF TypeInv, TypeOK, Working, Idle
\* A step that decides nothing: no row becomes finished, no finished row moves.
<1>u. ASSUME \A k \in Jobs : /\ row'[k].kind = row[k].kind
                             /\ row'[k].status \in Finished =>
                                  /\ row[k].status \in Finished
                                  /\ row'[k].attempts = row[k].attempts
                                  /\ hist'[k].decider = hist[k].decider
      PROVE  OutcomeOfLatestClaim'
  BY <1>u DEF OutcomeOfLatestClaim, Fenced
<1>i. ASSUME \A k \in Jobs : row'[k].kind = row[k].kind,
             \A v \in Flows : flow'[v].pc = "inline" => flow'[v] = flow[v]
      PROVE  InlineOnInline'
  BY <1>i, <1>t DEF InlineOnInline
<1>k. ASSUME NEW w \in Flows, Leave(w) \/ \E pc \in Handling : Goto(w, pc)
      PROVE  \A v \in Flows : flow'[v].pc = "inline" => flow'[v] = flow[v]
  BY <1>k, <1>t DEF Leave, Goto, IdleFlow, Flow, Handling
<1>1. ASSUME NEW j \in Jobs, Begin(j) \/ LeaseRunsOut(j) \/ BackoffEnds(j) \/ Purge(j)
      PROVE  OutcomeInv'
  <2>1. \A k \in Jobs : /\ row'[k].kind = row[k].kind
                        /\ row'[k].status \in Finished =>
                             /\ row[k].status \in Finished
                             /\ row'[k].attempts = row[k].attempts
    BY <1>1, <1>t DEF Begin, LeaseRunsOut, BackoffEnds, Purge, Finished, Row
  <2> QED
    BY <1>1, <1>u, <1>i, <2>1 DEF Begin, LeaseRunsOut, BackoffEnds, Purge
<1>2. ASSUME NEW j \in Jobs, FailLegacy(j) PROVE OutcomeInv'
  <2>1. \A k \in Jobs : /\ row'[k].kind = row[k].kind
                        /\ row'[k].attempts = row[k].attempts
                        /\ row'[k].status = row[k].status \/ row[k].kind = "legacy"
    BY <1>2, <1>t DEF FailLegacy, Finish, Row
  <2> QED
    BY <1>2, <1>i, <2>1 DEF FailLegacy, OutcomeOfLatestClaim, Fenced
<1>3. ASSUME NEW j \in Jobs, NEW w \in Flows, BeginInline(w, j) PROVE OutcomeInv'
  <2>1. \A k \in Jobs : /\ row'[k].kind = row[k].kind
                        /\ row'[k].status \in Finished => row'[k] = row[k]
    BY <1>3, <1>t DEF BeginInline, Finished, Row
  <2>2. InlineOnInline'
    BY <1>3, <2>1, <1>t DEF BeginInline, InlineOnInline
  <2> QED
    BY <1>3, <1>u, <2>1, <2>2 DEF BeginInline
<1>4. ASSUME NEW j \in Jobs, NEW w \in Flows, Claim(w, j) PROVE OutcomeInv'
  <2>1. \A k \in Jobs : /\ row'[k].kind = row[k].kind
                        /\ row'[k].status \in Finished => row'[k] = row[k] /\ k # j
    BY <1>4, <1>t DEF Claim, Finished, Row
  <2>2. \A k \in Jobs \ {j} : hist'[k] = hist[k]
    BY <1>4, <1>t DEF Claim
  <2>3. \A v \in Flows : flow'[v].pc = "inline" => flow'[v] = flow[v]
    BY <1>4, <1>t DEF Claim
  <2> QED
    BY <1>u, <1>i, <2>1, <2>2, <2>3
<1>5. ASSUME NEW w \in Flows, flow[w].job \in Jobs, flow[w].pc \notin {"idle", "claimed"},
             NEW s \in Finished, FencedFinish(w, s)
      PROVE  /\ \A k \in Jobs : row'[k].kind = row[k].kind
             /\ OutcomeOfLatestClaim'
  <2> DEFINE j == flow[w].job
  <2>1. CASE row' = row /\ hist' = hist
    BY <2>1 DEF OutcomeOfLatestClaim, Fenced
  <2>2. CASE Owns(j, flow[w].fence) /\ Decided(w, s)
    <3>1. /\ row'[j].kind = row[j].kind /\ row'[j].attempts = flow[w].fence
          /\ \A k \in Jobs \ {j} : row'[k] = row[k]
      BY <1>5, <2>2, <1>t DEF Owns, Decided, Finish, Row
    <3>2. /\ hist'[j].decider = flow[w].mine
          /\ \A k \in Jobs \ {j} : hist'[k] = hist[k]
      BY <1>5, <2>2, <1>t DEF Decided, Hist
    <3>3. flow[w].fence = flow[w].mine
      BY <1>5 DEF FenceIsMine
    <3> QED
      BY <3>1, <3>2, <3>3 DEF OutcomeOfLatestClaim, Fenced
  <2> QED
    BY <1>5, <2>1, <2>2 DEF FencedFinish
<1>6. ASSUME NEW w \in Flows, flow[w].job \in Jobs, NEW s \in Finished,
             UnfencedFinish(w, s), row[flow[w].job].kind \in {"move", "inline"}
      PROVE  /\ \A k \in Jobs : row'[k].kind = row[k].kind
             /\ OutcomeOfLatestClaim'
  <2> DEFINE j == flow[w].job
  <2>1. CASE row' = row /\ hist' = hist
    BY <2>1 DEF OutcomeOfLatestClaim, Fenced
  <2>2. CASE Decided(w, s)
    <3>1. /\ row'[j].kind = row[j].kind
          /\ \A k \in Jobs \ {j} : row'[k] = row[k]
      BY <1>6, <2>2, <1>t DEF Decided, Finish, Row
    <3>2. \A k \in Jobs \ {j} : hist'[k] = hist[k]
      BY <1>6, <2>2, <1>t DEF Decided
    <3> QED
      BY <1>6, <3>1, <3>2 DEF OutcomeOfLatestClaim, Fenced
  <2> QED
    BY <1>6, <2>1, <2>2 DEF UnfencedFinish
<1>7. ASSUME NEW w \in Flows, Refuse(w) \/ Complete(w) PROVE OutcomeInv'
  BY <1>7, <1>5, <1>i, <1>k, <1>t DEF Refuse, Complete, Finished
<1>8. ASSUME NEW w \in Flows, MoveFinish(w) PROVE OutcomeInv'
  BY <1>8, <1>6, <1>i, <1>k, <1>t DEF MoveFinish, Finished, Handling
<1>9. ASSUME NEW w \in Flows, InlineFinish(w) PROVE OutcomeInv'
  BY <1>9, <1>6, <1>i, <1>k, <1>t DEF InlineFinish, Finished, InlineOnInline
<1>10. ASSUME NEW w \in Flows, NEW refused \in BOOLEAN, FailOrRetry(w, refused)
       PROVE  OutcomeInv'
  <2>1. flow[w].job \in Jobs /\ flow[w].pc \notin {"idle", "claimed"} /\ Leave(w)
    BY <1>10, <1>t DEF FailOrRetry, Handling
  <2>2. CASE FencedFinish(w, "failed")
    BY <1>5, <1>i, <1>k, <2>1, <2>2 DEF Finished
  <2>3. CASE FencedRetry(w)
    <3>1. \A k \in Jobs : /\ row'[k].kind = row[k].kind
                          /\ row'[k].status \in Finished =>
                               row'[k] = row[k] /\ hist'[k].decider = hist[k].decider
      BY <2>1, <2>3, <1>t DEF FencedRetry, Finished, Row, Hist
    <3> QED
      BY <1>u, <1>i, <1>k, <2>1, <3>1
  <2> QED
    BY <1>10, <2>2, <2>3 DEF FailOrRetry
<1>11. ASSUME NEW w \in Flows, Place(w) \/ Sync(w) PROVE OutcomeInv'
  <2>1. flow[w].job \in Jobs /\ SetStage(flow[w].job)
    BY <1>11, <1>t DEF Place, Sync
  <2>2. \A k \in Jobs : /\ row'[k].kind = row[k].kind
                        /\ row'[k].attempts = row[k].attempts
                        /\ row'[k].status = row[k].status
    BY <2>1, <1>t DEF SetStage, Row
  <2>3. \A k \in Jobs : hist'[k].decider = hist[k].decider
    BY <1>11, <2>1, <1>t DEF Place, Sync, Hist
  <2>4. \E pc \in Handling : Goto(w, pc)
    BY <1>11 DEF Place, Sync, Handling
  <2> QED
    BY <1>u, <1>i, <1>k, <2>2, <2>3, <2>4
<1>12. ASSUME NEW w \in Flows, Mark(w) \/ Heartbeat(w) PROVE OutcomeInv'
  <2>1. flow[w].job \in Jobs
    BY <1>12, <1>t DEF Mark, Heartbeat, Handling
  <2>2. \A k \in Jobs : /\ row'[k].kind = row[k].kind
                        /\ row'[k].attempts = row[k].attempts
                        /\ row'[k].status = row[k].status
    BY <1>12, <2>1, <1>t DEF Mark, Heartbeat, Row
  <2>3. hist' = hist /\ (flow' = flow \/ \E pc \in Handling : Goto(w, pc))
    BY <1>12 DEF Mark, Heartbeat, Handling
  <2> QED
    BY <1>u, <1>i, <1>k, <2>2, <2>3
<1>13. ASSUME NEW w \in Flows, Read(w) PROVE OutcomeInv'
  <2>1. row' = row /\ hist' = hist
    BY <1>13 DEF Read
  <2>2. \A v \in Flows : flow'[v].pc = "inline" => flow'[v] = flow[v]
    BY <1>13, <1>t DEF Read, Leave, IdleFlow, Flow
  <2> QED
    BY <1>u, <1>i, <2>1, <2>2
<1>14. ASSUME NEW w \in Flows,
              NothingToDo(w) \/ ReadAgain(w) \/ InlineThrow(w) \/ Crash(w)
       PROVE  OutcomeInv'
  <2>1. row' = row /\ hist' = hist
    BY <1>14 DEF NothingToDo, ReadAgain, InlineThrow, Crash
  <2>2. Leave(w) \/ \E pc \in Handling : Goto(w, pc)
    BY <1>14 DEF NothingToDo, ReadAgain, InlineThrow, Crash, Handling
  <2> QED
    BY <1>u, <1>i, <1>k, <2>1, <2>2
<1>15. CASE UNCHANGED vars
  BY <1>15 DEF vars, InlineOnInline, OutcomeOfLatestClaim, Fenced
<1> QED
  BY <1>1, <1>2, <1>3, <1>4, <1>7, <1>8, <1>9, <1>10, <1>11, <1>12, <1>13, <1>14, <1>15
  DEF Next, FlowStep

\* The outcome of a fenced job was written by the flow of its latest claim: a
\* flow whose lease was taken over never overwrites the newer outcome.
THEOREM LatestClaimDecides ==
  ASSUME SlowRead = FALSE
  PROVE  Spec => []OutcomeOfLatestClaim
<1> DEFINE Inv == TypeInv /\ RowsSound /\ ClaimInv /\ OutcomeInv
<1>1. Init => Inv
  BY InitTypeInv, InitRowsSound, InitClaimInv, InitOutcomeInv
<1>2. Inv /\ [Next]_vars => Inv'
  <2>1. TypeInv /\ OutcomeInv /\ ClaimInv /\ [Next]_vars => OutcomeInv'
    BY NextOutcomeInv DEF ClaimInv
  <2> QED
    BY <2>1, NextTypeInv, NextRowsSound, NextClaimInv
<1>3. OutcomeInv => OutcomeOfLatestClaim
  BY DEF OutcomeInv
<1> QED
  BY <1>1, <1>2, <1>3, PTL DEF Spec

-----------------------------------------------------------------------------

\* Kinds never change, and a flow that works inline after a step did before it,
\* or has just begun an inline job.
LEMMA NextInlineOnInline ==
  ASSUME InlineOnInline, TypeInv,
         \A k \in Jobs : row'[k].kind = row[k].kind,
         \A v \in Flows : flow'[v].pc = "inline" => flow'[v] = flow[v]
  PROVE  InlineOnInline'
BY DEF InlineOnInline, TypeInv, TypeOK, Working, Idle

\* What a step may do to the answers of the fenced jobs.
Answers == [j \in Jobs |-> IF j \in Fenced THEN Answer(row[j]) ELSE "none"]
Answered == InlineOnInline' /\ [Promise!Next]_Answers

\* A step that keeps the kinds and moves no answer of a fenced job.
LEMMA SameAnswers ==
  ASSUME \A k \in Jobs : row'[k].kind = row[k].kind,
         \A k \in Fenced : Answer(row'[k]) = Answer(row[k])
  PROVE  Answers' = Answers
<1>1. Fenced' = Fenced
  BY DEF Fenced
<1> QED
  BY <1>1 DEF Answers

\* A step that moves the answer of one job, along the promise.
LEMMA OneAnswer ==
  ASSUME NEW j \in Jobs,
         \A k \in Jobs : row'[k].kind = row[k].kind,
         \A k \in Jobs \ {j} : row'[k] = row[k],
         \/ Answer(row[j]) = "none" /\ Answer(row'[j]) = "open"
         \/ Answer(row[j]) = "open" /\ Answer(row'[j]) \in {"done", "failed"}
         \/ Answer(row[j]) \in {"done", "failed"} /\ Answer(row'[j]) = "purged"
  PROVE  [Promise!Next]_Answers
<1>1. Fenced' = Fenced
  BY DEF Fenced
<1>2. CASE j \notin Fenced
  <2>1. Answers' = Answers
    BY <1>2, SameAnswers DEF Fenced
  <2> QED
    BY <2>1
<1>3. CASE j \in Fenced
  <2>1. Answers[j] = Answer(row[j])
    BY <1>3 DEF Answers
  <2>2. Answers' = [Answers EXCEPT ![j] = Answer(row'[j])]
    BY <1>1, <1>3 DEF Answers
  <2>3. \/ Answers[j] = "none" /\ Answers' = [Answers EXCEPT ![j] = "open"]
        \/ Answers[j] = "open" /\ \E a \in {"done", "failed"} : Answers' = [Answers EXCEPT ![j] = a]
        \/ Answers[j] \in {"done", "failed"} /\ Answers' = [Answers EXCEPT ![j] = "purged"]
    BY <2>1, <2>2
  <2> QED
    BY <2>3 DEF Answers, Promise!Next, Promise!Accept, Promise!Decide, Promise!Forget
<1> QED
  BY <1>2, <1>3

\* The answer of a fenced job changes only along the promise.
LEMMA NextAnswer ==
  ASSUME TypeInv, InlineOnInline, [Next]_vars
  PROVE  Answered
<1> USE DEF Answered
<1>t. /\ row \in [Jobs -> Row] /\ flow \in [Flows -> Flow]
      /\ \A w \in Flows : flow[w].pc # "idle" => flow[w].job \in Jobs
  BY DEF TypeInv, TypeOK, Working, Idle
<1>k. ASSUME NEW w \in Flows,
             flow' = flow \/ Leave(w) \/ \E pc \in Handling : Goto(w, pc)
      PROVE  \A v \in Flows : flow'[v].pc = "inline" => flow'[v] = flow[v]
  BY <1>k, <1>t DEF Leave, Goto, IdleFlow, Flow, Handling
\* Whatever keeps kind and status keeps the answer.
<1>s. ASSUME \A k \in Jobs : row'[k].kind = row[k].kind /\ row'[k].status = row[k].status,
             \A v \in Flows : flow'[v].pc = "inline" => flow'[v] = flow[v]
      PROVE  Answered
  <2>1. \A k \in Jobs : Answer(row'[k]) = Answer(row[k])
    BY <1>s DEF Answer
  <2>2. Answers' = Answers
    BY <1>s, <2>1, SameAnswers DEF Fenced
  <2> QED
    BY <1>s, <2>2, NextInlineOnInline
<1>1. ASSUME NEW j \in Jobs, Begin(j) \/ FailLegacy(j) \/ Purge(j) PROVE Answered
  <2>1. /\ \/ row[j].status = "absent" /\ row'[j].status = "pending"
           \/ row[j].status = "pending" /\ row'[j].status = "failed"
           \/ row[j].status \in Finished /\ row'[j].status = "purged"
        /\ \A k \in Jobs \ {j} : row'[k] = row[k]
        /\ \A k \in Jobs : row'[k].kind = row[k].kind
    BY <1>1, <1>t DEF Begin, FailLegacy, Due, Finish, Purge, Row
  <2>2. flow' = flow
    BY <1>1 DEF Begin, FailLegacy, Purge
  <2>3. [Promise!Next]_Answers
    BY <2>1, OneAnswer DEF Answer, Finished
  <2> QED
    BY <2>1, <2>2, <2>3, NextInlineOnInline
<1>2. ASSUME NEW j \in Jobs, NEW w \in Flows, BeginInline(w, j) PROVE Answered
  <2>1. /\ row[j].kind = "inline"
        /\ \A k \in Jobs \ {j} : row'[k] = row[k]
        /\ \A k \in Jobs : row'[k].kind = row[k].kind
    BY <1>2, <1>t DEF BeginInline, Row
  <2>2. InlineOnInline'
    BY <1>2, <2>1, <1>t DEF BeginInline, InlineOnInline
  <2>3. Answers' = Answers
    BY <2>1, SameAnswers DEF Fenced
  <2> QED
    BY <2>2, <2>3
<1>3. ASSUME NEW j \in Jobs, NEW w \in Flows, Claim(w, j) PROVE Answered
  <2>1. /\ row[j].status \in {"pending", "running"} /\ row'[j].status = "running"
        /\ \A k \in Jobs \ {j} : row'[k] = row[k]
        /\ \A k \in Jobs : row'[k].kind = row[k].kind
    BY <1>3, <1>t DEF Claim, Due, Orphaned, Row
  <2>2. \A k \in Jobs : Answer(row'[k]) = Answer(row[k])
    BY <2>1 DEF Answer
  <2>3. \A v \in Flows : flow'[v].pc = "inline" => flow'[v] = flow[v]
    BY <1>3, <1>t DEF Claim
  <2>4. Answers' = Answers
    BY <2>1, <2>2, SameAnswers DEF Fenced
  <2> QED
    BY <2>1, <2>3, <2>4, NextInlineOnInline
\* An outcome is decided at most once, because only a running row is owned.
<1>4. ASSUME NEW w \in Flows, flow[w].job \in Jobs, NEW s \in Finished, FencedFinish(w, s)
      PROVE  /\ \A k \in Jobs : row'[k].kind = row[k].kind
             /\ [Promise!Next]_Answers
  <2> DEFINE j == flow[w].job
  <2>1. CASE row' = row
    BY <2>1, SameAnswers DEF Fenced
  <2>2. CASE Owns(j, flow[w].fence) /\ Decided(w, s)
    <3>1. /\ row[j].status = "running" /\ row'[j].status = s
          /\ \A k \in Jobs \ {j} : row'[k] = row[k]
          /\ \A k \in Jobs : row'[k].kind = row[k].kind
      BY <1>4, <2>2, <1>t DEF Owns, Decided, Finish, Row
    <3>2. Answer(row[j]) = "open" /\ Answer(row'[j]) \in {"done", "failed"}
      BY <3>1 DEF Answer, Finished
    <3> QED
      BY <1>4, <3>1, <3>2, OneAnswer
  <2> QED
    BY <1>4, <2>1, <2>2 DEF FencedFinish
\* An unfenced finisher only ever writes a move or an inline job.
<1>5. ASSUME NEW w \in Flows, flow[w].job \in Jobs, NEW s \in Finished,
             UnfencedFinish(w, s), row[flow[w].job].kind \in {"move", "inline"}
      PROVE  /\ \A k \in Jobs : row'[k].kind = row[k].kind
             /\ [Promise!Next]_Answers
  <2> DEFINE j == flow[w].job
  <2>1. /\ \A k \in Jobs \ {j} : row'[k] = row[k]
        /\ \A k \in Jobs : row'[k].kind = row[k].kind
    BY <1>5, <1>t DEF UnfencedFinish, Decided, Finish, Row
  <2> QED
    BY <1>5, <2>1, SameAnswers DEF Fenced
<1>6. ASSUME NEW w \in Flows, Refuse(w) \/ Complete(w) PROVE Answered
  <2>1. flow[w].job \in Jobs /\ Leave(w) /\ \E s \in Finished : FencedFinish(w, s)
    BY <1>6, <1>t DEF Refuse, Complete, Finished
  <2> QED
    BY <2>1, <1>4, <1>k, NextInlineOnInline
<1>7. ASSUME NEW w \in Flows, MoveFinish(w) \/ InlineFinish(w) PROVE Answered
  <2>1. /\ flow[w].job \in Jobs /\ row[flow[w].job].kind \in {"move", "inline"}
        /\ \E s \in Finished : UnfencedFinish(w, s)
        /\ Leave(w) \/ \E pc \in Handling : Goto(w, pc)
    BY <1>7, <1>t DEF MoveFinish, InlineFinish, InlineOnInline, Finished, Handling
  <2> QED
    BY <2>1, <1>5, <1>k, NextInlineOnInline
<1>8. ASSUME NEW w \in Flows, NEW refused \in BOOLEAN, FailOrRetry(w, refused) PROVE Answered
  <2>1. flow[w].job \in Jobs /\ Leave(w)
    BY <1>8, <1>t DEF FailOrRetry, Handling
  <2>2. CASE FencedFinish(w, "failed")
    BY <1>4, <1>k, <2>1, <2>2, NextInlineOnInline DEF Finished
  <2>3. CASE FencedRetry(w)
    <3>1. \A k \in Jobs : /\ row'[k].kind = row[k].kind
                          /\ \/ row'[k].status = row[k].status
                             \/ row[k].status = "running" /\ row'[k].status = "pending"
      BY <2>1, <2>3, <1>t DEF FencedRetry, Owns, Row
    <3>2. Answers' = Answers
      <4>1. \A k \in Jobs : Answer(row'[k]) = Answer(row[k])
        BY <3>1 DEF Answer
      <4> QED
        BY <3>1, <4>1, SameAnswers DEF Fenced
    <3> QED
      BY <1>k, <2>1, <3>1, <3>2, NextInlineOnInline
  <2> QED
    BY <1>8, <2>2, <2>3 DEF FailOrRetry
<1>9. ASSUME NEW j \in Jobs, LeaseRunsOut(j) \/ BackoffEnds(j) PROVE Answered
  <2>1. \A k \in Jobs : row'[k].kind = row[k].kind /\ row'[k].status = row[k].status
    BY <1>9, <1>t DEF LeaseRunsOut, BackoffEnds, Row
  <2> QED
    BY <1>s, <1>9, <2>1 DEF LeaseRunsOut, BackoffEnds
<1>10. ASSUME NEW w \in Flows, Place(w) \/ Sync(w) PROVE Answered
  <2>1. flow[w].job \in Jobs /\ SetStage(flow[w].job)
    BY <1>10, <1>t DEF Place, Sync
  <2>2. \A k \in Jobs : row'[k].kind = row[k].kind /\ row'[k].status = row[k].status
    BY <2>1, <1>t DEF SetStage, Row
  <2>3. \E pc \in Handling : Goto(w, pc)
    BY <1>10 DEF Place, Sync, Handling
  <2> QED
    BY <1>s, <1>k, <2>2, <2>3
<1>11. ASSUME NEW w \in Flows, Mark(w) \/ Heartbeat(w) PROVE Answered
  <2>1. flow[w].job \in Jobs
    BY <1>11, <1>t DEF Mark, Heartbeat, Handling
  <2>2. \A k \in Jobs : row'[k].kind = row[k].kind /\ row'[k].status = row[k].status
    BY <1>11, <2>1, <1>t DEF Mark, Heartbeat, Row
  <2>3. flow' = flow \/ \E pc \in Handling : Goto(w, pc)
    BY <1>11 DEF Mark, Heartbeat, Handling
  <2> QED
    BY <1>s, <1>k, <2>2, <2>3
<1>12. ASSUME NEW w \in Flows, Read(w) PROVE Answered
  <2>1. \A v \in Flows : flow'[v].pc = "inline" => flow'[v] = flow[v]
    BY <1>12, <1>t DEF Read, Leave, IdleFlow, Flow
  <2> QED
    BY <1>s, <1>12, <2>1 DEF Read
<1>13. ASSUME NEW w \in Flows,
              NothingToDo(w) \/ ReadAgain(w) \/ InlineThrow(w) \/ Crash(w)
       PROVE  Answered
  <2>1. row' = row /\ (Leave(w) \/ \E pc \in Handling : Goto(w, pc))
    BY <1>13 DEF NothingToDo, ReadAgain, InlineThrow, Crash, Handling
  <2> QED
    BY <1>s, <1>k, <2>1
<1>14. CASE UNCHANGED vars
  BY <1>s, <1>14 DEF vars
<1> HIDE DEF Answered
<1> QED
  BY <1>1, <1>2, <1>3, <1>6, <1>7, <1>8, <1>9, <1>10, <1>11, <1>12, <1>13, <1>14
  DEF Next, FlowStep

\* The queue implements the safety of JobPromise: every accepted job whose
\* outcome is fenced gets at most one final answer, which never changes.
THEOREM PromiseKept == Spec => KeepsAnswers
<1>1. Init => TypeInv /\ InlineOnInline
  BY InitTypeInv, InitOutcomeInv DEF OutcomeInv
<1>2. Init => Promise!Init
  <2> SUFFICES ASSUME Init PROVE Promise!Init
    OBVIOUS
  <2>1. \A k \in Kinds : NewRow(k).status = "absent"
    BY DEF NewRow
  <2>2. LegacyRow.status = "pending"
    BY DEF LegacyRow, NewRow
  <2>3. \A j \in Jobs : Answer(row[j]) \in {"none", "open"}
    BY <2>1, <2>2 DEF Init, Answer
  <2> QED
    BY <2>3 DEF Promise!Init
<1>3. TypeInv /\ InlineOnInline /\ [Next]_vars
        => (TypeInv /\ InlineOnInline)'
           /\ [Promise!Next]_([j \in Jobs |-> IF j \in Fenced THEN Answer(row[j]) ELSE "none"])
  BY NextTypeInv, NextAnswer DEF Answered, Answers
<1> QED
  BY <1>1, <1>2, <1>3, PTL DEF Spec, KeepsAnswers, Promise!Safety

-----------------------------------------------------------------------------

\* The flows that will still place the task of j unless they stop: one that is
\* about to, one that has not read the row, and one whose handler found nothing
\* to do and that may still put the job back.
MayPlace(j) ==
    {w \in Flows : /\ flow[w].job = j
                   /\ \/ flow[w].pc = "place"
                      \/ /\ flow[w].pc \in {"claimed", "sync", "returned", "finish"}
                         /\ ~row[j].placed}

\* One more placement is to come from a job that waits for its next claim.
Credit(j) == IF row[j].status \in {"absent", "pending"} /\ ~row[j].placed THEN 1 ELSE 0

\* The placements made and still to come are paid for.
Balance(j) ==
    /\ IsFiniteSet(MayPlace(j))
    /\ hist[j].placements + Cardinality(MayPlace(j)) + Credit(j)
         <= 1 + hist[j].takeovers + hist[j].lostMarks

AllPaid == \A j \in Jobs : row[j].kind = "place" => Balance(j)

\* Counting a finite set that loses or gains one element.
LEMMA Counting ==
  ASSUME NEW A, NEW B, IsFiniteSet(A), NEW w, B \subseteq A \cup {w}
  PROVE  /\ IsFiniteSet(B)
         /\ Cardinality(A) \in Nat /\ Cardinality(B) \in Nat
         /\ w \notin B \/ w \in A => Cardinality(B) <= Cardinality(A)
         /\ Cardinality(B) <= Cardinality(A) + 1
         /\ w \notin B /\ w \in A => Cardinality(B) + 1 <= Cardinality(A)
<1>1. /\ IsFiniteSet(A \cup {w})
      /\ Cardinality(A \cup {w}) = IF w \in A THEN Cardinality(A) ELSE Cardinality(A) + 1
  BY FS_AddElement
<1>2. /\ IsFiniteSet(A \ {w})
      /\ Cardinality(A \ {w}) = IF w \in A THEN Cardinality(A) - 1 ELSE Cardinality(A)
  BY FS_RemoveElement
<1>3. IsFiniteSet(B) /\ Cardinality(B) <= Cardinality(A \cup {w})
  BY <1>1, FS_Subset
<1>4. Cardinality(A) \in Nat /\ Cardinality(B) \in Nat
  BY <1>3, FS_CardinalityType
<1>5. ASSUME w \notin B PROVE Cardinality(B) <= Cardinality(A \ {w})
  <2>1. B \subseteq A \ {w}
    BY <1>5
  <2> QED
    BY <1>2, <2>1, FS_Subset
<1> QED
  BY <1>1, <1>2, <1>3, <1>4, <1>5

\* Whether w is one of the flows that may place j.
One(j, w) == IF w \in MayPlace(j) THEN 1 ELSE 0
OneNext(j, w) == IF w \in MayPlace(j)' THEN 1 ELSE 0

\* A step of one flow on its job, with what it adds to both sides of the balance.
LEMMA FlowPays ==
  ASSUME TypeInv, TypeInv', AllPaid, NEW j \in Jobs, NEW w \in Flows,
         \A k \in Jobs \ {j} : row'[k] = row[k] /\ hist'[k] = hist[k],
         \A v \in Flows \ {w} : flow'[v] = flow[v],
         \A k \in Jobs \ {j} : w \notin MayPlace(k) /\ w \notin MayPlace(k)',
         row'[j].kind = row[j].kind,
         row[j].placed => row'[j].placed,
         row[j].kind = "place" =>
           hist'[j].placements + OneNext(j, w) + Credit(j)'
             + hist[j].takeovers + hist[j].lostMarks
           <= hist[j].placements + One(j, w) + Credit(j)
                + hist'[j].takeovers + hist'[j].lostMarks
  PROVE  AllPaid'
<1> SUFFICES ASSUME NEW k \in Jobs, row'[k].kind = "place" PROVE Balance(k)'
  BY DEF AllPaid
<1>1. CASE k # j
  <2>1. MayPlace(k)' = MayPlace(k)
    BY <1>1 DEF MayPlace
  <2>2. row'[k] = row[k] /\ hist'[k] = hist[k] /\ Balance(k)
    BY <1>1 DEF AllPaid
  <2>3. Credit(k)' = Credit(k)
    BY <2>2 DEF Credit
  <2> QED
    BY <2>1, <2>2, <2>3 DEF Balance
<1>2. CASE k = j
  <2> DEFINE A == MayPlace(j)
             B == MayPlace(j)'
  <2>1. Balance(j) /\ IsFiniteSet(A)
    BY <1>2 DEF AllPaid, Balance
  <2>2. B \subseteq A \cup {w}
    BY DEF MayPlace
  <2>n. /\ hist[j].placements \in Nat /\ hist[j].takeovers \in Nat /\ hist[j].lostMarks \in Nat
        /\ hist'[j].placements \in Nat /\ hist'[j].takeovers \in Nat /\ hist'[j].lostMarks \in Nat
    BY DEF TypeInv, TypeOK, Hist
  <2>c. Credit(j) \in Nat /\ Credit(j)' \in Nat /\ One(j, w) \in {0, 1} /\ OneNext(j, w) \in {0, 1}
    BY DEF Credit, One, OneNext
  <2>o. /\ One(j, w) = IF w \in A THEN 1 ELSE 0
        /\ OneNext(j, w) = IF w \in B THEN 1 ELSE 0
    BY DEF One, OneNext
  <2>3. /\ hist'[j].placements + OneNext(j, w) + Credit(j)'
             + hist[j].takeovers + hist[j].lostMarks
           <= hist[j].placements + One(j, w) + Credit(j)
                + hist'[j].takeovers + hist'[j].lostMarks
        /\ hist[j].placements + Cardinality(A) + Credit(j)
             <= 1 + hist[j].takeovers + hist[j].lostMarks
    BY <1>2, <2>1 DEF Balance
  <2> HIDE DEF A, B
  <2>4. IsFiniteSet(B) /\ Cardinality(A) \in Nat /\ Cardinality(B) \in Nat
    BY <2>1, <2>2, Counting
  <2>5. Cardinality(B) + One(j, w) <= Cardinality(A) + OneNext(j, w)
    <3>1. CASE w \in B /\ w \in A
      BY <2>1, <2>2, <2>4, <2>o, <3>1, Counting
    <3>2. CASE w \in B /\ w \notin A
      BY <2>1, <2>2, <2>4, <2>o, <3>2, Counting
    <3>3. CASE w \notin B /\ w \in A
      BY <2>1, <2>2, <2>4, <2>o, <3>3, Counting
    <3>4. CASE w \notin B /\ w \notin A
      BY <2>1, <2>2, <2>4, <2>o, <3>4, Counting
    <3> QED
      BY <3>1, <3>2, <3>3, <3>4
  <2>6. hist'[j].placements + Cardinality(B) + Credit(j)'
          <= 1 + hist'[j].takeovers + hist'[j].lostMarks
    BY <2>n, <2>c, <2>3, <2>4, <2>5
  <2> QED
    BY <1>2, <2>4, <2>6 DEF Balance, B
<1> QED
  BY <1>1, <1>2

\* A step of the table alone: no flow moves and no credit appears.
LEMMA TablePays ==
  ASSUME TypeInv, AllPaid, flow' = flow, hist' = hist,
         \A k \in Jobs : /\ row'[k].kind = row[k].kind
                         /\ row[k].placed => row'[k].placed
                         /\ row'[k].status \in {"absent", "pending"}
                              => row[k].status \in {"absent", "pending"}
  PROVE  AllPaid'
<1> SUFFICES ASSUME NEW k \in Jobs, row'[k].kind = "place" PROVE Balance(k)'
  BY DEF AllPaid
<1>1. MayPlace(k)' \subseteq MayPlace(k)
  BY DEF MayPlace
<1>2. Credit(k)' <= Credit(k) /\ Credit(k) \in Nat /\ Credit(k)' \in Nat
  BY DEF Credit
<1>3. Balance(k) /\ IsFiniteSet(MayPlace(k))
  BY DEF AllPaid, Balance
<1> DEFINE A == MayPlace(k)
           B == MayPlace(k)'
<1>5. /\ B \subseteq A /\ IsFiniteSet(A)
      /\ hist[k].placements + Cardinality(A) + Credit(k)
           <= 1 + hist[k].takeovers + hist[k].lostMarks
  BY <1>1, <1>3 DEF Balance
<1> HIDE DEF A, B
<1>6. IsFiniteSet(B) /\ Cardinality(B) <= Cardinality(A)
      /\ Cardinality(A) \in Nat /\ Cardinality(B) \in Nat
  BY <1>5, FS_Subset, FS_CardinalityType
<1>7. hist[k].placements \in Nat /\ hist[k].takeovers \in Nat /\ hist[k].lostMarks \in Nat
  BY DEF TypeInv, TypeOK, Hist
<1>8. hist[k].placements + Cardinality(B) + Credit(k)'
          <= 1 + hist[k].takeovers + hist[k].lostMarks
  BY <1>2, <1>5, <1>6, <1>7
<1> QED
  BY <1>6, <1>8 DEF Balance, B

LEMMA InitAllPaid == Init => AllPaid
<1> SUFFICES ASSUME Init, NEW j \in Jobs PROVE Balance(j)
  BY DEF AllPaid
<1>1. MayPlace(j) = {}
  BY DEF MayPlace, Init, IdleFlow
<1>2. Credit(j) \in {0, 1}
  BY DEF Credit
<1>3. hist[j].placements = 0 /\ hist[j].takeovers = 0 /\ hist[j].lostMarks = 0
  BY DEF Init, NoHist
<1> QED
  BY <1>1, <1>2, <1>3, FS_EmptySet DEF Balance

LEMMA NextAllPaid == TypeInv /\ AllPaid /\ [Next]_vars => AllPaid'
<1> SUFFICES ASSUME TypeInv, AllPaid, [Next]_vars PROVE AllPaid'
  OBVIOUS
<1>t. /\ row \in [Jobs -> Row] /\ flow \in [Flows -> Flow] /\ hist \in [Jobs -> Hist]
      /\ \A w \in Flows : flow[w].pc # "idle" => flow[w].job \in Jobs
  BY DEF TypeInv, TypeOK, Working, Idle
<1>y. TypeInv'
  BY NextTypeInv
<1>n. \A k \in Jobs : /\ hist[k].placements \in Nat /\ hist[k].takeovers \in Nat
                      /\ hist[k].lostMarks \in Nat
  BY <1>t DEF Hist
\* A flow counts for its own job only, and an idle one for none.
<1>m. /\ \A w \in Flows, k \in Jobs : w \in MayPlace(k) => flow[w].job = k /\ flow[w].pc # "idle"
      /\ \A w \in Flows, k \in Jobs : w \in MayPlace(k)' => flow'[w].job = k /\ flow'[w].pc # "idle"
  BY DEF MayPlace
<1>1. ASSUME NEW j \in Jobs,
             Begin(j) \/ LeaseRunsOut(j) \/ BackoffEnds(j) \/ FailLegacy(j) \/ Purge(j)
      PROVE  AllPaid'
  <2>1. flow' = flow /\ hist' = hist
    BY <1>1 DEF Begin, LeaseRunsOut, BackoffEnds, FailLegacy, Purge
  <2>2. \A k \in Jobs : /\ row'[k].kind = row[k].kind
                        /\ row[k].placed => row'[k].placed
                        /\ row'[k].status \in {"absent", "pending"}
                             => row[k].status \in {"absent", "pending"}
    BY <1>1, <1>t DEF Begin, LeaseRunsOut, BackoffEnds, FailLegacy, Finish, Purge, Row
  <2> QED
    BY <2>1, <2>2, TablePays
<1>2. ASSUME NEW j \in Jobs, NEW w \in Flows, BeginInline(w, j) PROVE AllPaid'
  <2>1. /\ \A k \in Jobs \ {j} : row'[k] = row[k] /\ hist'[k] = hist[k]
        /\ \A v \in Flows \ {w} : flow'[v] = flow[v]
        /\ row'[j].kind = row[j].kind /\ row[j].kind = "inline"
        /\ row[j].placed => row'[j].placed
    BY <1>2, <1>t DEF BeginInline, Row
  <2>2. flow[w].pc = "idle" /\ flow'[w].job = j
    BY <1>2, <1>t DEF BeginInline, Idle
  <2>3. \A k \in Jobs \ {j} : w \notin MayPlace(k) /\ w \notin MayPlace(k)'
    BY <1>m, <2>2
  <2> QED
    BY <1>y, <2>1, <2>3, FlowPays
<1>3. ASSUME NEW j \in Jobs, NEW w \in Flows, Claim(w, j) PROVE AllPaid'
  <2>1. /\ \A k \in Jobs \ {j} : row'[k] = row[k] /\ hist'[k] = hist[k]
        /\ \A v \in Flows \ {w} : flow'[v] = flow[v]
        /\ row'[j].kind = row[j].kind
        /\ row'[j].placed = row[j].placed /\ row'[j].status = "running"
    BY <1>3, <1>t DEF Claim, Row
  <2>2. flow[w].pc = "idle" /\ flow'[w].job = j /\ flow'[w].pc = "claimed"
    BY <1>3, <1>t DEF Claim, Idle
  <2>3. \A k \in Jobs \ {j} : w \notin MayPlace(k) /\ w \notin MayPlace(k)'
    BY <1>m, <2>2
  <2>4. One(j, w) = 0 /\ Credit(j)' = 0 /\ OneNext(j, w) = IF row[j].placed THEN 0 ELSE 1
    BY <2>1, <2>2 DEF One, OneNext, MayPlace, Credit
  <2>5. /\ hist'[j].placements = hist[j].placements /\ hist'[j].lostMarks = hist[j].lostMarks
        /\ \/ row[j].status = "pending" /\ hist'[j].takeovers = hist[j].takeovers
           \/ hist'[j].takeovers = hist[j].takeovers + 1
    BY <1>3, <1>t DEF Claim, Due, Orphaned, Hist
  <2>6. row[j].status = "pending" => Credit(j) = IF row[j].placed THEN 0 ELSE 1
    BY DEF Credit
  <2>7. Credit(j) \in {0, 1}
    BY DEF Credit
  <2>8. hist'[j].placements + OneNext(j, w) + Credit(j)' + hist[j].takeovers + hist[j].lostMarks
          <= hist[j].placements + One(j, w) + Credit(j)
               + hist'[j].takeovers + hist'[j].lostMarks
    BY <1>n, <2>4, <2>5, <2>6, <2>7
  <2> QED
    BY <1>y, <2>1, <2>3, <2>8, FlowPays
\* A step of w that leaves the placements alone, and lets the job wait for its
\* next claim only if w gave up a placement or a mark for it.
<1>s. ASSUME NEW w \in Flows, NEW j \in Jobs, j = flow[w].job, flow[w].pc # "idle",
             \A v \in Flows \ {w} : flow'[v] = flow[v],
             flow'[w] = IdleFlow \/ flow'[w].job = j,
             \A k \in Jobs \ {j} : row'[k] = row[k] /\ hist'[k] = hist[k],
             row'[j].kind = row[j].kind,
             row[j].placed => row'[j].placed,
             hist'[j].placements = hist[j].placements,
             hist'[j].takeovers = hist[j].takeovers,
             hist'[j].lostMarks \in Nat,
             row[j].kind = "place" =>
               OneNext(j, w) + Credit(j)' + hist[j].lostMarks
                 <= One(j, w) + Credit(j) + hist'[j].lostMarks
      PROVE  AllPaid'
  <2>1. \A k \in Jobs \ {j} : w \notin MayPlace(k) /\ w \notin MayPlace(k)'
    BY <1>m, <1>s DEF IdleFlow
  <2>2. Credit(j) \in {0, 1} /\ Credit(j)' \in {0, 1} /\ One(j, w) \in {0, 1} /\ OneNext(j, w) \in {0, 1}
    BY DEF Credit, One, OneNext
  <2>3. row[j].kind = "place" =>
          hist'[j].placements + OneNext(j, w) + Credit(j)' + hist[j].takeovers + hist[j].lostMarks
            <= hist[j].placements + One(j, w) + Credit(j)
                 + hist'[j].takeovers + hist'[j].lostMarks
    BY <1>n, <1>s, <2>2
  <2> QED
    BY <1>s, <1>y, <2>1, <2>3, FlowPays
<1>4. ASSUME NEW w \in Flows, NEW st \in Finished, FencedFinish(w, st) \/ UnfencedFinish(w, st),
             flow[w].job \in Jobs, flow[w].pc # "idle",
             Leave(w) \/ (Goto(w, "returned") /\ row[flow[w].job].kind = "move")
      PROVE  AllPaid'
  <2>0. PICK j \in Jobs : j = flow[w].job
    BY <1>4, <1>t
  <2>1. /\ \A k \in Jobs \ {j} : row'[k] = row[k] /\ hist'[k] = hist[k]
        /\ row'[j].kind = row[j].kind /\ row'[j].placed = row[j].placed
        /\ row'[j].status \in {"absent", "pending"} => row[j].status = row'[j].status
        /\ hist'[j].placements = hist[j].placements /\ hist'[j].takeovers = hist[j].takeovers
        /\ hist'[j].lostMarks = hist[j].lostMarks
    BY <2>0, <1>4, <1>t DEF FencedFinish, UnfencedFinish, Decided, Finish, Finished, Row, Hist
  <2>2. /\ \A v \in Flows \ {w} : flow'[v] = flow[v]
        /\ flow'[w] = IdleFlow \/ (flow'[w].job = j /\ row[j].kind = "move")
    BY <2>0, <1>4, <1>t DEF Leave, Goto, Flow
  <2>3. Credit(j)' <= Credit(j) /\ Credit(j) \in {0, 1} /\ Credit(j)' \in {0, 1}
    BY <2>1 DEF Credit
  <2>4. row[j].kind = "place" => OneNext(j, w) = 0
    BY <2>2 DEF OneNext, MayPlace, IdleFlow
  <2>5. One(j, w) \in {0, 1} /\ hist[j].lostMarks \in Nat
    BY <1>4, <1>n DEF One
  <2>6. row[j].kind = "place" =>
          OneNext(j, w) + Credit(j)' + hist[j].lostMarks
            <= One(j, w) + Credit(j) + hist'[j].lostMarks
    BY <2>1, <2>3, <2>4, <2>5
  <2> QED
    BY <2>0, <1>4, <1>s, <2>1, <2>2, <2>5, <2>6
<1>5. ASSUME NEW w \in Flows,
             Refuse(w) \/ Complete(w) \/ InlineFinish(w) \/ MoveFinish(w)
      PROVE  AllPaid'
  <2>1. /\ flow[w].job \in Jobs /\ flow[w].pc # "idle"
        /\ \E st \in Finished : FencedFinish(w, st) \/ UnfencedFinish(w, st)
        /\ Leave(w) \/ (Goto(w, "returned") /\ row[flow[w].job].kind = "move")
    BY <1>5, <1>t DEF Refuse, Complete, InlineFinish, MoveFinish, Finished
  <2> QED
    BY <1>4, <2>1
<1>6. ASSUME NEW w \in Flows, NEW refused \in BOOLEAN, FailOrRetry(w, refused) PROVE AllPaid'
  <2>0. PICK j \in Jobs : j = flow[w].job
    BY <1>6, <1>t DEF FailOrRetry, Handling
  <2>1. j \in Jobs /\ flow[w].pc \in Handling /\ flow[w].pc # "idle" /\ Leave(w)
    BY <1>6, <1>t DEF FailOrRetry, Handling
  <2>2. CASE FencedFinish(w, "failed")
    BY <2>0, <1>4, <2>1, <2>2 DEF Finished
  <2>3. CASE FencedRetry(w)
    <3>1. /\ \A k \in Jobs \ {j} : row'[k] = row[k] /\ hist'[k] = hist[k]
          /\ row'[j].kind = row[j].kind /\ row'[j].placed = row[j].placed
          /\ hist'[j].placements = hist[j].placements /\ hist'[j].takeovers = hist[j].takeovers
      BY <2>0, <2>1, <2>3, <1>t DEF FencedRetry, Row, Hist
    <3>2. \/ row' = row /\ hist'[j].lostMarks = hist[j].lostMarks
          \/ /\ flow[w].pc = "mark" /\ hist'[j].lostMarks = hist[j].lostMarks + 1
          \/ /\ flow[w].pc # "mark" /\ hist'[j].lostMarks = hist[j].lostMarks
      BY <2>0, <2>1, <2>3, <1>t DEF FencedRetry, Hist
    <3>3. /\ \A v \in Flows \ {w} : flow'[v] = flow[v]
          /\ flow'[w] = IdleFlow
      BY <2>0, <2>1, <1>t DEF Leave
    <3>4. OneNext(j, w) = 0
      BY <3>3 DEF OneNext, MayPlace, IdleFlow
    <3>5. flow[w].pc # "mark" => One(j, w) = 1 \/ row[j].placed
      BY <2>0, <2>1 DEF One, MayPlace, Handling
    <3>6. row[j].placed => Credit(j)' = 0
      BY <3>1 DEF Credit
    <3>7. row' = row => Credit(j)' = Credit(j)
      BY DEF Credit
    <3>8. Credit(j) \in {0, 1} /\ Credit(j)' \in {0, 1} /\ One(j, w) \in {0, 1}
          /\ hist[j].lostMarks \in Nat
      BY <2>1, <1>n DEF Credit, One
    <3>9. OneNext(j, w) + Credit(j)' + hist[j].lostMarks
            <= One(j, w) + Credit(j) + hist'[j].lostMarks
      BY <3>2, <3>4, <3>5, <3>6, <3>7, <3>8
    <3>10. hist'[j].lostMarks \in Nat
      BY <3>2, <3>8
    <3> QED
      BY <2>0, <1>s, <2>1, <3>1, <3>3, <3>9, <3>10
  <2> QED
    BY <2>0, <1>6, <2>2, <2>3 DEF FailOrRetry
<1>7. ASSUME NEW w \in Flows, Place(w) PROVE AllPaid'
  <2>0. PICK j \in Jobs : j = flow[w].job
    BY <1>7, <1>t DEF Place
  <2>1. j \in Jobs /\ flow[w].pc = "place"
    BY <1>7, <1>t DEF Place
  <2>2. /\ \A k \in Jobs \ {j} : row'[k] = row[k] /\ hist'[k] = hist[k]
        /\ row'[j].kind = row[j].kind /\ row'[j].placed = row[j].placed
        /\ row'[j].status = row[j].status
        /\ hist'[j].placements = hist[j].placements + 1
        /\ hist'[j].takeovers = hist[j].takeovers /\ hist'[j].lostMarks = hist[j].lostMarks
    BY <2>0, <1>7, <2>1, <1>t DEF Place, SetStage, Row, Hist
  <2>3. /\ \A v \in Flows \ {w} : flow'[v] = flow[v]
        /\ flow'[w].job = j
        /\ row[j].kind = "place" => flow'[w].pc = "mark"
    BY <2>0, <1>7, <1>t DEF Place, Goto, Flow
  <2>4. One(j, w) = 1 /\ (row[j].kind = "place" => OneNext(j, w) = 0)
    BY <2>0, <2>1, <2>3 DEF One, OneNext, MayPlace
  <2>5. Credit(j)' = Credit(j) /\ Credit(j) \in {0, 1}
    BY <2>2 DEF Credit
  <2>6. \A k \in Jobs \ {j} : w \notin MayPlace(k) /\ w \notin MayPlace(k)'
    BY <2>0, <1>m, <2>3
  <2>7. row[j].kind = "place" =>
          hist'[j].placements + OneNext(j, w) + Credit(j)' + hist[j].takeovers + hist[j].lostMarks
            <= hist[j].placements + One(j, w) + Credit(j)
                 + hist'[j].takeovers + hist'[j].lostMarks
    BY <1>n, <2>1, <2>2, <2>4, <2>5
  <2> QED
    BY <2>0, <1>y, <2>1, <2>2, <2>3, <2>6, <2>7, FlowPays
\* The remaining steps of a flow move no status of the job, and w does not
\* become one of those that may place.
<1>r. ASSUME NEW w \in Flows, NEW j \in Jobs, j = flow[w].job, flow[w].pc # "idle", hist' = hist,
             \A k \in Jobs \ {j} : row'[k] = row[k],
             row'[j].kind = row[j].kind,
             row'[j].status = row[j].status,
             row[j].placed => row'[j].placed,
             \A v \in Flows \ {w} : flow'[v] = flow[v],
             flow'[w] = IdleFlow \/ flow'[w].job = j,
             row[j].kind = "place" =>
               (w \in MayPlace(j)' => w \in MayPlace(j))
      PROVE  AllPaid'
  <2>1. hist[j].lostMarks \in Nat
    BY <1>n, <1>r
  <2>2. Credit(j)' <= Credit(j) /\ Credit(j) \in {0, 1} /\ Credit(j)' \in {0, 1}
    BY <1>r DEF Credit
  <2>3. One(j, w) \in {0, 1} /\ OneNext(j, w) \in {0, 1}
        /\ (row[j].kind = "place" => OneNext(j, w) <= One(j, w))
    BY <1>r DEF One, OneNext
  <2>4. row[j].kind = "place" =>
          OneNext(j, w) + Credit(j)' + hist[j].lostMarks
            <= One(j, w) + Credit(j) + hist'[j].lostMarks
    BY <1>r, <2>1, <2>2, <2>3
  <2> QED
    BY <1>r, <1>s, <2>1, <2>4
<1>8. ASSUME NEW w \in Flows, Mark(w) \/ Sync(w) \/ Heartbeat(w) PROVE AllPaid'
  <2>0. PICK j \in Jobs : j = flow[w].job
    BY <1>8, <1>t DEF Mark, Sync, Heartbeat, Handling
  <2>1. j \in Jobs /\ flow[w].pc # "idle"
    BY <1>8, <1>t DEF Mark, Sync, Heartbeat, Handling
  <2>2. /\ hist' = hist
        /\ \A k \in Jobs \ {j} : row'[k] = row[k]
        /\ row'[j].kind = row[j].kind /\ row'[j].status = row[j].status
        /\ row[j].placed => row'[j].placed
    BY <2>0, <1>8, <2>1, <1>t DEF Mark, Sync, SetStage, Heartbeat, Row
  <2>3. /\ \A v \in Flows \ {w} : flow'[v] = flow[v]
        /\ flow'[w].job = j
        /\ \/ flow'[w] = flow[w]
           \/ flow'[w].pc = "sync" /\ row'[j].placed
           \/ flow[w].pc = "sync" /\ flow'[w].pc = "returned"
    BY <2>0, <1>8, <2>1, <1>t DEF Mark, Sync, Heartbeat, Goto, Flow, Row
  <2>4. w \in MayPlace(j)' => w \in MayPlace(j)
    BY <2>0, <2>2, <2>3 DEF MayPlace
  <2> QED
    BY <2>0, <1>r, <2>1, <2>2, <2>3, <2>4
<1>9. ASSUME NEW w \in Flows,
             Read(w) \/ NothingToDo(w) \/ ReadAgain(w) \/ InlineThrow(w) \/ Crash(w)
      PROVE  AllPaid'
  <2>0. PICK j \in Jobs : j = flow[w].job
    BY <1>9, <1>t DEF Read, NothingToDo, ReadAgain, InlineThrow, Crash, Idle
  <2>1. j \in Jobs /\ flow[w].pc # "idle"
    BY <1>9, <1>t DEF Read, NothingToDo, ReadAgain, InlineThrow, Crash, Idle
  <2>2. row' = row /\ hist' = hist
    BY <1>9 DEF Read, NothingToDo, ReadAgain, InlineThrow, Crash
  <2>3. /\ \A v \in Flows \ {w} : flow'[v] = flow[v]
        /\ \/ flow'[w] = IdleFlow
           \/ /\ flow'[w].job = j
              /\ row[j].kind = "place" =>
                   \/ /\ flow[w].pc = "claimed"
                      /\ flow'[w].pc = IF row[j].placed THEN "sync" ELSE "place"
                   \/ flow[w].pc \in {"place", "sync"} /\ flow'[w].pc = "returned"
                   \/ flow[w].pc = "returned" /\ flow'[w].pc = "finish"
    BY <2>0, <1>9, <2>1, <1>t DEF Read, NothingToDo, ReadAgain, InlineThrow, Crash, Leave, Goto, Flow
  <2>4. row[j].kind = "place" => (w \in MayPlace(j)' => w \in MayPlace(j))
    BY <2>0, <2>1, <2>2, <2>3 DEF MayPlace, IdleFlow
  <2> QED
    BY <2>0, <1>r, <2>1, <2>2, <2>3, <2>4
<1>10. CASE UNCHANGED vars
  BY <1>10, TablePays DEF vars
<1> QED
  BY <1>1, <1>2, <1>3, <1>5, <1>6, <1>7, <1>8, <1>9, <1>10 DEF Next, FlowStep

\* "A retry after a failed sync only syncs", for any number of flows, crashes
\* and retries: each placement of a create or update job beyond the first is
\* paid for by a lease that was taken over or a payload mark that failed.
THEOREM PaidPlacements == Spec => []PlacementsPaidFor
<1>1. Init => TypeInv /\ AllPaid
  BY InitTypeInv, InitAllPaid
<1>2. TypeInv /\ AllPaid /\ [Next]_vars => (TypeInv /\ AllPaid)'
  BY NextTypeInv, NextAllPaid
<1>3. TypeInv /\ AllPaid => PlacementsPaidFor
  <2> SUFFICES ASSUME TypeInv, NEW j \in Jobs, Balance(j)
               PROVE  hist[j].placements <= 1 + hist[j].takeovers + hist[j].lostMarks
    BY DEF AllPaid, PlacementsPaidFor
  <2>1. Cardinality(MayPlace(j)) \in Nat
    BY FS_CardinalityType DEF Balance
  <2>2. Credit(j) \in Nat /\ hist[j].placements \in Nat /\ hist[j].takeovers \in Nat
        /\ hist[j].lostMarks \in Nat
    BY DEF Credit, TypeInv, TypeOK, Hist
  <2> QED
    BY <2>1, <2>2 DEF Balance
<1> QED
  BY <1>1, <1>2, <1>3, PTL DEF Spec

=============================================================================
