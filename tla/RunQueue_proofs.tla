--------------------------- MODULE RunQueue_proofs ---------------------------
(***************************************************************************)
(* Proofs about RunQueue, for every set of sources, runs, pool threads and *)
(* callers and every bound MaxRequests: the index and the leases keep two  *)
(* executors apart, chains of resumed runs are bounded, and a run that     *)
(* ended stays ended.                                                      *)
(***************************************************************************)
EXTENDS RunQueue, TLAPS

\* The row enqueue_run inserts is a row.
LEMMA QueuedRowType ==
  ASSUME NEW s \in Source \cup {NULL}, NEW due \in BOOLEAN, NEW parent \in RunId \cup {NULL}, NEW n \in Nat
  PROVE  QueuedRow(s, due, parent, n) \in RunRow
  BY DEF QueuedRow, UnusedRow, RunRow, Active, Terminal

\* The row claim_next and run_once leave is a row.
LEMMA LeasedType ==
  ASSUME TypeOK, NEW r \in RunId, NEW e \in Executor
  PROVE  Leased(r, e) \in RunRow
<1>1. run[r] \in RunRow
  BY DEF TypeOK
<1> QED
  BY <1>1 DEF Leased, RunRow, Active, Terminal

\* Every state has the types of the table and of the executors' fields.
THEOREM TypeCorrect == Spec => []TypeOK
<1>1. Init => TypeOK
  BY DEF Init, TypeOK, RunRow, UnusedRow, Active, Terminal
<1>2. TypeOK /\ [Next]_vars => TypeOK'
  <2> SUFFICES ASSUME TypeOK, [Next]_vars PROVE TypeOK'
    OBVIOUS
  <2> USE NullAssumption, ExecutorAssumption, OutcomesAssumption DEF TypeOK
  <2>0. \A r \in RunId : run[r] \in RunRow
    OBVIOUS
  <2>1. ASSUME NEW s \in Source, NEW r \in RunId, NEW due \in BOOLEAN, Enqueue(s, r, due)
        PROVE TypeOK'
    BY <2>1, QueuedRowType DEF Enqueue
  <2>2. ASSUME NEW r \in RunId, BecomeDue(r) \/ RequestCancel(r) \/ LeaseExpires(r)
        PROVE TypeOK'
    <3>1. CASE BecomeDue(r)
      <4>1. [run[r] EXCEPT !.due = TRUE] \in RunRow
        BY <2>0 DEF RunRow
      <4> QED
        BY <3>1, <4>1 DEF BecomeDue
    <3>2. CASE RequestCancel(r)
      <4>1. [run[r] EXCEPT !.cancel = TRUE, !.status = IF @ = "QUEUED" THEN "CANCELLED" ELSE @] \in RunRow
        <5>1. ASSUME NEW row \in RunRow, NEW x \in {row.status, "CANCELLED"}
              PROVE  [row EXCEPT !.cancel = TRUE, !.status = x] \in RunRow
          BY DEF RunRow, Active, Terminal
        <5> QED
          BY <2>0, <5>1
      <4>2. run'[r] = [run[r] EXCEPT !.cancel = TRUE, !.status = IF @ = "QUEUED" THEN "CANCELLED" ELSE @]
        BY <3>2, <2>0 DEF RequestCancel, RunRow
      <4>3. run' \in [RunId -> RunRow]
        BY <3>2, <4>1, <4>2 DEF RequestCancel
      <4> QED
        BY <3>2, <4>3 DEF RequestCancel
    <3>3. CASE LeaseExpires(r)
      <4>1. [run[r] EXCEPT !.lease = "EXPIRED"] \in RunRow
        BY <2>0 DEF RunRow
      <4> QED
        BY <3>3, <4>1 DEF LeaseExpires
    <3> QED
      BY <2>2, <3>1, <3>2, <3>3
  <2>3. ASSUME NEW s \in Source, SetSourceStatus(s) PROVE TypeOK'
    BY <2>3 DEF SetSourceStatus
  <2>4. ASSUME NEW e \in Executor, NEW r \in RunId, Claim(e, r) PROVE TypeOK'
    BY <2>4, LeasedType DEF Claim
  <2>5. ASSUME NEW e \in Executor, NEW s \in Source, NEW r \in RunId, RunOnceQueue(e, s, r)
        PROVE TypeOK'
    BY <2>5, QueuedRowType DEF RunOnceQueue
  <2>6. ASSUME NEW e \in Executor, RunOnceStart(e) PROVE TypeOK'
    BY <2>6, LeasedType DEF RunOnceStart
  <2>7. ASSUME NEW e \in Executor, RunOnceFails(e) PROVE TypeOK'
    BY <2>7 DEF RunOnceFails
  <2>8. ASSUME NEW e \in Executor, Heartbeat(e) PROVE TypeOK'
    BY <2>8 DEF Heartbeat, RunRow
  <2>9. ASSUME NEW e \in Executor, NEW outcome \in Outcomes, FinishRun(e, outcome)
        PROVE TypeOK'
    BY <2>9 DEF FinishRun, RunRow, Active, Terminal
  <2>10. ASSUME NEW e \in Executor, FailAfterFinish(e) PROVE TypeOK'
    BY <2>10 DEF FailAfterFinish, RunRow, Active, Terminal
  <2>11. ASSUME NEW e \in Executor, Return(e) \/ Crash(e) PROVE TypeOK'
    BY <2>11 DEF Return, Crash, Leave
  <2>12. ASSUME NEW r \in RunId, NEW child \in RunId \cup {NULL}, Reclaim(r, child) PROVE TypeOK'
    <3>1. [run[r] EXCEPT !.status = "ABANDONED"] \in RunRow
      BY <2>0 DEF RunRow, Terminal
    <3>2. QueuedRow(run[r].source, TRUE, r, run[r].attempt + 1) \in RunRow
      <4>1. run[r].source \in Source \cup {NULL} /\ run[r].attempt + 1 \in Nat
        BY <2>0 DEF RunRow
      <4> QED
        BY <4>1, QueuedRowType
    <3>3. run' \in [RunId -> RunRow]
      BY <2>12, <3>1, <3>2 DEF Reclaim
    <3> QED
      BY <2>12, <3>3 DEF Reclaim
  <2>13. CASE UNCHANGED vars
    BY <2>13 DEF vars
  <2> QED
    BY <2>1, <2>2, <2>3, <2>4, <2>5, <2>6, <2>7, <2>8, <2>9, <2>10, <2>11, <2>12, <2>13 DEF Next
<1> QED
  BY <1>1, <1>2, PTL DEF Spec

-----------------------------------------------------------------------------
\* The partial unique index and the reclaimer keep every source at one active run.
THEOREM OneActive == Spec => []OneActivePerSource
<1>1. Init => OneActivePerSource
  BY DEF Init, OneActivePerSource, UnusedRow, Active
<1>2. TypeOK /\ OneActivePerSource /\ [Next]_vars => OneActivePerSource'
  <2> SUFFICES ASSUME TypeOK, OneActivePerSource, [Next]_vars PROVE OneActivePerSource'
    OBVIOUS
  <2> USE NullAssumption, ExecutorAssumption, OutcomesAssumption DEF OneActivePerSource
  <2>0. \A r \in RunId : run[r] \in RunRow
    BY DEF TypeOK
  <2>1. ASSUME NEW s \in Source, NEW r \in RunId, NEW due \in BOOLEAN, SlotFree(s, r),
               run' = [run EXCEPT ![r] = QueuedRow(s, due, NULL, 1)]
        PROVE OneActivePerSource'
    <3>1. run'[r].source = s /\ \A q \in RunId \ {r} : run'[q] = run[q]
      BY <2>1 DEF QueuedRow, UnusedRow, TypeOK
    <3> QED
      BY <2>1, <3>1 DEF SlotFree
  <2>2. ASSUME NEW r \in RunId, \A q \in RunId \ {r} : run'[q] = run[q],
               run'[r].source = run[r].source, run'[r].status \in Active => run[r].status \in Active
        PROVE OneActivePerSource'
    BY <2>2
  <2>3. ASSUME NEW s \in Source, NEW r \in RunId, NEW due \in BOOLEAN, Enqueue(s, r, due)
        PROVE OneActivePerSource'
    BY <2>1, <2>3 DEF Enqueue
  <2>4. ASSUME NEW r \in RunId, BecomeDue(r) \/ RequestCancel(r) \/ LeaseExpires(r)
        PROVE OneActivePerSource'
    BY <2>0, <2>2, <2>4 DEF BecomeDue, RequestCancel, LeaseExpires, TypeOK, RunRow, Active
  <2>5. ASSUME NEW e \in Executor, NEW s \in Source, NEW r \in RunId, RunOnceQueue(e, s, r)
        PROVE OneActivePerSource'
    BY <2>1, <2>5 DEF RunOnceQueue
  <2>6. ASSUME NEW e \in Executor, NEW r \in RunId, Claim(e, r)
        PROVE OneActivePerSource'
    BY <2>0, <2>2, <2>6 DEF Claim, Leased, TypeOK, RunRow, Active
  <2>7. ASSUME NEW e \in Executor, RunOnceStart(e) PROVE OneActivePerSource'
    <3> DEFINE r == thread[e]
    <3>1. r \in RunId
      BY <2>7 DEF RunOnceStart, TypeOK
    <3>2. run'[r].source = run[r].source /\ \A q \in RunId \ {r} : run'[q] = run[q]
      BY <2>0, <2>7, <3>1 DEF RunOnceStart, Leased, TypeOK, RunRow
    <3> QED
      BY <2>7, <3>1, <3>2 DEF RunOnceStart, SlotFree
  <2>8. ASSUME NEW e \in Executor, Heartbeat(e) PROVE OneActivePerSource'
    BY <2>0, <2>2, <2>8 DEF Heartbeat, TypeOK, RunRow, Active
  <2>9. ASSUME NEW e \in Executor, NEW outcome \in Terminal, phase[e] # "IDLE",
               run' = [run EXCEPT ![thread[e]].status = outcome,
                                  ![thread[e]].owner = NULL, ![thread[e]].lease = "NONE"]
        PROVE OneActivePerSource'
    BY <2>0, <2>2, <2>9 DEF TypeOK, RunRow, Active, Terminal
  <2>10. ASSUME NEW e \in Executor, NEW outcome \in Outcomes, FinishRun(e, outcome)
         PROVE OneActivePerSource'
    BY <2>9, <2>10 DEF FinishRun
  <2>11. ASSUME NEW e \in Executor, FailAfterFinish(e) PROVE OneActivePerSource'
    BY <2>9, <2>11 DEF FailAfterFinish, Terminal
  <2>12. ASSUME NEW r \in RunId, NEW child \in RunId \cup {NULL}, Reclaim(r, child)
         PROVE OneActivePerSource'
    <3>1. CASE ~(ChainMayGrow(r) /\ sourceActive[run[r].source])
      <4>1. run[r].status = "RUNNING" /\ run' = [run EXCEPT ![r].status = "ABANDONED"]
        BY <2>12, <3>1 DEF Reclaim
      <4>2. run'[r].source = run[r].source /\ \A q \in RunId \ {r} : run'[q] = run[q]
        BY <2>0, <4>1 DEF TypeOK, RunRow
      <4> QED
        BY <2>2, <4>1, <4>2 DEF Active
    <3>2. CASE ChainMayGrow(r) /\ sourceActive[run[r].source]
      <4>1. /\ child \in RunId /\ child # r
            /\ run'[child].source = run[r].source
            /\ run'[r].status = "ABANDONED"
            /\ \A q \in RunId \ {r, child} : run'[q] = run[q]
        <5>1. /\ child \in RunId /\ run[child].status = "UNUSED" /\ run[r].status = "RUNNING"
              /\ run' = [run EXCEPT ![r].status = "ABANDONED",
                                    ![child] = QueuedRow(run[r].source, TRUE, r, run[r].attempt + 1)]
          BY <2>12, <3>2 DEF Reclaim
        <5>2. child # r
          BY <5>1
        <5>3. QueuedRow(run[r].source, TRUE, r, run[r].attempt + 1).source = run[r].source
          BY DEF QueuedRow, UnusedRow
        <5> QED
          BY <2>0, <5>1, <5>2, <5>3 DEF TypeOK, RunRow
      <4> QED
        BY <2>12, <4>1 DEF Reclaim, Active
    <3> QED
      BY <3>1, <3>2
  <2>13. ASSUME UNCHANGED run PROVE OneActivePerSource'
    BY <2>13
  <2> QED
    BY <2>3, <2>4, <2>5, <2>6, <2>7, <2>8, <2>10, <2>11, <2>12, <2>13
    DEF Next, SetSourceStatus, RunOnceFails, Return, Crash, Leave, vars
<1> QED
  BY <1>1, <1>2, TypeCorrect, PTL DEF Spec

-----------------------------------------------------------------------------
\* Rows that others refer to exist: a run's parent, and the run an executor works on.
ReferencesExist ==
  /\ \A r \in RunId : run[r].parent # NULL => run[run[r].parent].status # "UNUSED"
  /\ \A e \in Executor : thread[e] # NULL => run[thread[e]].status # "UNUSED"

LineageInv == ResumeChainBounded /\ ReferencesExist

\* A step that keeps parents, attempts and the existence of rows keeps the lineage.
LEMMA LineageKept ==
  ASSUME TypeOK, LineageInv,
         \A q \in RunId : /\ run'[q].parent = run[q].parent
                          /\ run'[q].attempt = run[q].attempt
                          /\ run[q].status = "UNUSED" <=> run'[q].status = "UNUSED",
         \A e \in Executor : thread'[e] # NULL => run[thread'[e]].status # "UNUSED" /\ thread'[e] \in RunId
  PROVE  LineageInv'
<1>1. \A q \in RunId : run[q].parent \in RunId \cup {NULL}
  BY DEF TypeOK, RunRow
<1>2. ResumeChainBounded'
  BY <1>1 DEF LineageInv, ResumeChainBounded
<1>3. ReferencesExist'
  BY <1>1 DEF LineageInv, ReferencesExist
<1> QED
  BY <1>2, <1>3 DEF LineageInv

\* Inserting a requested run.
LEMMA LineageQueued ==
  ASSUME TypeOK, LineageInv, NEW s \in Source, NEW r \in RunId, NEW due \in BOOLEAN,
         run[r].status = "UNUSED", run' = [run EXCEPT ![r] = QueuedRow(s, due, NULL, 1)],
         \A e \in Executor : thread'[e] \in {thread[e], r}
  PROVE  LineageInv'
<1>1. \A q \in RunId : run[q].parent \in RunId \cup {NULL}
  BY DEF TypeOK, RunRow
<1>2. /\ run'[r].parent = NULL /\ run'[r].attempt = 1 /\ run'[r].status = "QUEUED"
      /\ \A q \in RunId \ {r} : run'[q] = run[q]
  BY DEF QueuedRow, UnusedRow, TypeOK
<1>3. \A q \in RunId : run[q].parent # r
  BY <1>1, NullAssumption DEF LineageInv, ReferencesExist
<1>4. ResumeChainBounded'
  BY <1>1, <1>2, <1>3 DEF LineageInv, ResumeChainBounded
<1>5. ReferencesExist'
  BY <1>1, <1>2, <1>3, NullAssumption DEF LineageInv, ReferencesExist, TypeOK
<1> QED
  BY <1>4, <1>5 DEF LineageInv

\* The reclaimer's test of the chain: a run it resumes is at most the third attempt.
LEMMA ChainTest ==
  ASSUME TypeOK, LineageInv, NEW r \in RunId, run[r].status # "UNUSED", ChainMayGrow(r)
  PROVE  run[r].attempt \in 1..3
<1>1. \A q \in RunId : run[q].parent \in RunId \cup {NULL}
  BY DEF TypeOK, RunRow
<1>2. ASSUME NEW q \in RunId, run[q].status # "UNUSED", run[q].parent # NULL
      PROVE  /\ run[q].parent \in RunId /\ run[run[q].parent].status # "UNUSED"
             /\ run[q].attempt = run[run[q].parent].attempt + 1
  BY <1>1, <1>2 DEF LineageInv, ResumeChainBounded, ReferencesExist
<1>3. ASSUME NEW q \in RunId, run[q].status # "UNUSED", run[q].parent = NULL
      PROVE  run[q].attempt = 1
  BY <1>3 DEF LineageInv, ResumeChainBounded
<1>4. CASE run[r].parent = NULL
  BY <1>3, <1>4
<1>5. CASE run[r].parent # NULL
  <2> DEFINE p == run[r].parent
  <2>1. p \in RunId /\ run[p].status # "UNUSED" /\ run[r].attempt = run[p].attempt + 1
    BY <1>2, <1>5
  <2>2. CASE run[p].parent = NULL
    BY <1>3, <2>1, <2>2
  <2>3. CASE run[p].parent # NULL
    <3> DEFINE q == run[p].parent
    <3>1. q \in RunId /\ run[q].status # "UNUSED" /\ run[p].attempt = run[q].attempt + 1
      BY <1>2, <2>1, <2>3
    <3>2. run[q].parent = NULL
      BY <1>5, <2>1, <2>3, <3>1, NullAssumption DEF ChainMayGrow, ParentOf
    <3> QED
      BY <1>3, <2>1, <3>1, <3>2
  <2> QED
    BY <2>2, <2>3
<1> QED
  BY <1>4, <1>5

\* A run that keeps killing its executor is given up after MAX_RESUMES resumed attempts.
THEOREM ChainBounded == Spec => []ResumeChainBounded
<1>1. Init => LineageInv
  BY DEF Init, LineageInv, ResumeChainBounded, ReferencesExist, UnusedRow
<1>2. TypeOK /\ LineageInv /\ [Next]_vars => LineageInv'
  <2> SUFFICES ASSUME TypeOK, LineageInv, [Next]_vars PROVE LineageInv'
    OBVIOUS
  <2> USE NullAssumption, ExecutorAssumption, OutcomesAssumption
  <2>0. /\ \A r \in RunId : run[r] \in RunRow
        /\ \A e \in Executor : thread[e] # NULL => thread[e] \in RunId /\ run[thread[e]].status # "UNUSED"
    BY DEF TypeOK, LineageInv, ReferencesExist
  <2>1. ASSUME NEW s \in Source, NEW r \in RunId, NEW due \in BOOLEAN, Enqueue(s, r, due)
        PROVE LineageInv'
    BY <2>1, LineageQueued DEF Enqueue
  <2>2. ASSUME NEW e \in Executor, NEW s \in Source, NEW r \in RunId, RunOnceQueue(e, s, r)
        PROVE LineageInv'
    BY <2>2, LineageQueued DEF RunOnceQueue, TypeOK
  <2>3. ASSUME NEW r \in RunId, BecomeDue(r) \/ RequestCancel(r) \/ LeaseExpires(r)
        PROVE LineageInv'
    BY <2>0, <2>3, LineageKept DEF BecomeDue, RequestCancel, LeaseExpires, TypeOK, RunRow, Active
  <2>4. ASSUME NEW e \in Executor, NEW r \in RunId, Claim(e, r) PROVE LineageInv'
    <3>1. \A d \in Executor : thread'[d] # NULL => run[thread'[d]].status # "UNUSED" /\ thread'[d] \in RunId
      BY <2>0, <2>4 DEF Claim, TypeOK
    <3> QED
      BY <2>0, <2>4, <3>1, LineageKept DEF Claim, Leased, TypeOK, RunRow
  <2>5. ASSUME NEW e \in Executor, RunOnceStart(e) PROVE LineageInv'
    BY <2>0, <2>5, LineageKept DEF RunOnceStart, Leased, TypeOK, RunRow
  <2>6. ASSUME NEW e \in Executor, Heartbeat(e) PROVE LineageInv'
    BY <2>0, <2>6, LineageKept DEF Heartbeat, TypeOK, RunRow
  <2>7. ASSUME NEW e \in Executor, NEW outcome \in Terminal, phase[e] # "IDLE", thread' = thread,
               run' = [run EXCEPT ![thread[e]].status = outcome,
                                  ![thread[e]].owner = NULL, ![thread[e]].lease = "NONE"]
        PROVE LineageInv'
    BY <2>0, <2>7, LineageKept DEF TypeOK, RunRow, Terminal
  <2>8. ASSUME NEW e \in Executor, NEW outcome \in Outcomes, FinishRun(e, outcome) PROVE LineageInv'
    BY <2>7, <2>8 DEF FinishRun
  <2>9. ASSUME NEW e \in Executor, FailAfterFinish(e) PROVE LineageInv'
    BY <2>7, <2>9 DEF FailAfterFinish, Terminal
  <2>10. ASSUME NEW e \in Executor, RunOnceFails(e) \/ Return(e) \/ Crash(e) PROVE LineageInv'
    BY <2>0, <2>10, LineageKept DEF RunOnceFails, Return, Crash, Leave, TypeOK
  <2>11. ASSUME NEW r \in RunId, NEW child \in RunId \cup {NULL}, Reclaim(r, child)
         PROVE LineageInv'
    <3>0. run[r].status = "RUNNING" /\ thread' = thread
      BY <2>11 DEF Reclaim
    <3>1. CASE ~(ChainMayGrow(r) /\ sourceActive[run[r].source])
      <4>1. run' = [run EXCEPT ![r].status = "ABANDONED"]
        BY <2>11, <3>1 DEF Reclaim
      <4> QED
        BY <2>0, <3>0, <4>1, LineageKept DEF TypeOK, RunRow
    <3>2. CASE ChainMayGrow(r) /\ sourceActive[run[r].source]
      <4> DEFINE new == QueuedRow(run[r].source, TRUE, r, run[r].attempt + 1)
      <4>1. /\ child \in RunId /\ run[child].status = "UNUSED"
            /\ run' = [run EXCEPT ![r].status = "ABANDONED", ![child] = new]
        BY <2>11, <3>2 DEF Reclaim
      <4>2. new.parent = r /\ new.attempt = run[r].attempt + 1 /\ new.status = "QUEUED"
        BY DEF QueuedRow, UnusedRow
      <4> HIDE DEF new
      <4>3. /\ run'[child] = new /\ run'[r].status = "ABANDONED"
            /\ run'[r].parent = run[r].parent /\ run'[r].attempt = run[r].attempt
            /\ \A q \in RunId \ {r, child} : run'[q] = run[q]
        BY <2>0, <3>0, <4>1 DEF TypeOK, RunRow
      <4>4. \A q \in RunId : run[q].parent \in RunId \cup {NULL} /\ run[q].parent # child
        BY <2>0, <4>1 DEF LineageInv, ReferencesExist, RunRow
      <4>5. run[r].attempt \in 1..3
        BY <3>0, <3>2, ChainTest
      <4>6. \A q \in RunId \ {child} : /\ run'[q].parent = run[q].parent
                                       /\ run'[q].attempt = run[q].attempt
                                       /\ run[q].status = "UNUSED" <=> run'[q].status = "UNUSED"
        BY <3>0, <4>1, <4>3
      <4>7. r # child /\ run'[child].parent = r /\ run'[child].attempt = run'[r].attempt + 1
            /\ run'[child].attempt \in 2..4 /\ run'[child].status = "QUEUED"
        BY <3>0, <4>1, <4>2, <4>3, <4>5
      <4>8. ResumeChainBounded'
        <5>1. ASSUME NEW q \in RunId \ {child}, run'[q].status # "UNUSED"
              PROVE  /\ run'[q].attempt \in 1..4
                     /\ run'[q].attempt = 1 <=> run'[q].parent = NULL
                     /\ run'[q].parent # NULL => run'[q].attempt = run'[run'[q].parent].attempt + 1
          BY <4>4, <4>6, <5>1 DEF LineageInv, ResumeChainBounded
        <5>2. /\ run'[child].attempt \in 1..4
              /\ run'[child].attempt = 1 <=> run'[child].parent = NULL
              /\ run'[child].parent # NULL => run'[child].attempt = run'[run'[child].parent].attempt + 1
          BY <4>7
        <5> QED
          BY <5>1, <5>2 DEF ResumeChainBounded
      <4>9. ReferencesExist'
        <5>1. ASSUME NEW q \in RunId, run'[q].parent # NULL
              PROVE  run'[run'[q].parent].status # "UNUSED"
          BY <3>0, <4>3, <4>4, <4>6, <4>7, <5>1 DEF LineageInv, ReferencesExist
        <5>2. ASSUME NEW e \in Executor, thread'[e] # NULL PROVE run'[thread'[e]].status # "UNUSED"
          BY <2>0, <3>0, <4>6, <4>7, <5>2
        <5> QED
          BY <5>1, <5>2 DEF ReferencesExist
      <4> QED
        BY <4>8, <4>9 DEF LineageInv
    <3> QED
      BY <3>1, <3>2
  <2>12. ASSUME UNCHANGED <<run, thread>> PROVE LineageInv'
    BY <2>0, <2>12, LineageKept
  <2> QED
    BY <2>1, <2>2, <2>3, <2>4, <2>5, <2>6, <2>8, <2>9, <2>10, <2>11, <2>12
    DEF Next, SetSourceStatus, vars
<1>3. LineageInv => ResumeChainBounded
  BY DEF LineageInv
<1> QED
  BY <1>1, <1>2, <1>3, TypeCorrect, PTL DEF Spec

-----------------------------------------------------------------------------
\* RUNNING rows carry a lease, so the reclaimer can always find a run whose executor is gone.
THEOREM Leases == Spec => []RunningIsLeased
<1>1. Init => RunningIsLeased
  BY SMTT(40) DEF Init, RunningIsLeased, UnusedRow, Active
<1>2. TypeOK /\ RunningIsLeased /\ [Next]_vars => RunningIsLeased'
  <2> SUFFICES ASSUME TypeOK, RunningIsLeased, [Next]_vars PROVE RunningIsLeased'
    OBVIOUS
  <2> USE NullAssumption, ExecutorAssumption, OutcomesAssumption
  <2>0. \A r \in RunId : run[r] \in RunRow
    BY DEF TypeOK
  <2>1. ASSUME NEW r \in RunId, \A q \in RunId \ {r} : run'[q] = run[q],
               run'[r].status = "RUNNING" <=> run'[r].status \in Active /\ run'[r].lease # "NONE"
        PROVE RunningIsLeased'
    BY <2>1 DEF RunningIsLeased
  <2>2. ASSUME NEW s \in Source, NEW r \in RunId, NEW due \in BOOLEAN,
               run' = [run EXCEPT ![r] = QueuedRow(s, due, NULL, 1)]
        PROVE RunningIsLeased'
    BY <2>1, <2>2 DEF QueuedRow, UnusedRow, TypeOK, Active
  <2>3. ASSUME NEW r \in RunId, BecomeDue(r) \/ RequestCancel(r) \/ LeaseExpires(r)
        PROVE RunningIsLeased'
    BY <2>0, <2>1, <2>3 DEF BecomeDue, RequestCancel, LeaseExpires, RunningIsLeased, TypeOK, RunRow, Active
  <2>4. ASSUME NEW e \in Executor, NEW r \in RunId, Claim(e, r) PROVE RunningIsLeased'
    BY <2>0, <2>1, <2>4 DEF Claim, Leased, TypeOK, RunRow, Active
  <2>5. ASSUME NEW e \in Executor, RunOnceStart(e) PROVE RunningIsLeased'
    BY <2>0, <2>1, <2>5 DEF RunOnceStart, Leased, TypeOK, RunRow, Active
  <2>6. ASSUME NEW e \in Executor, Heartbeat(e) PROVE RunningIsLeased'
    BY <2>0, <2>1, <2>6 DEF Heartbeat, TypeOK, RunRow, Active
  <2>7. ASSUME NEW e \in Executor, NEW outcome \in Terminal, phase[e] # "IDLE",
               run' = [run EXCEPT ![thread[e]].status = outcome,
                                  ![thread[e]].owner = NULL, ![thread[e]].lease = "NONE"]
        PROVE RunningIsLeased'
    BY <2>0, <2>1, <2>7 DEF TypeOK, RunRow, Active, Terminal
  <2>8. ASSUME NEW r \in RunId, NEW child \in RunId \cup {NULL}, Reclaim(r, child)
        PROVE RunningIsLeased'
    <3>1. CASE ~(ChainMayGrow(r) /\ sourceActive[run[r].source])
      <4>1. run' = [run EXCEPT ![r].status = "ABANDONED"]
        BY <2>8, <3>1 DEF Reclaim
      <4> QED
        BY <2>0, <2>1, <4>1 DEF TypeOK, RunRow, Active
    <3>2. CASE ChainMayGrow(r) /\ sourceActive[run[r].source]
      <4> DEFINE new == QueuedRow(run[r].source, TRUE, r, run[r].attempt + 1)
      <4>1. /\ child \in RunId /\ run[child].status = "UNUSED" /\ run[r].status = "RUNNING"
            /\ run' = [run EXCEPT ![r].status = "ABANDONED", ![child] = new]
        BY <2>8, <3>2 DEF Reclaim
      <4>2. new.status = "QUEUED" /\ new.lease = "NONE"
        BY DEF QueuedRow, UnusedRow
      <4> HIDE DEF new
      <4>3. child # r /\ run'[child] = new /\ run'[r].status = "ABANDONED"
            /\ \A q \in RunId \ {r, child} : run'[q] = run[q]
        BY <2>0, <4>1 DEF TypeOK, RunRow
      <4> QED
        BY <4>2, <4>3 DEF RunningIsLeased, Active
    <3> QED
      BY <3>1, <3>2
  <2>9. ASSUME UNCHANGED run PROVE RunningIsLeased'
    BY <2>9 DEF RunningIsLeased
  <2> QED
    BY <2>2, <2>3, <2>4, <2>5, <2>6, <2>7, <2>8, <2>9
    DEF Next, Enqueue, RunOnceQueue, FinishRun, FailAfterFinish, SetSourceStatus, RunOnceFails, Return, Crash,
        Leave, vars, Terminal
<1> QED
  BY <1>1, <1>2, TypeCorrect, PTL DEF Spec

-----------------------------------------------------------------------------
\* What an executor with reliable heartbeats knows: its run is RUNNING, leased to it, and the
\* lease is valid, until it closes the run itself.
HoldsLease(e) == run[thread[e]].status = "RUNNING" /\ run[thread[e]].owner = e /\ run[thread[e]].lease = "VALID"

ExecutorInv ==
  \A e \in Executor : /\ phase[e] # "STARTING"
                      /\ phase[e] = "EXECUTING" => HoldsLease(e)
                      /\ phase[e] = "FINISHED" => run[thread[e]].status \in Terminal

\* A step on a row that nobody executes, and that leaves the executors alone.
LEMMA OthersRow ==
  ASSUME TypeOK, ExecutorInv, NEW r \in RunId, UNCHANGED <<thread, phase>>,
         \A q \in RunId \ {r} : run'[q] = run[q],
         \A e \in Executor : thread[e] = r => phase[e] # "EXECUTING",
         run[r].status \in Terminal => run'[r].status \in Terminal
  PROVE  ExecutorInv'
<1>1. ASSUME NEW e \in Executor, phase[e] # "IDLE" PROVE thread[e] \in RunId
  BY <1>1 DEF TypeOK
<1> QED
  BY <1>1 DEF ExecutorInv, HoldsLease

\* The lease holds in every state, when no heartbeat fails and no run is inline.
LEMMA LeasesAreHeld ==
  ASSUME HeartbeatReliable, Caller = {}
  PROVE  Spec => []ExecutorInv
<1> USE NullAssumption, ExecutorAssumption, OutcomesAssumption
<1>1. Init => ExecutorInv
  BY DEF Init, ExecutorInv
<1>2. TypeOK /\ ExecutorInv /\ [Next]_vars => ExecutorInv'
  <2> SUFFICES ASSUME TypeOK, ExecutorInv, [Next]_vars PROVE ExecutorInv'
    OBVIOUS
  <2>0. /\ \A r \in RunId : run[r] \in RunRow
        /\ \A e \in Executor : phase[e] # "IDLE" => thread[e] \in RunId
        /\ \A e \in Executor : phase[e] = "EXECUTING" => HoldsLease(e)
        /\ Slot = Executor
    BY DEF TypeOK, ExecutorInv, Executor
  <2>1. ASSUME NEW s \in Source, NEW r \in RunId, NEW due \in BOOLEAN, Enqueue(s, r, due)
        PROVE ExecutorInv'
    <3>1. \A q \in RunId \ {r} : run'[q] = run[q]
      BY <2>1 DEF Enqueue, TypeOK
    <3>2. run[r].status \notin Terminal /\ \A e \in Executor : thread[e] = r => phase[e] # "EXECUTING"
      BY <2>0, <2>1 DEF Enqueue, HoldsLease, Terminal
    <3> QED
      BY <2>1, <3>1, <3>2, OthersRow DEF Enqueue
  <2>2. ASSUME NEW r \in RunId, BecomeDue(r) PROVE ExecutorInv'
    BY <2>0, <2>2, OthersRow DEF BecomeDue, HoldsLease, TypeOK, RunRow, Terminal
  <2>3. ASSUME NEW r \in RunId, RequestCancel(r) PROVE ExecutorInv'
    <3>1. /\ \A q \in RunId \ {r} : run'[q] = run[q]
          /\ run'[r].owner = run[r].owner /\ run'[r].lease = run[r].lease
          /\ run[r].status = "RUNNING" => run'[r].status = "RUNNING"
          /\ run[r].status \notin Terminal
      BY <2>0, <2>3 DEF RequestCancel, TypeOK, RunRow, Active, Terminal
    <3> QED
      <4>1. UNCHANGED <<thread, phase>>
        BY <2>3 DEF RequestCancel
      <4>2. ASSUME NEW e \in Executor, phase[e] = "EXECUTING" PROVE HoldsLease(e)'
        BY <2>0, <3>1, <4>1, <4>2 DEF HoldsLease
      <4>3. ASSUME NEW e \in Executor, phase[e] = "FINISHED" PROVE run'[thread[e]].status \in Terminal
        BY <2>0, <3>1, <4>3 DEF ExecutorInv
      <4> QED
        BY <4>1, <4>2, <4>3 DEF ExecutorInv
  <2>4. ASSUME NEW r \in RunId, LeaseExpires(r) PROVE ExecutorInv'
    <3>1. /\ \A q \in RunId \ {r} : run'[q] = run[q]
          /\ \A e \in Executor : thread[e] = r => phase[e] # "EXECUTING"
      BY <2>0, <2>4 DEF LeaseExpires, Executing, TypeOK
    <3> QED
      BY <2>4, <3>1, OthersRow DEF LeaseExpires, Terminal
  <2>5. ASSUME NEW e \in Executor, NEW r \in RunId, Claim(e, r) PROVE ExecutorInv'
    <3>1. /\ run'[r].status = "RUNNING" /\ run'[r].owner = e /\ run'[r].lease = "VALID"
          /\ \A q \in RunId \ {r} : run'[q] = run[q]
          /\ thread'[e] = r /\ phase'[e] = "EXECUTING"
          /\ \A d \in Executor \ {e} : thread'[d] = thread[d] /\ phase'[d] = phase[d]
      BY <2>0, <2>5 DEF Claim, Leased, TypeOK, RunRow
    <3>2. \A d \in Executor : thread[d] = r => phase[d] \notin {"EXECUTING", "FINISHED"}
      BY <2>0, <2>5 DEF Claim, HoldsLease, ExecutorInv, Terminal
    <3> QED
      BY <2>0, <3>1, <3>2 DEF ExecutorInv, HoldsLease
  <2>6. ASSUME NEW e \in Executor, Heartbeat(e) PROVE ExecutorInv'
    BY <2>0, <2>6 DEF Heartbeat, HoldsLease
  <2>7. ASSUME NEW e \in Executor, NEW outcome \in Outcomes, FinishRun(e, outcome)
        PROVE ExecutorInv'
    <3> DEFINE r == thread[e]
    <3>1. r \in RunId /\ run[r].status = "RUNNING" /\ run[r].owner = e
      BY <2>0, <2>7 DEF FinishRun, HoldsLease
    <3>2. /\ run'[r].status \in Terminal /\ \A q \in RunId \ {r} : run'[q] = run[q]
          /\ phase'[e] = "FINISHED" /\ thread' = thread
          /\ \A d \in Executor \ {e} : phase'[d] = phase[d]
      BY <2>0, <2>7, <3>1 DEF FinishRun, TypeOK, RunRow
    <3>3. \A d \in Executor \ {e} : phase[d] \in {"EXECUTING", "FINISHED"} => thread[d] # r
      BY <2>0, <3>1 DEF ExecutorInv, HoldsLease, Terminal
    <3> QED
      BY <2>0, <3>2, <3>3 DEF ExecutorInv, HoldsLease
  <2>8. ASSUME NEW e \in Executor, FailAfterFinish(e) PROVE ExecutorInv'
    <3> DEFINE r == thread[e]
    <3>1. r \in RunId /\ run[r].status \in Terminal
      BY <2>0, <2>8 DEF FailAfterFinish, ExecutorInv
    <3>2. run'[r].status \in Terminal /\ \A q \in RunId \ {r} : run'[q] = run[q]
      BY <2>0, <2>8, <3>1 DEF FailAfterFinish, TypeOK, RunRow, Terminal
    <3>3. \A d \in Executor : thread[d] = r => phase[d] # "EXECUTING"
      BY <2>0, <3>1 DEF HoldsLease, Terminal
    <3> QED
      BY <2>8, <3>1, <3>2, <3>3, OthersRow DEF FailAfterFinish
  <2>9. ASSUME NEW e \in Executor, Return(e) \/ Crash(e) PROVE ExecutorInv'
    BY <2>0, <2>9 DEF Return, Crash, Leave, ExecutorInv, HoldsLease, TypeOK
  <2>10. ASSUME NEW r \in RunId, NEW child \in RunId \cup {NULL}, Reclaim(r, child)
         PROVE ExecutorInv'
    <3>1. /\ run[r].status = "RUNNING" /\ run[r].lease = "EXPIRED" /\ UNCHANGED <<thread, phase>>
          /\ \A q \in RunId \ {r, child} : run'[q] = run[q]
          /\ child \in RunId => run[child].status = "UNUSED"
      <4>1. CASE ChainMayGrow(r) /\ sourceActive[run[r].source]
        BY <2>0, <2>10, <4>1 DEF Reclaim, TypeOK
      <4>2. CASE ~(ChainMayGrow(r) /\ sourceActive[run[r].source])
        BY <2>0, <2>10, <4>2 DEF Reclaim, TypeOK
      <4> QED
        BY <4>1, <4>2
    <3>2. \A e \in Executor : phase[e] \in {"EXECUTING", "FINISHED"} => thread[e] \in RunId \ {r, child}
      BY <2>0, <3>1 DEF ExecutorInv, HoldsLease, Terminal
    <3> QED
      BY <3>1, <3>2 DEF ExecutorInv, HoldsLease
  <2>11. CASE UNCHANGED <<run, thread, phase>>
    BY <2>11 DEF ExecutorInv, HoldsLease
  <2>12. \A e \in Executor, s \in Source, r \in RunId : ~RunOnceQueue(e, s, r)
    BY DEF RunOnceQueue
  <2>13. \A e \in Executor : ~RunOnceStart(e) /\ ~RunOnceFails(e)
    BY DEF RunOnceStart, RunOnceFails, ExecutorInv
  <2> QED
    BY <2>1, <2>2, <2>3, <2>4, <2>5, <2>6, <2>7, <2>8, <2>9, <2>10, <2>11, <2>12, <2>13
    DEF Next, SetSourceStatus, vars
<1> QED
  BY <1>1, <1>2, TypeCorrect, PTL DEF Spec

\* With heartbeats that do not fail and no inline runs, no two threads ever work on one source.
THEOREM Exclusive == Spec => []ExclusiveExecution
<1>1. CASE ~(HeartbeatReliable /\ Caller = {})
  <2>1. ExclusiveExecution
    BY <1>1 DEF ExclusiveExecution
  <2> QED
    BY <2>1, PTL
<1>2. CASE HeartbeatReliable /\ Caller = {}
  <2>1. Spec => []ExecutorInv
    BY <1>2, LeasesAreHeld
  <2>2. TypeOK /\ OneActivePerSource /\ ExecutorInv => ExclusiveExecution
    BY DEF TypeOK, OneActivePerSource, ExecutorInv, HoldsLease, ExclusiveExecution, Active
  <2> QED
    BY <2>1, <2>2, TypeCorrect, OneActive, PTL
<1> QED
  BY <1>1, <1>2

-----------------------------------------------------------------------------
\* A run that was taken from the queue.
Taken(r) == run[r].status \notin {"UNUSED", "QUEUED"}

\* A row that exists keeps its source, and a run that was taken is never queued again.
LEMMA RowsStay ==
  ASSUME TypeOK, [Next]_vars, NEW r \in RunId, run[r].status # "UNUSED"
  PROVE  /\ run'[r].status # "UNUSED" /\ run'[r].source = run[r].source
         /\ Taken(r) => run'[r].status \notin {"UNUSED", "QUEUED"}
<1> USE NullAssumption, ExecutorAssumption, OutcomesAssumption DEF Taken
<1>0. /\ run \in [RunId -> RunRow] /\ \A q \in RunId : run[q] \in RunRow
      /\ \A e \in Executor : phase[e] # "IDLE" => thread[e] \in RunId
      /\ \A outcome \in Outcomes \cup {"FAILED"} : outcome \notin {"UNUSED", "QUEUED"}
  BY DEF TypeOK, Terminal
<1>1. ASSUME NEW s \in Source, NEW q \in RunId, NEW due \in BOOLEAN, Enqueue(s, q, due)
      PROVE  run'[r] = run[r]
  BY <1>0, <1>1 DEF Enqueue
<1>2. ASSUME NEW q \in RunId, BecomeDue(q) \/ RequestCancel(q) \/ LeaseExpires(q)
      PROVE  /\ run'[r].source = run[r].source
             /\ \/ run'[r].status = run[r].status
                \/ run[r].status = "QUEUED" /\ run'[r].status = "CANCELLED"
  <2>1. CASE BecomeDue(q)
    <3>1. run' = [run EXCEPT ![q].due = TRUE]
      BY <2>1 DEF BecomeDue
    <3>2. run'[r] = run[r] \/ run'[r] = [run[r] EXCEPT !.due = TRUE]
      BY <1>0, <3>1
    <3>3. \A row \in RunRow : LET new == [row EXCEPT !.due = TRUE]
                             IN  new.source = row.source /\ new.status = row.status
      BY DEF RunRow
    <3> QED
      BY <1>0, <3>2, <3>3
  <2>2. CASE RequestCancel(q)
    <3>1. run' = [run EXCEPT ![q].cancel = TRUE, ![q].status = IF @ = "QUEUED" THEN "CANCELLED" ELSE @]
      BY <2>2 DEF RequestCancel
    <3>2. run'[r] = run[r] \/ run'[r] = [[run[r] EXCEPT !.cancel = TRUE] EXCEPT
                                          !.status = IF @ = "QUEUED" THEN "CANCELLED" ELSE @]
      BY <1>0, <3>1
    <3>3. \A row \in RunRow : LET new == [[row EXCEPT !.cancel = TRUE] EXCEPT
                                          !.status = IF @ = "QUEUED" THEN "CANCELLED" ELSE @]
                             IN  /\ new.source = row.source
                                 /\ new.status = IF row.status = "QUEUED" THEN "CANCELLED" ELSE row.status
      BY DEF RunRow
    <3> QED
      BY <1>0, <3>2, <3>3
  <2>3. CASE LeaseExpires(q)
    BY <1>0, <2>3 DEF LeaseExpires, RunRow
  <2> QED
    BY <1>2, <2>1, <2>2, <2>3
<1>3. ASSUME NEW e \in Executor, NEW q \in RunId, Claim(e, q)
      PROVE  run'[r].source = run[r].source /\ run'[r].status \in {run[r].status, "RUNNING"}
  BY <1>0, <1>3 DEF Claim, Leased, RunRow
<1>4. ASSUME NEW e \in Executor, NEW s \in Source, NEW q \in RunId, RunOnceQueue(e, s, q)
      PROVE  run'[r] = run[r]
  BY <1>0, <1>4 DEF RunOnceQueue
<1>5. ASSUME NEW e \in Executor, RunOnceStart(e)
      PROVE  run'[r].source = run[r].source /\ run'[r].status \in {run[r].status, "RUNNING"}
  BY <1>0, <1>5 DEF RunOnceStart, Leased, RunRow
<1>6. ASSUME NEW e \in Executor, Heartbeat(e)
      PROVE  run'[r].source = run[r].source /\ run'[r].status = run[r].status
  BY <1>0, <1>6 DEF Heartbeat, RunRow
<1>7. ASSUME NEW e \in Executor, NEW outcome \in Outcomes, FinishRun(e, outcome)
      PROVE  run'[r].source = run[r].source /\ run'[r].status \in {run[r].status, outcome}
  BY <1>0, <1>7 DEF FinishRun, RunRow
<1>8. ASSUME NEW e \in Executor, FailAfterFinish(e)
      PROVE  run'[r].source = run[r].source /\ run'[r].status \in {run[r].status, "FAILED"}
  BY <1>0, <1>8 DEF FailAfterFinish, RunRow
<1>9. ASSUME NEW q \in RunId, NEW child \in RunId \cup {NULL}, Reclaim(q, child)
      PROVE  run'[r].source = run[r].source /\ run'[r].status \in {run[r].status, "ABANDONED"}
  <2>1. \/ run' = [run EXCEPT ![q].status = "ABANDONED"]
        \/ /\ child \in RunId /\ run[child].status = "UNUSED"
           /\ run' = [run EXCEPT ![q].status = "ABANDONED",
                                 ![child] = QueuedRow(run[q].source, TRUE, q, run[q].attempt + 1)]
    BY <1>9 DEF Reclaim
  <2>2. r # child \/ run' = [run EXCEPT ![q].status = "ABANDONED"]
    BY <2>1
  <2>3. run'[r] = run[r] \/ run'[r] = [run[r] EXCEPT !.status = "ABANDONED"]
    BY <1>0, <2>1, <2>2
  <2> QED
    BY <1>0, <2>3 DEF RunRow
<1>10. CASE UNCHANGED run
  BY <1>10
<1> QED
  BY <1>0, <1>1, <1>2, <1>3, <1>4, <1>5, <1>6, <1>7, <1>8, <1>9, <1>10
  DEF Next, SetSourceStatus, RunOnceFails, Return, Crash, Leave, vars

\* What holds of the pool alone, whether or not heartbeats get through: a thread works on a run that
\* was taken from the queue, and on a run of its own.
PoolInv ==
  /\ \A r \in RunId : run[r].status # "UNUSED" => run[r].source \in Source
  /\ \A e \in Executor : thread[e] # NULL => Taken(thread[e]) /\ phase[e] # "STARTING"
  /\ \A d, e \in Executor : thread[d] = thread[e] /\ thread[e] # NULL => d = e

\* Without inline runs no run ever has two threads, however late the first one is.
THEOREM OneThreadPerRun ==
  ASSUME Caller = {}
  PROVE  Spec => []PoolInv
<1> USE NullAssumption, ExecutorAssumption, OutcomesAssumption
<1>1. Init => PoolInv
  BY DEF Init, PoolInv, UnusedRow
<1>2. TypeOK /\ PoolInv /\ [Next]_vars => PoolInv'
  <2> SUFFICES ASSUME TypeOK, PoolInv, [Next]_vars PROVE PoolInv'
    OBVIOUS
  <2>0. /\ run \in [RunId -> RunRow] /\ \A e \in Executor : thread[e] \in RunId \cup {NULL}
        /\ \A r \in RunId : run[r].status # "UNUSED" => run[r].source \in Source
        /\ \A e \in Executor : thread[e] # NULL <=> phase[e] # "IDLE"
    BY DEF TypeOK, PoolInv
  <2>1. ASSUME NEW r \in RunId, run'[r].status # "UNUSED" PROVE run'[r].source \in Source
    <3>1. CASE run[r].status # "UNUSED"
      BY <2>0, <3>1, RowsStay
    <3>2. CASE run[r].status = "UNUSED"
      <4>1. ASSUME NEW s \in Source, NEW q \in RunId, NEW due \in BOOLEAN, Enqueue(s, q, due)
            PROVE  run'[r].source \in Source
        BY <2>0, <2>1, <3>2, <4>1 DEF Enqueue, QueuedRow, UnusedRow
      <4>2. ASSUME NEW q \in RunId, NEW child \in RunId \cup {NULL}, Reclaim(q, child)
            PROVE  run'[r].source \in Source
        <5>1. run[q].status = "RUNNING" /\ run[q].source \in Source
          BY <2>0, <4>2 DEF Reclaim
        <5>2. r # q
          BY <3>2, <5>1
        <5>3. r = child \/ run'[r] = run[r]
          BY <2>0, <4>2, <5>2 DEF Reclaim
        <5>4. r = child
          BY <2>1, <3>2, <5>3
        <5>5. run'[r] = QueuedRow(run[q].source, TRUE, q, run[q].attempt + 1)
          BY <2>0, <4>2, <5>4, <5>2 DEF Reclaim
        <5> QED
          BY <5>1, <5>5 DEF QueuedRow, UnusedRow
      <4>3. ASSUME NEW e \in Executor, NEW q \in RunId, Claim(e, q) PROVE run'[r] = run[r]
        BY <2>0, <3>2, <4>3 DEF Claim
      <4>4. ASSUME NEW q \in RunId, BecomeDue(q) \/ RequestCancel(q) \/ LeaseExpires(q)
            PROVE  run'[r] = run[r]
        BY <2>0, <3>2, <4>4 DEF BecomeDue, RequestCancel, LeaseExpires, Active
      <4>5. ASSUME NEW e \in Executor, Heartbeat(e) PROVE run'[r] = run[r]
        BY <2>0, <3>2, <4>5 DEF Heartbeat
      <4>6. ASSUME NEW e \in Executor, NEW outcome \in Outcomes, FinishRun(e, outcome) \/ FailAfterFinish(e)
            PROVE  run'[r] = run[r]
        BY <2>0, <3>2, <4>6 DEF FinishRun, FailAfterFinish, PoolInv, Taken
      <4>7. \A e \in Executor : ~RunOnceStart(e)
        BY <2>0 DEF RunOnceStart, PoolInv
      <4>8. \A e \in Executor, s \in Source, q \in RunId : ~RunOnceQueue(e, s, q)
        BY DEF RunOnceQueue
      <4>9. ASSUME NEW e \in Executor, FailAfterFinish(e) PROVE run'[r] = run[r]
        BY <2>0, <3>2, <4>9 DEF FailAfterFinish, PoolInv, Taken
      <4>10. CASE UNCHANGED run
        BY <2>1, <3>2, <4>10
      <4> QED
        BY <2>1, <3>2, <4>1, <4>2, <4>3, <4>4, <4>5, <4>6, <4>7, <4>8, <4>9, <4>10
        DEF Next, SetSourceStatus, RunOnceFails, Return, Crash, Leave, vars
    <3> QED
      BY <3>1, <3>2
  <2>2. ASSUME NEW e \in Executor, thread[e] # NULL
        PROVE run'[thread[e]].status \notin {"UNUSED", "QUEUED"}
    <3>1. thread[e] \in RunId /\ Taken(thread[e])
      BY <2>0, <2>2 DEF PoolInv
    <3> QED
      BY <3>1, RowsStay DEF Taken
  <2>3. ASSUME NEW e \in Executor, NEW r \in RunId, Claim(e, r) PROVE PoolInv'
    <3>1. /\ run'[r].status = "RUNNING" /\ thread' = [thread EXCEPT ![e] = r]
          /\ phase' = [phase EXCEPT ![e] = "EXECUTING"] /\ run[r].status = "QUEUED"
      BY <2>0, <2>3 DEF Claim, Leased, RunRow
    <3>2. \A d \in Executor : thread[d] # r
      BY <2>0, <3>1 DEF PoolInv, Taken
    <3>3. thread \in [Executor -> RunId \cup {NULL}] /\ phase \in [Executor -> {"IDLE", "STARTING", "EXECUTING", "FINISHED"}]
      BY DEF TypeOK
    <3>4. ASSUME NEW d \in Executor, thread'[d] # NULL
          PROVE run'[thread'[d]].status \notin {"UNUSED", "QUEUED"} /\ phase'[d] # "STARTING"
      <4>1. CASE d = e
        BY <3>1, <3>3, <4>1 DEF Taken
      <4>2. CASE d # e
        <5>1. thread'[d] = thread[d] /\ phase'[d] = phase[d] /\ thread[d] # NULL
          BY <3>1, <3>3, <3>4, <4>2
        <5> QED
          BY <2>2, <5>1 DEF PoolInv, Taken
      <4> QED
        BY <4>1, <4>2
    <3> QED
      BY <2>1, <3>1, <3>2, <3>3, <3>4 DEF PoolInv, Taken
  <2>4. ASSUME NEW e \in Executor, Leave(e) PROVE PoolInv'
    <3>1. thread \in [Executor -> RunId \cup {NULL}] /\ phase \in [Executor -> {"IDLE", "STARTING", "EXECUTING", "FINISHED"}]
      BY DEF TypeOK
    <3>2. thread' = [thread EXCEPT ![e] = NULL] /\ phase' = [phase EXCEPT ![e] = "IDLE"]
      BY <2>4 DEF Leave
    <3>4. ASSUME NEW d \in Executor, thread'[d] # NULL
          PROVE  run'[thread'[d]].status \notin {"UNUSED", "QUEUED"} /\ phase'[d] # "STARTING"
      <4>1. thread[d] # NULL /\ thread'[d] = thread[d] /\ phase'[d] = phase[d]
        BY <3>1, <3>2, <3>4
      <4> QED
        BY <2>2, <4>1 DEF PoolInv
    <3>3. \A d \in Executor : thread'[d] # NULL => thread'[d] = thread[d] /\ phase'[d] = phase[d]
      BY <3>1, <3>2
    <3> QED
      BY <2>1, <3>3, <3>4 DEF PoolInv, Taken
  <2>5. ASSUME UNCHANGED thread, \A d \in Executor : phase'[d] \in {phase[d], "FINISHED"} PROVE PoolInv'
    BY <2>1, <2>2, <2>5 DEF PoolInv, Taken
  <2>6. ASSUME NEW e \in Executor, NEW outcome \in Outcomes, FinishRun(e, outcome) PROVE PoolInv'
    BY <2>5, <2>6 DEF FinishRun, TypeOK
  <2>7. \A e \in Executor, s \in Source, q \in RunId : ~RunOnceQueue(e, s, q)
    BY DEF RunOnceQueue
  <2>8. \A e \in Executor : ~RunOnceStart(e) /\ ~RunOnceFails(e)
    BY <2>0 DEF RunOnceStart, RunOnceFails, PoolInv
  <2>9. CASE UNCHANGED <<thread, phase>>
    BY <2>5, <2>9
  <2> QED
    BY <2>3, <2>4, <2>6, <2>7, <2>8, <2>9 DEF Next, Enqueue, BecomeDue, RequestCancel, LeaseExpires,
       SetSourceStatus, Heartbeat, FailAfterFinish, Return, Crash, Reclaim, vars
<1> QED
  BY <1>1, <1>2, TypeCorrect, PTL DEF Spec

-----------------------------------------------------------------------------
\* A run that ended stays ended, with the status that was reported; only work after the end may still
\* turn it into FAILED, and never when it was given up and resumed as another run.
EndedRunsStay ==
  [][\A r \in RunId : run[r].status \in Terminal =>
       \/ run'[r].status = run[r].status
       \/ run'[r].status = "FAILED" /\ run[r].status # "ABANDONED"]_vars

\* How a run ends, and what may follow.
LEMMA Endings ==
  ASSUME Caller = {}, TypeOK, ExecutorInv, [Next]_vars, NEW r \in RunId
  PROVE  /\ run[r].status \in Terminal =>
              \/ run'[r].status = run[r].status
              \/ run'[r].status = "FAILED" /\ \E e \in Executor : phase[e] = "FINISHED" /\ thread[e] = r
         /\ run'[r].status = "ABANDONED" => run[r].status \in {"ABANDONED", "RUNNING"}
<1> USE NullAssumption, ExecutorAssumption, OutcomesAssumption
<1>0. /\ run \in [RunId -> RunRow] /\ \A q \in RunId : run[q] \in RunRow
      /\ \A e \in Executor : phase[e] # "IDLE" => thread[e] \in RunId
      /\ \A e \in Executor : phase[e] = "EXECUTING" => HoldsLease(e)
      /\ {"UNUSED", "QUEUED", "RUNNING"} \cap Terminal = {}
  BY DEF TypeOK, ExecutorInv, Terminal
<1>1. ASSUME run'[r].status = run[r].status
      PROVE  /\ run[r].status \in Terminal =>
                  \/ run'[r].status = run[r].status
                  \/ run'[r].status = "FAILED" /\ \E e \in Executor : phase[e] = "FINISHED" /\ thread[e] = r
             /\ run'[r].status = "ABANDONED" => run[r].status \in {"ABANDONED", "RUNNING"}
  BY <1>1
<1>2. ASSUME NEW s \in Source, NEW q \in RunId, NEW due \in BOOLEAN, Enqueue(s, q, due)
      PROVE  run'[r].status = run[r].status \/ (run[r].status = "UNUSED" /\ run'[r].status = "QUEUED")
  BY <1>0, <1>2 DEF Enqueue, QueuedRow, UnusedRow
<1>3. ASSUME NEW q \in RunId, BecomeDue(q) \/ LeaseExpires(q) PROVE run'[r].status = run[r].status
  <2>1. PICK x \in RunRow : x = run[r]
    BY <1>0
  <2>2. run'[r] = x \/ run'[r] = [x EXCEPT !.due = TRUE] \/ run'[r] = [x EXCEPT !.lease = "EXPIRED"]
    BY <1>0, <1>3, <2>1 DEF BecomeDue, LeaseExpires
  <2>3. [x EXCEPT !.due = TRUE].status = x.status /\ [x EXCEPT !.lease = "EXPIRED"].status = x.status
    BY DEF RunRow
  <2> QED
    BY <2>1, <2>2, <2>3
<1>4. ASSUME NEW q \in RunId, RequestCancel(q)
      PROVE  run'[r].status = run[r].status \/ (run[r].status = "QUEUED" /\ run'[r].status = "CANCELLED")
  <2>1. \A row \in RunRow : LET new == [row EXCEPT !.cancel = TRUE, !.status = IF @ = "QUEUED" THEN "CANCELLED" ELSE @]
                           IN  new.status = IF row.status = "QUEUED" THEN "CANCELLED" ELSE row.status
    BY DEF RunRow
  <2>2. run'[r] = run[r] \/ run'[r] = [run[r] EXCEPT !.cancel = TRUE, !.status = IF @ = "QUEUED" THEN "CANCELLED" ELSE @]
    BY <1>0, <1>4 DEF RequestCancel
  <2> QED
    BY <1>0, <2>1, <2>2
<1>5. ASSUME NEW e \in Executor, NEW q \in RunId, Claim(e, q)
      PROVE  run'[r].status = run[r].status \/ (run[r].status = "QUEUED" /\ run'[r].status = "RUNNING")
  BY <1>0, <1>5 DEF Claim, Leased, RunRow
<1>6. ASSUME NEW e \in Executor, Heartbeat(e) PROVE run'[r].status = run[r].status
  BY <1>0, <1>6 DEF Heartbeat, RunRow
<1>7. ASSUME NEW e \in Executor, NEW outcome \in Outcomes, FinishRun(e, outcome)
      PROVE  \/ run'[r].status = run[r].status
             \/ run[r].status = "RUNNING" /\ run'[r].status = outcome /\ outcome # "ABANDONED"
  <2>1. thread[e] \in RunId /\ run[thread[e]].status = "RUNNING"
    BY <1>0, <1>7 DEF FinishRun, HoldsLease
  <2>2. r # thread[e] => run'[r] = run[r]
    BY <1>0, <1>7 DEF FinishRun
  <2>3. r = thread[e] => run'[r].status = outcome
    BY <1>0, <1>7 DEF FinishRun, RunRow
  <2> QED
    BY <2>1, <2>2, <2>3
<1>8. ASSUME NEW e \in Executor, FailAfterFinish(e)
      PROVE  \/ run'[r].status = run[r].status
             \/ run'[r].status = "FAILED" /\ phase[e] = "FINISHED" /\ thread[e] = r
  <2>1. r # thread[e] => run'[r] = run[r]
    BY <1>0, <1>8 DEF FailAfterFinish
  <2>2. r = thread[e] => run'[r].status = "FAILED"
    BY <1>0, <1>8 DEF FailAfterFinish, RunRow
  <2> QED
    BY <1>8, <2>1, <2>2 DEF FailAfterFinish
<1>9. ASSUME NEW q \in RunId, NEW child \in RunId \cup {NULL}, Reclaim(q, child)
      PROVE  \/ run'[r].status = run[r].status
             \/ run[r].status = "RUNNING" /\ run'[r].status = "ABANDONED"
             \/ run[r].status = "UNUSED" /\ run'[r].status = "QUEUED"
  <2>1. /\ run[q].status = "RUNNING"
        /\ \/ run' = [run EXCEPT ![q].status = "ABANDONED"]
           \/ /\ child \in RunId /\ run[child].status = "UNUSED"
              /\ run' = [run EXCEPT ![q].status = "ABANDONED",
                                    ![child] = QueuedRow(run[q].source, TRUE, q, run[q].attempt + 1)]
    BY <1>9 DEF Reclaim
  <2>2. \/ run'[r] = run[r]
        \/ r = q /\ run'[r] = [run[r] EXCEPT !.status = "ABANDONED"]
        \/ /\ run[r].status = "UNUSED" /\ r = child
           /\ run'[r] = QueuedRow(run[q].source, TRUE, q, run[q].attempt + 1)
    BY <1>0, <2>1
  <2>3. QueuedRow(run[q].source, TRUE, q, run[q].attempt + 1).status = "QUEUED"
    BY DEF QueuedRow, UnusedRow
  <2>4. [run[r] EXCEPT !.status = "ABANDONED"].status = "ABANDONED"
    BY <1>0 DEF RunRow
  <2> QED
    BY <2>1, <2>2, <2>3, <2>4
<1>10. \A e \in Executor, s \in Source, q \in RunId : ~RunOnceQueue(e, s, q)
  BY DEF RunOnceQueue
<1>11. \A e \in Executor : ~RunOnceStart(e)
  BY DEF RunOnceStart, ExecutorInv
<1>12. \/ run'[r].status = run[r].status
       \/ run[r].status = "UNUSED" /\ run'[r].status = "QUEUED"
       \/ run[r].status = "QUEUED" /\ run'[r].status \in {"CANCELLED", "RUNNING"}
       \/ run[r].status = "RUNNING"
       \/ run'[r].status = "FAILED" /\ \E e \in Executor : phase[e] = "FINISHED" /\ thread[e] = r
  <2>1. CASE UNCHANGED run
    BY <2>1
  <2> QED
    BY <1>2, <1>3, <1>4, <1>5, <1>6, <1>7, <1>8, <1>9, <1>10, <1>11, <2>1
    DEF Next, SetSourceStatus, RunOnceFails, Return, Crash, Leave, vars
<1> QED
  BY <1>0, <1>12

\* The run of an executor that has closed it was not given up.
ClosedByItself == \A e \in Executor : phase[e] = "FINISHED" => run[thread[e]].status # "ABANDONED"

\* finish_run closes a run by its id alone.  That is harmless as long as heartbeats get through and no
\* run is inline: an end that was reported stays, whatever executors, users and the reclaimer do.
THEOREM EndedStay ==
  ASSUME HeartbeatReliable, Caller = {}
  PROVE  Spec => EndedRunsStay
<1>1. Init => ClosedByItself
  BY DEF Init, ClosedByItself
<1>2. TypeOK /\ ExecutorInv /\ ClosedByItself /\ [Next]_vars => ClosedByItself'
  <2> SUFFICES ASSUME TypeOK, ExecutorInv, ClosedByItself, [Next]_vars,
                      NEW e \in Executor, phase'[e] = "FINISHED"
               PROVE  run'[thread'[e]].status # "ABANDONED"
    BY DEF ClosedByItself
  <2>0. /\ run \in [RunId -> RunRow] /\ phase \in [Executor -> {"IDLE", "STARTING", "EXECUTING", "FINISHED"}]
        /\ thread \in [Executor -> RunId \cup {NULL}]
        /\ \A d \in Executor : phase[d] # "IDLE" => thread[d] \in RunId
    BY DEF TypeOK
  <2>1. CASE phase[e] = "FINISHED" /\ thread'[e] = thread[e]
    <3>1. PICK r \in RunId : r = thread[e]
      BY <2>0, <2>1
    <3>2. run[r].status \in Terminal /\ run[r].status # "ABANDONED"
      BY <2>1, <3>1 DEF ExecutorInv, ClosedByItself
    <3>3. run'[r].status # "ABANDONED"
      BY <3>2, Endings DEF Terminal
    <3> QED
      BY <2>1, <3>1, <3>3
  <2>2. ASSUME NEW outcome \in Outcomes, FinishRun(e, outcome) PROVE run'[thread'[e]].status # "ABANDONED"
    <3>1. PICK r \in RunId : r = thread[e]
      BY <2>0, <2>2 DEF FinishRun
    <3>2. run'[r].status = outcome /\ thread'[e] = r
      BY <2>0, <2>2, <3>1, SMTT(40) DEF FinishRun, RunRow
    <3> QED
      BY <3>2, OutcomesAssumption
  <2>3. \/ phase[e] = "FINISHED" /\ thread'[e] = thread[e]
        \/ \E outcome \in Outcomes : FinishRun(e, outcome)
    <3>1. ASSUME NEW d \in Executor, NEW outcome \in Outcomes, FinishRun(d, outcome), d # e
          PROVE  phase[e] = "FINISHED" /\ thread'[e] = thread[e]
      BY <2>0, <3>1 DEF FinishRun
    <3>2. ASSUME NEW d \in Executor, Leave(d) PROVE phase[e] = "FINISHED" /\ thread'[e] = thread[e]
      BY <2>0, <3>2 DEF Leave
    <3>3. ASSUME NEW d \in Executor, NEW q \in RunId, Claim(d, q) PROVE phase[e] = "FINISHED" /\ thread'[e] = thread[e]
      BY <2>0, <3>3 DEF Claim
    <3>4. \A d \in Executor : ~RunOnceStart(d) /\ ~RunOnceFails(d) /\ (\A s \in Source, q \in RunId : ~RunOnceQueue(d, s, q))
      BY DEF RunOnceStart, RunOnceFails, RunOnceQueue, ExecutorInv
    <3>5. CASE UNCHANGED <<thread, phase>>
      BY <3>5
    <3> QED
      BY <3>1, <3>2, <3>3, <3>4, <3>5 DEF Next, Enqueue, BecomeDue, RequestCancel, LeaseExpires, SetSourceStatus,
         Heartbeat, FailAfterFinish, Return, Crash, Reclaim, vars
  <2> QED
    BY <2>1, <2>2, <2>3
<1>3. TypeOK /\ ExecutorInv /\ ClosedByItself /\ [Next]_vars =>
        [\A r \in RunId : run[r].status \in Terminal =>
           \/ run'[r].status = run[r].status
           \/ run'[r].status = "FAILED" /\ run[r].status # "ABANDONED"]_vars
  BY Endings DEF ClosedByItself
<1>4. Spec => []ExecutorInv
  BY LeasesAreHeld
<1> QED
  BY <1>1, <1>2, <1>3, <1>4, TypeCorrect, PTL DEF Spec, EndedRunsStay
=============================================================================
