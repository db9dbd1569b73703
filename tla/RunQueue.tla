------------------------------ MODULE RunQueue ------------------------------
(***************************************************************************)
(* The run queue kept in the table ingestion_run (pipeline/runs.py), the   *)
(* worker pool that claims from it (ops/worker.py) and the synchronous     *)
(* callers of runner.run_once.  What a run does while it executes is left  *)
(* open here: an executor works on its run and then closes it with any     *)
(* outcome.  Module Pipeline opens that box and implements this module.    *)
(*                                                                         *)
(* A lease is a time stamp in the code.  Here it is "VALID" or "EXPIRED",  *)
(* and LeaseExpires is the passing of lease_seconds without a heartbeat.   *)
(***************************************************************************)
EXTENDS Integers, FiniteSets

CONSTANTS
  Source,            \* sources that can be ingested
  RunId,             \* run identifiers (UUIDs), all different
  Slot,              \* threads of the worker pools
  Caller,            \* processes that use run_once (CLI)
  NULL,              \* SQL NULL, Python None
  Outcomes,          \* the outcomes an executor may report
  MaxRequests,       \* bound: runs requested, resumed ones not counted
  Pausable,          \* bound: sources that operators pause and resume
  HeartbeatReliable  \* TRUE: a lease never runs out while its executor lives

Executor == Slot \cup Caller

ASSUME ExecutorAssumption == Slot \cap Caller = {}
ASSUME NullAssumption == NULL \notin Source \cup RunId \cup Executor
ASSUME PausableAssumption == Pausable \subseteq Source
ASSUME HeartbeatAssumption == HeartbeatReliable \in BOOLEAN

VARIABLES
  run,           \* the table ingestion_run: one record for each run id
  thread,        \* the run an executor works on
  phase,         \* how far the executor has come with it
  sourceActive   \* source.status = 'ACTIVE'

vars == <<run, thread, phase, sourceActive>>

Active == {"QUEUED", "RUNNING"}
Terminal == {"SUCCEEDED", "NO_CHANGE", "DRY_RUN_OK", "HELD", "QUARANTINED", "FAILED",
             "ABANDONED", "CANCELLED"}

ASSUME OutcomesAssumption == Outcomes \subseteq Terminal \ {"ABANDONED"}

RunRow == [source  : Source \cup {NULL},
           status  : {"UNUSED"} \cup Active \cup Terminal,
           due     : BOOLEAN,                        \* not_before <= now()
           owner   : Executor \cup {NULL},           \* lease_owner
           lease   : {"NONE", "VALID", "EXPIRED"},   \* lease_expires_at
           cancel  : BOOLEAN,                        \* cancel_requested_at is set
           parent  : RunId \cup {NULL},              \* resumed_from_run_id
           attempt : Nat]

UnusedRow == [source |-> NULL, status |-> "UNUSED", due |-> FALSE, owner |-> NULL,
              lease |-> "NONE", cancel |-> FALSE, parent |-> NULL, attempt |-> 0]

\* Type invariant; an executor holds a run exactly while it is not idle.
TypeOK ==
  /\ run \in [RunId -> RunRow]
  /\ thread \in [Executor -> RunId \cup {NULL}]
  /\ phase \in [Executor -> {"IDLE", "STARTING", "EXECUTING", "FINISHED"}]
  /\ sourceActive \in [Source -> BOOLEAN]
  /\ \A e \in Executor : thread[e] = NULL <=> phase[e] = "IDLE"

Init ==
  /\ run = [r \in RunId |-> UnusedRow]
  /\ thread = [e \in Executor |-> NULL]
  /\ phase = [e \in Executor |-> "IDLE"]
  /\ sourceActive = [s \in Source |-> TRUE]

Requested == {r \in RunId : run[r].status # "UNUSED" /\ run[r].parent = NULL}
Executing(r) == {e \in Executor : thread[e] = r /\ phase[e] = "EXECUTING"}

-----------------------------------------------------------------------------
(* Queueing *)

\* Mutant: the partial unique index covers only RUNNING rows.
SlotFreeIfNoneRunning(s, r) == \A q \in RunId \ {r} : run[q].source = s => run[q].status # "RUNNING"

\* ux_run_one_active_per_source lets row r of source s become active.
SlotFree(s, r) == \A q \in RunId \ {r} : run[q].source = s => run[q].status \notin Active

\* The row enqueue_run inserts.
QueuedRow(s, due, parent, attempt) ==
  [UnusedRow EXCEPT !.source = s, !.status = "QUEUED", !.due = due,
                    !.parent = parent, !.attempt = attempt]

\* enqueue_run for a user, the scheduler or the agent; due is FALSE when not_before lies ahead.
Enqueue(s, r, due) ==
  /\ run[r].status = "UNUSED" /\ Cardinality(Requested) < MaxRequests
  /\ SlotFree(s, r)
  /\ run' = [run EXCEPT ![r] = QueuedRow(s, due, NULL, 1)]
  /\ UNCHANGED <<thread, phase, sourceActive>>

\* not_before of a queued run passes.
BecomeDue(r) ==
  /\ run[r].status = "QUEUED" /\ ~run[r].due
  /\ run' = [run EXCEPT ![r].due = TRUE]
  /\ UNCHANGED <<thread, phase, sourceActive>>

\* request_cancel: a queued run ends at once, a running one is only asked to stop.
RequestCancel(r) ==
  /\ run[r].status \in Active /\ ~run[r].cancel
  /\ run' = [run EXCEPT ![r].cancel = TRUE,
                        ![r].status = IF @ = "QUEUED" THEN "CANCELLED" ELSE @]
  /\ UNCHANGED <<thread, phase, sourceActive>>

\* An operator pauses or resumes a source (ConfigService.set_status).
SetSourceStatus(s) ==
  /\ s \in Pausable
  /\ sourceActive' = [sourceActive EXCEPT ![s] = ~@]
  /\ UNCHANGED <<run, thread, phase>>

-----------------------------------------------------------------------------
(* Executors *)

Leased(r, e) == [run[r] EXCEPT !.status = "RUNNING", !.owner = e, !.lease = "VALID"]

\* WorkerPool.poll with claim_next: a free thread takes a due run.  SKIP LOCKED may pass over
\* any row, so the order by priority and age is not kept.
Claim(e, r) ==
  /\ e \in Slot /\ phase[e] = "IDLE"
  /\ run[r].status = "QUEUED" /\ run[r].due
  /\ run' = [run EXCEPT ![r] = Leased(r, e)]
  /\ thread' = [thread EXCEPT ![e] = r]
  /\ phase' = [phase EXCEPT ![e] = "EXECUTING"]
  /\ UNCHANGED sourceActive

\* First transaction of run_once: the run is queued, visible to every pool.
RunOnceQueue(e, s, r) ==
  /\ e \in Caller /\ phase[e] = "IDLE"
  /\ run[r].status = "UNUSED" /\ Cardinality(Requested) < MaxRequests
  /\ SlotFree(s, r)
  /\ run' = [run EXCEPT ![r] = QueuedRow(s, TRUE, NULL, 1)]
  /\ thread' = [thread EXCEPT ![e] = r]
  /\ phase' = [phase EXCEPT ![e] = "STARTING"]
  /\ UNCHANGED sourceActive

\* Second transaction of run_once: the row is set RUNNING whatever its status has become.  The
\* unique index refuses it when another run of the source is active (RunOnceFails).
RunOnceStart(e) ==
  /\ phase[e] = "STARTING"
  /\ SlotFree(run[thread[e]].source, thread[e])
  /\ run' = [run EXCEPT ![thread[e]] = Leased(thread[e], e)]
  /\ phase' = [phase EXCEPT ![e] = "EXECUTING"]
  /\ UNCHANGED <<thread, sourceActive>>

\* The second transaction of run_once raises a unique violation, which the caller does not handle.
RunOnceFails(e) ==
  /\ phase[e] = "STARTING"
  /\ ~SlotFree(run[thread[e]].source, thread[e])
  /\ thread' = [thread EXCEPT ![e] = NULL]
  /\ phase' = [phase EXCEPT ![e] = "IDLE"]
  /\ UNCHANGED <<run, sourceActive>>

\* The heartbeat thread of a pool executor extends the lease only while the row is RUNNING and
\* still its own.  The cancel request it reports is also read from the row by check_cancel.
Heartbeat(e) ==
  /\ e \in Slot /\ phase[e] = "EXECUTING"
  /\ LET r == thread[e] IN
       /\ run[r].owner = e /\ run[r].status = "RUNNING"
       /\ run[r].lease = "EXPIRED"
       /\ run' = [run EXCEPT ![r].lease = "VALID"]
  /\ UNCHANGED <<thread, phase, sourceActive>>

\* A lease runs out: the executor died, hangs, or could not reach the database; the lease of an
\* inline run is never extended.
LeaseExpires(r) ==
  /\ run[r].status = "RUNNING" /\ run[r].lease = "VALID"
  /\ HeartbeatReliable => Executing(r) \cap Slot = {}
  /\ run' = [run EXCEPT ![r].lease = "EXPIRED"]
  /\ UNCHANGED <<thread, phase, sourceActive>>

\* finish_run: the row is closed by run id alone, whatever its status and whoever owns the lease.
FinishRun(e, outcome) ==
  /\ phase[e] = "EXECUTING"
  /\ outcome = "CANCELLED" => run[thread[e]].cancel
  /\ run' = [run EXCEPT ![thread[e]].status = outcome,
                        ![thread[e]].owner = NULL, ![thread[e]].lease = "NONE"]
  /\ phase' = [phase EXCEPT ![e] = "FINISHED"]
  /\ UNCHANGED <<thread, sourceActive>>

\* Work after the closing transaction fails (the purge of staging that follows a publish), and
\* the exception handler of execute closes the run a second time, as FAILED.
FailAfterFinish(e) ==
  /\ phase[e] = "FINISHED"
  /\ run' = [run EXCEPT ![thread[e]].status = "FAILED",
                        ![thread[e]].owner = NULL, ![thread[e]].lease = "NONE"]
  /\ UNCHANGED <<thread, phase, sourceActive>>

\* Mutant: the thread is handed back but is still counted as executing.
LeaveHalf(e) ==
  /\ thread' = [thread EXCEPT ![e] = NULL]
  /\ UNCHANGED <<run, phase, sourceActive>>

\* execute returns and the executor is free; or its process dies at any point before that.
Leave(e) ==
  /\ thread' = [thread EXCEPT ![e] = NULL]
  /\ phase' = [phase EXCEPT ![e] = "IDLE"]
  /\ UNCHANGED <<run, sourceActive>>

Return(e) == phase[e] = "FINISHED" /\ Leave(e)
Crash(e) == phase[e] \in {"STARTING", "EXECUTING"} /\ Leave(e)

-----------------------------------------------------------------------------
(* The reclaimer *)

ParentOf(r) == IF r = NULL THEN NULL ELSE run[r].parent

\* Mutant: the reclaimer resumes whatever the length of the chain.
AnyChainMayGrow(r) == TRUE

\* chain <= MAX_RESUMES, where the chain is r and its ancestors and MAX_RESUMES is 3.
ChainMayGrow(r) == ParentOf(ParentOf(ParentOf(r))) = NULL

\* Mutant: expired leases are never looked for.
ReclaimNone(r, child) == FALSE /\ UNCHANGED vars

\* Mutant: every RUNNING run is taken for abandoned, the lease is not looked at.
ReclaimAnyRunning(r, child) ==
  /\ run[r].status = "RUNNING" /\ child = NULL
  /\ run' = [run EXCEPT ![r].status = "ABANDONED"]
  /\ UNCHANGED <<thread, phase, sourceActive>>

\* reclaim_abandoned for one expired run.  The code handles every expired run in one transaction;
\* they belong to different sources, so the rows do not interact.
Reclaim(r, child) ==
  /\ run[r].status = "RUNNING" /\ run[r].lease = "EXPIRED"
  /\ IF ChainMayGrow(r) /\ sourceActive[run[r].source]
       THEN /\ child \in RunId /\ run[child].status = "UNUSED"
            /\ run' = [run EXCEPT ![r].status = "ABANDONED",
                                  ![child] = QueuedRow(run[r].source, TRUE, r, run[r].attempt + 1)]
       ELSE /\ child = NULL
            /\ run' = [run EXCEPT ![r].status = "ABANDONED"]
  /\ UNCHANGED <<thread, phase, sourceActive>>

-----------------------------------------------------------------------------
Next ==
  \/ \E s \in Source, r \in RunId, due \in BOOLEAN : Enqueue(s, r, due)
  \/ \E r \in RunId : BecomeDue(r) \/ RequestCancel(r) \/ LeaseExpires(r)
  \/ \E s \in Source : SetSourceStatus(s)
  \/ \E e \in Executor, r \in RunId : Claim(e, r)
  \/ \E e \in Executor, s \in Source, r \in RunId : RunOnceQueue(e, s, r)
  \/ \E e \in Executor : RunOnceStart(e) \/ RunOnceFails(e) \/ Heartbeat(e)
  \/ \E e \in Executor, outcome \in Outcomes : FinishRun(e, outcome)
  \/ \E e \in Executor : FailAfterFinish(e) \/ Return(e) \/ Crash(e)
  \/ \E r \in RunId, child \in RunId \cup {NULL} : Reclaim(r, child)

Spec == Init /\ [][Next]_vars

\* What the scheduling guarantees: time passes, the supervisor ticks (poll and reclaim) and an
\* executor that neither crashes nor hangs comes to an end.  Nothing is assumed of operators,
\* of heartbeats, or of crashes.
Fairness ==
  /\ WF_vars(\E r \in RunId : BecomeDue(r))
  /\ WF_vars(\E e \in Slot, r \in RunId : Claim(e, r))
  /\ WF_vars(\E r \in RunId, child \in RunId \cup {NULL} : Reclaim(r, child))
  /\ SF_vars(\E r \in RunId : Executing(r) = {} /\ LeaseExpires(r))
  /\ \A e \in Executor : /\ WF_vars(RunOnceStart(e) \/ RunOnceFails(e))
                         /\ WF_vars(\E outcome \in Outcomes : FinishRun(e, outcome))
                         /\ WF_vars(Return(e))

FairSpec == Spec /\ Fairness

-----------------------------------------------------------------------------
(* Properties *)

\* A source never has two active runs, whatever enqueue_run, run_once, the reclaimer and late
\* executors do.
OneActivePerSource ==
  \A q, r \in RunId :
    run[q].status \in Active /\ run[r].status \in Active /\ run[q].source = run[r].source => q = r

\* A run that keeps killing its executor is given up: no chain of resumed runs is longer than
\* MAX_RESUMES + 1, and the attempt number shown to operators is the place in that chain.
ResumeChainBounded ==
  \A r \in RunId : run[r].status # "UNUSED" =>
    /\ run[r].attempt \in 1..4
    /\ run[r].attempt = 1 <=> run[r].parent = NULL
    /\ run[r].parent # NULL => run[r].attempt = run[run[r].parent].attempt + 1

\* A RUNNING row always carries a lease, so that the reclaimer can find it and the source is not
\* blocked for ever.
RunningIsLeased ==
  \A r \in RunId : run[r].status = "RUNNING" <=> run[r].status \in Active /\ run[r].lease # "NONE"

\* With heartbeats that never fail and no inline runs, two threads never execute runs of the same
\* source, and nobody executes a run that is not RUNNING.
ExclusiveExecution ==
  HeartbeatReliable /\ Caller = {} =>
    /\ \A e \in Executor : phase[e] = "EXECUTING" => run[thread[e]].status = "RUNNING"
    /\ \A d, e \in Executor : phase[d] = "EXECUTING" /\ phase[e] = "EXECUTING"
          /\ run[thread[d]].source = run[thread[e]].source => d = e

\* Every run that was queued ends, also when executors crash, and its source becomes free.
ActiveRunEnds == \A r \in RunId : run[r].status \in Active ~> run[r].status \in Terminal
=============================================================================
