----------------------------- MODULE SourceState -----------------------------
(***************************************************************************)
(* One source between the planner and the pipeline: when it is pulled and  *)
(* what a run leaves behind in its row.  The bookkeeping and the circuit   *)
(* breaker of pipeline/source_state.py, the schedule, the guards and the   *)
(* cycle of ops/autopilot.py, and the requests of operators, the agent and *)
(* the CLI.  The queue has one slot for each source (RunQueue proves it),  *)
(* so the active run is one record; leases are taken to hold.              *)
(*                                                                         *)
(* Time is counted in units.  A time stamp in the past is an age and one   *)
(* in the future is the time left until it, both capped where no guard can *)
(* tell the difference; the clock is the position within the cadence.      *)
(***************************************************************************)
EXTENDS Integers

CONSTANTS
  Cadence, MinInterval, HardStaleness,  \* the schedule of the source
  Grace,              \* politeness_grace(MinInterval)
  OverrideFloor,      \* the five minutes that hold even for an override
  RetryBase, RetryMax, BreakerThreshold, BreakerBase, BreakerMax,
  MaxResumes,         \* runs.MAX_RESUMES
  MaxFailures,        \* bound: failures are counted so far, where all waits are at their maximum
  MaxDelay, MaxPause, \* bounds: delay of a scheduled retry, length of a pause
  MaxActs,            \* bound: what users, the agent, publishers and crashes do
  NULL

ASSUME ScheduleAssumption ==
  /\ {Cadence, MinInterval, HardStaleness} \subseteq Nat \ {0}
  /\ Grace \in 0..MinInterval - 1 /\ OverrideFloor \in 0..MinInterval
ASSUME FailureAssumption ==
  /\ {RetryBase, RetryMax, BreakerThreshold, BreakerBase, BreakerMax} \subseteq Nat \ {0}
  /\ MaxFailures \in Nat /\ MaxFailures >= BreakerThreshold
ASSUME BoundAssumption ==
  /\ {MaxResumes, MaxDelay, MaxPause, MaxActs} \subseteq Nat
  /\ NULL \notin Nat

VARIABLES
  clock,        \* now modulo the cadence
  source,       \* the source row
  maintenance,  \* the setting maintenance_mode
  signal,       \* an unconsumed signal of the publisher exists
  run,          \* the active run, or NoRun
  cycle,        \* the next transaction of autopilot_cycle
  contactAge,   \* time since the publisher was last contacted, whatever the row says
  acts          \* acts so far

vars == <<clock, source, maintenance, signal, run, cycle, contactAge, acts>>

Smaller(a, b) == IF a <= b THEN a ELSE b
Larger(a, b) == IF a >= b THEN a ELSE b
DownTo0(t) == IF t = 0 THEN 0 ELSE t - 1
UpTo(top, t) == IF t < top THEN t + 1 ELSE t

Polite == MinInterval - Grace
LongestWait == Cadence + MinInterval + BreakerMax + RetryMax

SourceRow ==
  [status     : {"ACTIVE", "PAUSED", "DISABLED"},
   pausedFor  : 0..MaxPause \cup {NULL},              \* paused_until
   attemptAge : 0..MinInterval,                       \* last_attempt_at, NULL is long ago
   successAge : 0..HardStaleness + 1,                 \* last_success_at
   dueIn      : 0..LongestWait,                       \* next_due_at
   failures   : 0..MaxFailures,                       \* consecutive_failures
   breaker    : {"CLOSED", "OPEN", "HALF_OPEN"},      \* breaker_state
   retryIn    : 0..BreakerMax]                        \* breaker_retry_at

Kinds == {"PULL", "DRY", "REPARSE", "LOAD", "RELEASE"}
Origins == {"GUARDED", "OVERRIDE", "RETRY", "INLINE", "REVIEW", "RESUME"}

RunRow ==
  [status    : {"NONE", "QUEUED", "RUNNING"},
   kind      : Kinds,
   origin    : Origins,        \* how it came to the queue: trigger, requested_by, options
   waits     : 0..MaxDelay,    \* not_before
   contacted : BOOLEAN,        \* RunContext.fetched
   reuses    : BOOLEAN,        \* the run it resumes had archived the file
   archived  : BOOLEAN,        \* its own ARCHIVE checkpoint
   resumes   : 0..MaxResumes]

NewRun(status, kind, origin, waits) ==
  [status |-> status, kind |-> kind, origin |-> origin, waits |-> waits,
   contacted |-> FALSE, reuses |-> FALSE, archived |-> FALSE, resumes |-> 0]

NoRun == NewRun("NONE", "PULL", "GUARDED", 0)

\* Type invariant; the slot is clean when empty, and only runs that fetch contact the publisher.
SourceTypeOK ==
  /\ clock \in 0..Cadence - 1
  /\ source \in SourceRow
  /\ {maintenance, signal} \subseteq BOOLEAN
  /\ run \in RunRow
  /\ run.status = "NONE" => run = NoRun
  /\ run.status # "RUNNING" => ~run.contacted
  /\ run.contacted => run.kind \in {"PULL", "DRY"}
  /\ cycle \in {"CHORES", "WATCHDOG", "PLAN"}
  /\ contactAge \in 0..MinInterval
  /\ acts \in 0..MaxActs

Init ==
  /\ clock = 0 /\ cycle = "CHORES" /\ run = NoRun
  /\ maintenance = FALSE /\ signal = FALSE
  /\ source = [status |-> "ACTIVE", pausedFor |-> NULL, attemptAge |-> MinInterval,
               successAge |-> 0, dueIn |-> 0, failures |-> 0, breaker |-> "CLOSED", retryIn |-> 0]
  /\ contactAge = MinInterval /\ acts = 0

Act == acts < MaxActs /\ acts' = acts + 1

Running(kinds) == run.status = "RUNNING" /\ run.kind \in kinds

-----------------------------------------------------------------------------
(* The schedule and the bookkeeping after a run (scheduling/schedule.py,   *)
(* pipeline/source_state.py)                                               *)

\* next_after: time left until the first slot strictly after now + ahead.
NextAfter(ahead) == ahead + (Cadence - ((clock + ahead) % Cadence))

\* next_due: the first slot that is polite after a pull that ends now.
NextDue == NextAfter(Polite)

\* min(top, base * 2 ** n)
Doubled(base, top, n) == LET wait == base * 2^n IN IF wait \in 0..top THEN wait ELSE top

\* Mutant: every success counts as fresh data.
OnSuccessAlwaysFresh(fetched, fresh) ==
  [source EXCEPT !.successAge = 0, !.attemptAge = IF fetched THEN 0 ELSE @,
                 !.failures = 0, !.breaker = "CLOSED", !.retryIn = 0, !.dueIn = NextDue]

OnSuccess(fetched, fresh) ==
  [source EXCEPT !.successAge = IF fresh THEN 0 ELSE @, !.attemptAge = IF fetched THEN 0 ELSE @,
                 !.failures = 0, !.breaker = "CLOSED", !.retryIn = 0, !.dueIn = NextDue]

OnDataProblem(fetched) ==
  IF fetched THEN [source EXCEPT !.attemptAge = 0, !.dueIn = NextDue] ELSE source

OnFailure ==
  LET failures == Smaller(source.failures + 1, MaxFailures)
      retry == Larger(Doubled(RetryBase, RetryMax, failures - 1), MinInterval)
      backoff == Doubled(BreakerBase, BreakerMax, Larger(0, failures - BreakerThreshold))
      row == [source EXCEPT !.attemptAge = 0, !.failures = failures]
  IN IF failures >= BreakerThreshold \/ source.breaker = "HALF_OPEN"
     THEN [row EXCEPT !.breaker = "OPEN", !.retryIn = backoff, !.dueIn = backoff]
     ELSE [row EXCEPT !.dueIn = Smaller(NextAfter(0), retry)]

\* Mutant: the half-open state admits no second probe.
BreakerAllowsOneProbe == source.breaker # "HALF_OPEN" /\ source.retryIn = 0

\* Mutant: the breaker is not asked.
BreakerNotAsked == TRUE

\* breaker_allows, and the row it leaves behind.
BreakerAllows == source.breaker # "OPEN" \/ source.retryIn = 0
Probed == [source EXCEPT !.breaker = IF @ = "OPEN" THEN "HALF_OPEN" ELSE @]

-----------------------------------------------------------------------------
(* Queueing: the guards, and the ways around them *)

\* The guards of enqueue_guarded; interval is the age the last attempt must have.
Admitted(interval) ==
  /\ ~maintenance /\ source.status = "ACTIVE"
  /\ source.attemptAge >= interval
  /\ BreakerAllows

\* enqueue_guarded when it does not refuse (a refusal changes nothing).  A busy slot keeps its run,
\* but the breaker has been asked.
EnqueueGuarded(kind, origin, interval) ==
  /\ Admitted(interval)
  /\ source' = Probed
  /\ run' = IF run.status = "NONE" THEN NewRun("QUEUED", kind, origin, 0) ELSE run

\* run_now and run_batch of the console, run_ingestion and reparse_archived of the agent.
RunNow ==
  /\ Act
  /\ \/ \E kind \in {"PULL", "DRY"} :
          \/ EnqueueGuarded(kind, "GUARDED", Polite)
          \/ EnqueueGuarded(kind, "OVERRIDE", OverrideFloor)
     \/ EnqueueGuarded("REPARSE", "GUARDED", 0)
  /\ UNCHANGED <<clock, maintenance, signal, cycle, contactAge>>

\* The agent's schedule_retry.
ScheduleRetry ==
  /\ Act
  /\ source.status = "ACTIVE" /\ run.status = "NONE"
  /\ \E delay \in 1..MaxDelay : run' = NewRun("QUEUED", "PULL", "RETRY", delay)
  /\ UNCHANGED <<clock, source, maintenance, signal, cycle, contactAge>>

\* A release approved in review; a version is held (module Pipeline).
ApproveRelease ==
  /\ Act
  /\ run.status = "NONE"
  /\ run' = NewRun("QUEUED", "RELEASE", "REVIEW", 0)
  /\ UNCHANGED <<clock, source, maintenance, signal, cycle, contactAge>>

\* The CLI's run, reparse and load-manual: run_once asks nobody.
RunInline ==
  /\ Act
  /\ run.status = "NONE"
  /\ \E kind \in {"PULL", "DRY", "REPARSE", "LOAD"} : run' = NewRun("RUNNING", kind, "INLINE", 0)
  /\ UNCHANGED <<clock, source, maintenance, signal, cycle, contactAge>>

\* request_cancel of a queued run; a running one is Cancelled below.
CancelQueued ==
  /\ Act
  /\ run.status = "QUEUED"
  /\ run' = NoRun
  /\ UNCHANGED <<clock, source, maintenance, signal, cycle, contactAge>>

-----------------------------------------------------------------------------
(* The cycle of the autopilot: three transactions *)

\* chores: pauses that are over end.
Chores ==
  /\ cycle = "CHORES" /\ cycle' = "WATCHDOG"
  /\ source' = IF source.status = "PAUSED" /\ source.pausedFor = 0
               THEN [source EXCEPT !.status = "ACTIVE", !.pausedFor = NULL] ELSE source
  /\ UNCHANGED <<clock, maintenance, signal, run, contactAge, acts>>

PullIf(wanted) ==
  IF run.status = "NONE" /\ wanted /\ Admitted(Polite)
  THEN EnqueueGuarded("PULL", "GUARDED", Polite)
  ELSE UNCHANGED <<source, run>>

\* watchdog: force a pull of a source past its hard ceiling.
Watchdog ==
  /\ cycle = "WATCHDOG" /\ cycle' = "PLAN"
  /\ PullIf(source.successAge > HardStaleness)
  /\ UNCHANGED <<clock, maintenance, signal, contactAge, acts>>

\* plan and run_plan: a pull for a signal, or when one is due.
Plan ==
  /\ cycle = "PLAN" /\ cycle' = "CHORES"
  /\ PullIf(signal \/ source.dueIn = 0)
  /\ UNCHANGED <<clock, maintenance, signal, contactAge, acts>>

-----------------------------------------------------------------------------
(* The run: what its steps and outcomes do to the source row (runner.py) *)

\* claim_next asks for the time only, neither for the status of the source nor for maintenance.
Claim ==
  /\ run.status = "QUEUED" /\ run.waits = 0
  /\ run' = [run EXCEPT !.status = "RUNNING"]
  /\ UNCHANGED <<clock, source, maintenance, signal, cycle, contactAge, acts>>

\* Mutant: the contact is recorded at the end of the run only.
ContactUnrecorded ==
  /\ Running({"PULL", "DRY"}) /\ ~run.reuses /\ ~run.contacted
  /\ run' = [run EXCEPT !.contacted = TRUE]
  /\ contactAge' = 0
  /\ UNCHANGED <<clock, source, maintenance, signal, cycle, acts>>

\* _fetch: the contact is recorded before the download.
Contact ==
  /\ Running({"PULL", "DRY"}) /\ ~run.reuses /\ ~run.contacted
  /\ run' = [run EXCEPT !.contacted = TRUE]
  /\ source' = [source EXCEPT !.attemptAge = 0]
  /\ contactAge' = 0
  /\ UNCHANGED <<clock, maintenance, signal, cycle, acts>>

\* The ARCHIVE checkpoint, of a download or of the archived bytes in use.
Archive ==
  /\ Running(Kinds \ {"RELEASE"}) /\ ~run.archived
  /\ run.contacted \/ run.reuses \/ run.kind \in {"REPARSE", "LOAD"}
  /\ run' = [run EXCEPT !.archived = TRUE]
  /\ UNCHANGED <<clock, source, maintenance, signal, cycle, contactAge, acts>>

\* Mutant: a closed run keeps what it knew.
EndKeepsRun == run' = [run EXCEPT !.status = "NONE"]

End == run' = NoRun

Unfetched == <<clock, maintenance, cycle, contactAge, acts>>

Fresh == run.contacted \/ run.kind = "LOAD"

\* _publish consumes the signals, _release_held does not.
Publish ==
  /\ Running({"PULL", "REPARSE", "LOAD", "RELEASE"})
  /\ run.archived \/ run.kind = "RELEASE"
  /\ source' = OnSuccess(run.contacted, Fresh)
  /\ signal' = (signal /\ run.kind = "RELEASE")
  /\ End /\ UNCHANGED Unfetched

\* HTTP 304, or the same bytes as the published version.
NoChange ==
  /\ run.contacted /\ ~run.archived
  /\ source' = OnSuccess(TRUE, TRUE)
  /\ End /\ UNCHANGED <<signal, Unfetched>>

\* A dry run that validates, also one of a manual load.
DryRunEnds ==
  /\ Running({"DRY", "LOAD"}) /\ run.archived
  /\ End /\ UNCHANGED <<source, signal, Unfetched>>

\* The file is quarantined or held, or has the bytes of one that is.
DataProblem ==
  /\ run.status = "RUNNING"
  /\ run.archived \/ (run.contacted /\ run.kind = "PULL")
  /\ source' = OnDataProblem(run.contacted)
  /\ End /\ UNCHANGED <<signal, Unfetched>>

\* A fetch fails, or anything unexpected, in a run of any kind.
Fails ==
  /\ run.status = "RUNNING"
  /\ source' = OnFailure
  /\ End /\ UNCHANGED <<signal, Unfetched>>

\* A running run notices the request to cancel it, while it downloads or once it has its file.
Cancelled ==
  /\ Act
  /\ run.status = "RUNNING" /\ (run.contacted \/ run.archived)
  /\ source' = [source EXCEPT !.attemptAge = 0]
  /\ End /\ UNCHANGED <<clock, maintenance, signal, cycle, contactAge>>

\* The process dies and the reclaimer, in time, resumes its run or gives it up.
CrashAndReclaim ==
  /\ Act
  /\ run.status = "RUNNING"
  /\ run' = IF run.resumes < MaxResumes /\ source.status = "ACTIVE"
            THEN [NewRun("QUEUED", run.kind, "RESUME", 0)
                    EXCEPT !.reuses = run.archived, !.resumes = run.resumes + 1]
            ELSE NoRun
  /\ UNCHANGED <<clock, source, maintenance, signal, cycle, contactAge>>

-----------------------------------------------------------------------------
(* Operators, publishers and time *)

\* ConfigService.set_status, with or without an end of the pause.
SetStatus ==
  /\ Act
  /\ \E status \in {"ACTIVE", "PAUSED", "DISABLED"}, until \in 0..MaxPause \cup {NULL} :
       /\ status # source.status \/ status = "PAUSED"
       /\ status # "PAUSED" => until = NULL
       /\ source' = [source EXCEPT !.status = status, !.pausedFor = until]
  /\ UNCHANGED <<clock, maintenance, signal, run, cycle, contactAge>>

\* A new config version is applied: the next pull is at most a cadence away.
ApplyConfig ==
  /\ source.status = "ACTIVE" /\ source.dueIn > Cadence
  /\ Act
  /\ source' = [source EXCEPT !.dueIn = Cadence]
  /\ UNCHANGED <<clock, maintenance, signal, run, cycle, contactAge>>

ToggleMaintenance ==
  /\ Act
  /\ maintenance' = ~maintenance
  /\ UNCHANGED <<clock, source, signal, run, cycle, contactAge>>

\* A notice or a feed item announces a change of the source.
SignalArrives ==
  /\ Act /\ ~signal
  /\ signal' = TRUE
  /\ UNCHANGED <<clock, source, maintenance, run, cycle, contactAge>>

\* One unit of time.
Advance ==
  /\ clock' = (clock + 1) % Cadence
  /\ source' = [source EXCEPT
       !.pausedFor = IF @ = NULL THEN NULL ELSE DownTo0(@),
       !.attemptAge = UpTo(MinInterval, @), !.successAge = UpTo(HardStaleness + 1, @),
       !.dueIn = DownTo0(@), !.retryIn = DownTo0(@)]
  /\ run' = [run EXCEPT !.waits = DownTo0(@)]
  /\ contactAge' = UpTo(MinInterval, contactAge)
  /\ UNCHANGED <<maintenance, signal, cycle, acts>>

Step == Contact \/ Archive
Outcome == Publish \/ NoChange \/ DryRunEnds \/ DataProblem \/ Fails
Requests == RunNow \/ ScheduleRetry \/ ApproveRelease \/ RunInline \/ CancelQueued \/ Cancelled
Autopilot == Chores \/ Watchdog \/ Plan
Settings == SetStatus \/ ApplyConfig \/ ToggleMaintenance \/ SignalArrives

Next == Requests \/ Autopilot \/ Claim \/ Step \/ Outcome \/ CrashAndReclaim \/ Settings \/ Advance

Spec == Init /\ [][Next]_vars

\* Ticks, polls and clocks go on, and a run that goes on ends.
FairSpec == Spec /\ WF_vars(Autopilot) /\ WF_vars(Claim) /\ WF_vars(Outcome) /\ WF_vars(Step) /\ WF_vars(Advance)

-----------------------------------------------------------------------------
(* Properties *)

\* The breaker is closed exactly while fewer failures than its threshold are counted, so no sequence of
\* probes, re-parses and data problems leaves it open with nothing to count, or closed with too much.
BreakerCountsFailures == source.breaker = "CLOSED" <=> source.failures < BreakerThreshold

Contacts == run'.contacted /\ ~run.contacted

\* The politeness floor holds for the publisher, not only for the row: a guarded pull contacts it no
\* sooner than the interval after the last contact of any run, also one that died while downloading, and
\* an override no sooner than five minutes (autopilot.enqueue_guarded, manage.run_now, runner._fetch).
PolitePulls ==
  [][Contacts => /\ run.origin = "GUARDED" => contactAge >= Polite
                 /\ run.origin = "OVERRIDE" => contactAge >= OverrideFloor]_vars

\* A guarded pull never contacts the publisher before the breaker's backoff is over, however long it was
\* queued, whoever asked the breaker before and whatever failed meanwhile.
NoPullInBackoff ==
  [][Contacts /\ run.origin \in {"GUARDED", "OVERRIDE"} => source.retryIn = 0]_vars

\* Staleness is not hidden: only a run that got data from outside makes the source fresh.
OnlyNewDataIsFresh ==
  [][source'.successAge < source.successAge => run.contacted \/ run.kind = "LOAD"]_vars

\* The planner never forgets a source: whatever the outcomes of its runs and the state of its breaker,
\* it is pulled again and again, unless it stays paused or disabled or maintenance stays on.
PulledAgain ==
  \/ <>[](source.status # "ACTIVE" \/ maintenance)
  \/ []<>(Running({"PULL"}))

=============================================================================
