-------------------------- MODULE SourceState_proofs --------------------------
(***************************************************************************)
(* Proofs about SourceState, for every schedule, politeness interval and   *)
(* breaker setting.  A queued run carries the answers of the guards it was *)
(* admitted with; the invariant says that they stay true until it contacts *)
(* the publisher.                                                          *)
(***************************************************************************)
EXTENDS SourceState, TLAPS

\* The row never claims an older attempt than the publisher saw.
RowTellsContact == source.attemptAge <= contactAge

\* What was true when a guarded pull was queued holds until it contacts the publisher.
StillAdmitted ==
  run.status # "NONE" /\ ~run.contacted /\ run.kind \in {"PULL", "DRY"} =>
    /\ run.origin = "GUARDED" => source.attemptAge >= Polite
    /\ run.origin = "OVERRIDE" => source.attemptAge >= OverrideFloor
    /\ run.origin \in {"GUARDED", "OVERRIDE"} => source.retryIn = 0

\* Only an open breaker backs off.
BackoffWhileOpen == source.breaker # "OPEN" => source.retryIn = 0

Inv == SourceTypeOK /\ BreakerCountsFailures /\ BackoffWhileOpen /\ RowTellsContact /\ StillAdmitted

-----------------------------------------------------------------------------
(* Constants, waits and rows *)

\* What the assumptions say of each constant.
LEMMA ConstantFacts ==
  /\ Cadence \in Nat \ {0} /\ MinInterval \in Nat \ {0} /\ HardStaleness \in Nat \ {0}
  /\ Grace \in 0..MinInterval - 1 /\ OverrideFloor \in 0..MinInterval
  /\ Polite \in 1..MinInterval
  /\ RetryMax \in Nat \ {0} /\ BreakerMax \in Nat \ {0} /\ BreakerThreshold \in Nat \ {0}
  /\ MaxFailures \in Nat /\ MaxFailures >= BreakerThreshold
  /\ MaxResumes \in Nat /\ MaxDelay \in Nat /\ MaxPause \in Nat /\ MaxActs \in Nat
  /\ NULL \notin Nat
  /\ LongestWait \in Nat /\ LongestWait >= Cadence + MinInterval /\ LongestWait >= BreakerMax
<1>1. /\ Cadence \in Nat \ {0} /\ MinInterval \in Nat \ {0} /\ HardStaleness \in Nat \ {0}
      /\ Grace \in 0..MinInterval - 1 /\ OverrideFloor \in 0..MinInterval
  BY ScheduleAssumption
<1>2. /\ RetryMax \in Nat \ {0} /\ BreakerMax \in Nat \ {0} /\ BreakerThreshold \in Nat \ {0}
      /\ MaxFailures \in Nat /\ MaxFailures >= BreakerThreshold
  BY FailureAssumption
<1>3. /\ MaxResumes \in Nat /\ MaxDelay \in Nat /\ MaxPause \in Nat /\ MaxActs \in Nat
      /\ NULL \notin Nat
  BY BoundAssumption
<1> QED
  BY <1>1, <1>2, <1>3 DEF Polite, LongestWait

\* A slot lies ahead, within a cadence of the time asked for.
LEMMA NextAfterRange ==
  ASSUME NEW ahead \in Nat, clock \in Nat
  PROVE  NextAfter(ahead) \in 1..ahead + Cadence
<1>1. (clock + ahead) % Cadence \in 0..Cadence - 1
  BY ConstantFacts
<1> QED
  BY <1>1, ConstantFacts DEF NextAfter

\* A backoff stays within its maximum.
LEMMA DoubledRange ==
  ASSUME NEW base, NEW top \in Nat, NEW n
  PROVE  Doubled(base, top, n) \in 0..top
  BY DEF Doubled

\* A row after a success: closed, nothing counted, and only its due time is new.
LEMMA SuccessRow ==
  ASSUME source \in SourceRow, clock \in 0..Cadence - 1, NEW fetched \in BOOLEAN, NEW fresh \in BOOLEAN
  PROVE  /\ OnSuccess(fetched, fresh) \in SourceRow
         /\ OnSuccess(fetched, fresh).breaker = "CLOSED"
         /\ OnSuccess(fetched, fresh).failures = 0
         /\ OnSuccess(fetched, fresh).retryIn = 0
         /\ OnSuccess(fetched, fresh).attemptAge <= source.attemptAge
         /\ ~fresh => OnSuccess(fetched, fresh).successAge = source.successAge
<1> DEFINE success == IF fresh THEN 0 ELSE source.successAge
           attempt == IF fetched THEN 0 ELSE source.attemptAge
           row == [source EXCEPT !.successAge = success, !.attemptAge = attempt, !.failures = 0,
                                 !.breaker = "CLOSED", !.retryIn = 0, !.dueIn = NextDue]
<1>1. NextDue \in 0..LongestWait /\ 0 \in 0..MaxFailures /\ 0 \in 0..BreakerMax
  BY NextAfterRange, ConstantFacts DEF NextDue
<1>2. success \in 0..HardStaleness + 1 /\ attempt \in 0..MinInterval /\ attempt <= source.attemptAge
  BY ConstantFacts DEF SourceRow
<1>3. ~fresh => success = source.successAge
  OBVIOUS
<1>4. row = OnSuccess(fetched, fresh)
  BY DEF OnSuccess
<1> HIDE DEF success, attempt
<1>5. row \in SourceRow
  BY <1>1, <1>2 DEF SourceRow
<1>6. /\ row.breaker = "CLOSED" /\ row.failures = 0 /\ row.retryIn = 0
      /\ row.attemptAge = attempt /\ row.successAge = success
  BY DEF SourceRow
<1> QED
  BY <1>2, <1>3, <1>4, <1>5, <1>6

\* A row after a data problem: the breaker and its count are as before.
LEMMA DataProblemRow ==
  ASSUME source \in SourceRow, clock \in 0..Cadence - 1, NEW fetched \in BOOLEAN
  PROVE  /\ OnDataProblem(fetched) \in SourceRow
         /\ OnDataProblem(fetched).breaker = source.breaker
         /\ OnDataProblem(fetched).failures = source.failures
         /\ OnDataProblem(fetched).retryIn = source.retryIn
         /\ OnDataProblem(fetched).attemptAge <= source.attemptAge
         /\ OnDataProblem(fetched).successAge = source.successAge
<1>1. NextDue \in 0..LongestWait /\ 0 \in 0..MinInterval
  BY NextAfterRange, ConstantFacts DEF NextDue
<1>2. source.attemptAge \in Nat
  BY ConstantFacts DEF SourceRow
<1>3. CASE fetched
  <2> DEFINE row == [source EXCEPT !.attemptAge = 0, !.dueIn = NextDue]
  <2>1. row \in SourceRow
    BY <1>1 DEF SourceRow
  <2>2. /\ row.breaker = source.breaker /\ row.failures = source.failures /\ row.retryIn = source.retryIn
        /\ row.attemptAge = 0 /\ row.successAge = source.successAge
    BY DEF SourceRow
  <2> QED
    BY <1>2, <1>3, <2>1, <2>2 DEF OnDataProblem
<1> QED
  BY <1>2, <1>3 DEF OnDataProblem

\* A row after a failure: the breaker is closed exactly while it was and the count stays below the threshold.
LEMMA FailureRow ==
  ASSUME source \in SourceRow, clock \in 0..Cadence - 1, BreakerCountsFailures, BackoffWhileOpen
  PROVE  /\ OnFailure \in SourceRow
         /\ OnFailure.breaker # "OPEN" => OnFailure.retryIn = 0
         /\ OnFailure.breaker = "CLOSED" <=> OnFailure.failures < BreakerThreshold
         /\ OnFailure.attemptAge <= source.attemptAge
         /\ OnFailure.successAge = source.successAge
<1> DEFINE failures == Smaller(source.failures + 1, MaxFailures)
           retry == Larger(Doubled(RetryBase, RetryMax, failures - 1), MinInterval)
           backoff == Doubled(BreakerBase, BreakerMax, Larger(0, failures - BreakerThreshold))
           row == [source EXCEPT !.attemptAge = 0, !.failures = failures]
           opens == failures >= BreakerThreshold \/ source.breaker = "HALF_OPEN"
<1>1. failures \in 0..MaxFailures
  BY ConstantFacts DEF SourceRow, Smaller
<1>2. retry \in Nat
  BY DoubledRange, ConstantFacts DEF Larger
<1>3. backoff \in 0..BreakerMax /\ backoff \in 0..LongestWait
  BY DoubledRange, ConstantFacts
<1>4. Smaller(NextAfter(0), retry) \in 0..LongestWait
  BY <1>2, NextAfterRange, ConstantFacts DEF Smaller
<1>5. OnFailure = IF opens THEN [row EXCEPT !.breaker = "OPEN", !.retryIn = backoff, !.dueIn = backoff]
                           ELSE [row EXCEPT !.dueIn = Smaller(NextAfter(0), retry)]
  BY DEF OnFailure
<1>6. row \in SourceRow /\ row.failures = failures /\ row.breaker = source.breaker
      /\ row.retryIn = source.retryIn /\ row.attemptAge = 0 /\ row.successAge = source.successAge
  <2>1. 0 \in 0..MinInterval
    BY ConstantFacts
  <2> HIDE DEF failures
  <2>2. row \in SourceRow
    BY <1>1, <2>1 DEF SourceRow
  <2>3. row.failures = failures /\ row.breaker = source.breaker
        /\ row.retryIn = source.retryIn /\ row.attemptAge = 0 /\ row.successAge = source.successAge
    BY DEF SourceRow
  <2> QED
    BY <2>2, <2>3
<1>7. source.attemptAge >= 0
  BY ConstantFacts DEF SourceRow
<1>8. CASE opens
  <2> DEFINE after == [row EXCEPT !.breaker = "OPEN", !.retryIn = backoff, !.dueIn = backoff]
  <2>1. OnFailure = after
    BY <1>5, <1>8
  <2>2. after \in SourceRow /\ after.breaker = "OPEN" /\ after.failures = failures
        /\ after.attemptAge = 0 /\ after.successAge = source.successAge
    BY <1>3, <1>6 DEF SourceRow
  <2>3. failures >= BreakerThreshold
    BY <1>8, ConstantFacts DEF BreakerCountsFailures, SourceRow, Smaller
  <2> QED
    BY <2>1, <2>2, <2>3, <1>1, <1>7, ConstantFacts
<1>9. CASE ~opens
  <2> DEFINE after == [row EXCEPT !.dueIn = Smaller(NextAfter(0), retry)]
  <2>1. OnFailure = after
    BY <1>5, <1>9
  <2>2. after \in SourceRow /\ after.breaker = source.breaker /\ after.failures = failures
        /\ after.retryIn = source.retryIn /\ after.attemptAge = 0 /\ after.successAge = source.successAge
    BY <1>4, <1>6 DEF SourceRow
  <2>3. failures < BreakerThreshold /\ source.failures < BreakerThreshold
    BY <1>9, <1>1, ConstantFacts DEF SourceRow, Smaller
  <2> QED
    BY <2>1, <2>2, <2>3, <1>7 DEF BreakerCountsFailures, BackoffWhileOpen
<1> QED
  BY <1>8, <1>9

-----------------------------------------------------------------------------
(* The invariant, in two parts: what relates the row to the run, and types *)

RowsOK ==
  /\ source \in SourceRow /\ run \in RunRow /\ contactAge \in 0..MinInterval
  /\ run.status = "NONE" => run = NoRun
  /\ run.status # "RUNNING" => ~run.contacted
  /\ run.contacted => run.kind \in {"PULL", "DRY"}
  /\ BreakerCountsFailures /\ BackoffWhileOpen /\ RowTellsContact /\ StillAdmitted

RestOK ==
  /\ clock \in 0..Cadence - 1
  /\ {maintenance, signal} \subseteq BOOLEAN
  /\ cycle \in {"CHORES", "WATCHDOG", "PLAN"}
  /\ acts \in 0..MaxActs

\* The invariant is that of the row, its clocks and the run, and the type of the rest.
LEMMA TwoParts == (Inv <=> RowsOK /\ RestOK) /\ (Inv' <=> RowsOK' /\ RestOK')
  BY DEF Inv, RowsOK, RestOK, SourceTypeOK

\* Without a run nothing was contacted.
LEMMA NoRunClean == NoRun \in RunRow /\ NoRun.status = "NONE" /\ NoRun.contacted = FALSE
<1>1. 0 \in 0..MaxDelay /\ 0 \in 0..MaxResumes
  BY ConstantFacts
<1> QED
  BY <1>1 DEF NoRun, NewRun, RunRow, Kinds, Origins

\* A run that no guard admitted may enter the empty slot while the row stays as it is.
LEMMA UnguardedRun ==
  ASSUME RowsOK, UNCHANGED <<source, contactAge>>,
         NEW status \in {"QUEUED", "RUNNING"}, NEW kind \in Kinds, NEW waits \in 0..MaxDelay,
         NEW origin \in Origins \ {"GUARDED", "OVERRIDE"},
         run' = NewRun(status, kind, origin, waits)
  PROVE  RowsOK'
<1>1. status \in {"NONE", "QUEUED", "RUNNING"} /\ origin \in Origins
  OBVIOUS
<1>2. run' \in RunRow /\ run'.status = status /\ run'.origin = origin /\ run'.contacted = FALSE
  BY <1>1, ConstantFacts DEF NewRun, RunRow
<1> QED
  BY <1>2 DEF RowsOK, BreakerCountsFailures, BackoffWhileOpen, RowTellsContact, StillAdmitted

\* The slot may be emptied by a step that leaves the breaker and its count in agreement.
LEMMA EmptiedSlot ==
  ASSUME RowsOK, contactAge' = contactAge, run' = NoRun,
         source' \in SourceRow, source'.attemptAge <= source.attemptAge,
         source'.breaker = "CLOSED" <=> source'.failures < BreakerThreshold,
         source'.breaker # "OPEN" => source'.retryIn = 0
  PROVE  RowsOK'
<1>1. source'.attemptAge <= contactAge
  BY ConstantFacts DEF RowsOK, RowTellsContact, SourceRow
<1> QED
  BY <1>1, NoRunClean DEF RowsOK, BreakerCountsFailures, BackoffWhileOpen, RowTellsContact, StillAdmitted

\* A guarded request is admitted with an attempt old enough and leaves no open breaker.
LEMMA GuardedRun ==
  ASSUME RowsOK, contactAge' = contactAge,
         NEW kind \in Kinds, NEW origin \in Origins, NEW interval \in Int,
         EnqueueGuarded(kind, origin, interval),
         kind \in {"PULL", "DRY"} /\ origin = "GUARDED" => interval >= Polite,
         kind \in {"PULL", "DRY"} /\ origin = "OVERRIDE" => interval >= OverrideFloor
  PROVE  RowsOK'
<1>1. /\ source' \in SourceRow /\ source'.attemptAge = source.attemptAge
      /\ source'.failures = source.failures /\ source'.retryIn = source.retryIn
      /\ source'.breaker = "CLOSED" <=> source.breaker = "CLOSED"
  BY DEF EnqueueGuarded, Probed, SourceRow, RowsOK
<1>2. source'.retryIn = 0
  BY <1>1 DEF EnqueueGuarded, Admitted, BreakerAllows, RowsOK, BackoffWhileOpen
<1>3. BreakerCountsFailures' /\ BackoffWhileOpen' /\ RowTellsContact'
  BY <1>1, <1>2 DEF RowsOK, BreakerCountsFailures, BackoffWhileOpen, RowTellsContact
<1>4. CASE run.status = "NONE"
  <2>1. run' = NewRun("QUEUED", kind, origin, 0) /\ source.attemptAge >= interval
    BY <1>4 DEF EnqueueGuarded, Admitted
  <2>2. run' \in RunRow /\ run'.status = "QUEUED" /\ run'.kind = kind /\ run'.origin = origin
        /\ run'.contacted = FALSE
    <3>1. "QUEUED" \in {"NONE", "QUEUED", "RUNNING"} /\ 0 \in 0..MaxDelay
      BY ConstantFacts
    <3> QED
      BY <2>1, <3>1, ConstantFacts DEF NewRun, RunRow
  <2>3. source.attemptAge \in Int
    BY ConstantFacts DEF RowsOK, SourceRow
  <2>4. StillAdmitted'
    BY <1>1, <1>2, <2>1, <2>2, <2>3, ConstantFacts DEF StillAdmitted
  <2> QED
    BY <1>1, <1>3, <2>2, <2>4 DEF RowsOK
<1>5. CASE run.status # "NONE"
  <2>1. run' = run
    BY <1>5 DEF EnqueueGuarded
  <2>2. StillAdmitted'
    BY <1>1, <1>2, <2>1 DEF RowsOK, StillAdmitted
  <2> QED
    BY <1>1, <1>3, <2>1, <2>2 DEF RowsOK
<1> QED
  BY <1>4, <1>5

-----------------------------------------------------------------------------
(* Initially, and every step *)

\* The invariant holds at first.
LEMMA Initially == Init => Inv
<1> SUFFICES ASSUME Init PROVE Inv
  OBVIOUS
<1>1. source \in SourceRow
  BY ConstantFacts DEF Init, SourceRow
<1>2. /\ source.failures = 0 /\ source.breaker = "CLOSED" /\ source.attemptAge = MinInterval
      /\ source.retryIn = 0 /\ run = NoRun /\ contactAge = MinInterval
  BY DEF Init
<1>3. BreakerCountsFailures /\ BackoffWhileOpen /\ RowTellsContact
  BY <1>2, ConstantFacts DEF BreakerCountsFailures, BackoffWhileOpen, RowTellsContact
<1>4. RowsOK
  BY <1>1, <1>2, <1>3, NoRunClean, ConstantFacts DEF RowsOK, StillAdmitted
<1>5. RestOK
  <2>1. 0 \in 0..Cadence - 1 /\ 0 \in 0..MaxActs
    BY ConstantFacts
  <2> QED
    BY <2>1 DEF Init, RestOK
<1> QED
  BY <1>4, <1>5, TwoParts

\* A request for a run keeps it: what the guards admit is polite and outside the backoff.
LEMMA RequestsKeep == RowsOK /\ Requests => RowsOK'
<1> SUFFICES ASSUME RowsOK, Requests PROVE RowsOK'
  OBVIOUS
<1> USE DEF Kinds, Origins
<1>1. CASE RunNow
  <2>0. contactAge' = contactAge /\ Polite \in Int /\ OverrideFloor \in Int
    BY <1>1, ConstantFacts DEF RunNow
  <2>1. ASSUME NEW kind \in {"PULL", "DRY"}, EnqueueGuarded(kind, "GUARDED", Polite)
        PROVE  RowsOK'
    BY <2>0, <2>1, GuardedRun
  <2>2. ASSUME NEW kind \in {"PULL", "DRY"}, EnqueueGuarded(kind, "OVERRIDE", OverrideFloor)
        PROVE  RowsOK'
    BY <2>0, <2>2, GuardedRun
  <2>3. CASE EnqueueGuarded("REPARSE", "GUARDED", 0)
    BY <2>0, <2>3, GuardedRun
  <2> QED
    BY <1>1, <2>1, <2>2, <2>3 DEF RunNow
<1>2. CASE ScheduleRetry
  <2>1. PICK delay \in 1..MaxDelay : run' = NewRun("QUEUED", "PULL", "RETRY", delay)
    BY <1>2 DEF ScheduleRetry
  <2>2. delay \in 0..MaxDelay
    BY ConstantFacts
  <2> QED
    BY <1>2, <2>1, <2>2, UnguardedRun DEF ScheduleRetry
<1>3. CASE ApproveRelease
  <2>1. 0 \in 0..MaxDelay
    BY ConstantFacts
  <2> QED
    BY <1>3, <2>1, UnguardedRun DEF ApproveRelease
<1>4. CASE RunInline
  <2>1. PICK kind \in {"PULL", "DRY", "REPARSE", "LOAD"} : run' = NewRun("RUNNING", kind, "INLINE", 0)
    BY <1>4 DEF RunInline
  <2>2. 0 \in 0..MaxDelay
    BY ConstantFacts
  <2> QED
    BY <1>4, <2>1, <2>2, UnguardedRun DEF RunInline
<1>5. CASE CancelQueued
  <2>1. source' = source /\ run' = NoRun /\ contactAge' = contactAge
    BY <1>5 DEF CancelQueued
  <2>2. source.attemptAge <= source.attemptAge
    BY ConstantFacts DEF RowsOK, SourceRow
  <2> QED
    BY <2>1, <2>2, EmptiedSlot DEF RowsOK, BreakerCountsFailures, BackoffWhileOpen
<1>6. CASE Cancelled
  <2>1. source' = [source EXCEPT !.attemptAge = 0] /\ run' = NoRun /\ contactAge' = contactAge
    BY <1>6 DEF Cancelled, End
  <2>2. 0 \in 0..MinInterval /\ source.attemptAge \in Nat
    BY ConstantFacts DEF RowsOK, SourceRow
  <2>3. source' \in SourceRow
    BY <2>1, <2>2 DEF RowsOK, SourceRow
  <2>4. source'.attemptAge = 0 /\ source'.breaker = source.breaker /\ source'.failures = source.failures
        /\ source'.retryIn = source.retryIn
    BY <2>1 DEF RowsOK, SourceRow
  <2> QED
    BY <2>1, <2>2, <2>3, <2>4, EmptiedSlot DEF RowsOK, BreakerCountsFailures, BackoffWhileOpen
<1> QED
  BY <1>1, <1>2, <1>3, <1>4, <1>5, <1>6 DEF Requests

\* So do the chores, the watchdog and the planner.
LEMMA AutopilotKeeps == RowsOK /\ Autopilot => RowsOK'
<1> SUFFICES ASSUME RowsOK, Autopilot PROVE RowsOK'
  OBVIOUS
<1>1. CASE Chores
  <2>1. source' \in SourceRow /\ source'.attemptAge = source.attemptAge
        /\ source'.breaker = source.breaker /\ source'.failures = source.failures
        /\ source'.retryIn = source.retryIn
    BY <1>1 DEF Chores, RowsOK, SourceRow
  <2>2. run' = run /\ contactAge' = contactAge
    BY <1>1 DEF Chores
  <2> QED
    BY <2>1, <2>2 DEF RowsOK, BreakerCountsFailures, BackoffWhileOpen, RowTellsContact, StillAdmitted
<1>2. ASSUME NEW wanted, PullIf(wanted), contactAge' = contactAge
      PROVE  RowsOK'
  <2>1. CASE EnqueueGuarded("PULL", "GUARDED", Polite)
    BY <1>2, <2>1, GuardedRun, ConstantFacts DEF Kinds, Origins
  <2>2. CASE UNCHANGED <<source, run>>
    BY <1>2, <2>2 DEF RowsOK, BreakerCountsFailures, BackoffWhileOpen, RowTellsContact, StillAdmitted
  <2> QED
    BY <1>2, <2>1, <2>2 DEF PullIf
<1>3. CASE Watchdog
  BY <1>2, <1>3 DEF Watchdog
<1>4. CASE Plan
  BY <1>2, <1>4 DEF Plan
<1> QED
  BY <1>1, <1>3, <1>4 DEF Autopilot

\* So do the steps of a run, its ends and its crashes: every end that writes the row ends the run.
LEMMA RunKeeps == RowsOK /\ RestOK /\ (Claim \/ Step \/ Outcome \/ CrashAndReclaim) => RowsOK'
<1> SUFFICES ASSUME RowsOK, RestOK, Claim \/ Step \/ Outcome \/ CrashAndReclaim PROVE RowsOK'
  OBVIOUS
<1> USE DEF Kinds, Origins
<1>0. /\ source \in SourceRow /\ clock \in 0..Cadence - 1 /\ BreakerCountsFailures /\ BackoffWhileOpen
      /\ source.attemptAge \in 0..MinInterval /\ 0 \in 0..MinInterval
      /\ source.attemptAge <= source.attemptAge
      /\ run \in RunRow /\ run.contacted \in BOOLEAN
  BY ConstantFacts DEF RowsOK, RestOK, SourceRow, RunRow
<1>1. CASE Claim
  <2>1. /\ run' \in RunRow /\ run'.status = "RUNNING" /\ run.status = "QUEUED"
        /\ run'.kind = run.kind /\ run'.origin = run.origin /\ run'.contacted = run.contacted
    BY <1>0, <1>1 DEF Claim, RunRow
  <2>2. source' = source /\ contactAge' = contactAge
    BY <1>1 DEF Claim
  <2> QED
    BY <2>1, <2>2 DEF RowsOK, BreakerCountsFailures, BackoffWhileOpen, RowTellsContact, StillAdmitted
<1>2. CASE Contact
  <2>1. /\ run' \in RunRow /\ run'.status = "RUNNING" /\ run'.kind \in {"PULL", "DRY"}
        /\ run'.contacted = TRUE
    BY <1>0, <1>2 DEF Contact, Running, RunRow
  <2>2. source' \in SourceRow /\ source'.attemptAge = 0 /\ source'.breaker = source.breaker
        /\ source'.failures = source.failures /\ source'.retryIn = source.retryIn /\ contactAge' = 0
    BY <1>0, <1>2 DEF Contact, SourceRow
  <2> QED
    BY <1>0, <2>1, <2>2 DEF RowsOK, BreakerCountsFailures, BackoffWhileOpen, RowTellsContact, StillAdmitted
<1>3. CASE Archive
  <2>1. /\ run' \in RunRow /\ run'.status = run.status /\ run.status = "RUNNING"
        /\ run'.kind = run.kind /\ run'.origin = run.origin /\ run'.contacted = run.contacted
    BY <1>0, <1>3 DEF Archive, Running, RunRow
  <2>2. source' = source /\ contactAge' = contactAge
    BY <1>3 DEF Archive
  <2> QED
    BY <2>1, <2>2 DEF RowsOK, BreakerCountsFailures, BackoffWhileOpen, RowTellsContact, StillAdmitted
<1>4. CASE Publish
  <2>1. Fresh \in BOOLEAN
    BY <1>0 DEF Fresh
  <2>2. source' = OnSuccess(run.contacted, Fresh) /\ run' = NoRun /\ contactAge' = contactAge
    BY <1>4 DEF Publish, End, Unfetched
  <2>3. /\ source' \in SourceRow /\ source'.attemptAge <= source.attemptAge
        /\ source'.breaker = "CLOSED" /\ source'.failures = 0 /\ source'.retryIn = 0
    BY <1>0, <2>1, <2>2, SuccessRow
  <2> QED
    BY <2>2, <2>3, EmptiedSlot, ConstantFacts
<1>5. CASE NoChange
  <2>1. source' = OnSuccess(TRUE, TRUE) /\ run' = NoRun /\ contactAge' = contactAge
    BY <1>5 DEF NoChange, End, Unfetched
  <2>2. /\ source' \in SourceRow /\ source'.attemptAge <= source.attemptAge
        /\ source'.breaker = "CLOSED" /\ source'.failures = 0 /\ source'.retryIn = 0
    BY <1>0, <2>1, SuccessRow
  <2>3. source'.breaker = "CLOSED" <=> source'.failures < BreakerThreshold
    BY <2>2, ConstantFacts
  <2> QED
    BY <2>1, <2>2, <2>3, EmptiedSlot
<1>6. CASE DryRunEnds
  <2>1. source' = source /\ run' = NoRun /\ contactAge' = contactAge
    BY <1>6 DEF DryRunEnds, End, Unfetched
  <2> QED
    BY <1>0, <2>1, EmptiedSlot DEF BreakerCountsFailures, BackoffWhileOpen
<1>7. CASE DataProblem
  <2>1. source' = OnDataProblem(run.contacted) /\ run' = NoRun /\ contactAge' = contactAge
    BY <1>7 DEF DataProblem, End, Unfetched
  <2>2. /\ source' \in SourceRow /\ source'.attemptAge <= source.attemptAge
        /\ source'.breaker = source.breaker /\ source'.failures = source.failures
        /\ source'.retryIn = source.retryIn
    BY <1>0, <2>1, DataProblemRow
  <2> QED
    BY <1>0, <2>1, <2>2, EmptiedSlot DEF BreakerCountsFailures, BackoffWhileOpen
<1>8. CASE Fails
  <2>1. source' = OnFailure /\ run' = NoRun /\ contactAge' = contactAge
    BY <1>8 DEF Fails, End, Unfetched
  <2> QED
    BY <1>0, <2>1, FailureRow, EmptiedSlot
<1>9. CASE CrashAndReclaim
  <2>1. source' = source /\ contactAge' = contactAge
    BY <1>9 DEF CrashAndReclaim
  <2>2. CASE run' = NoRun
    BY <1>0, <2>1, <2>2, EmptiedSlot DEF BreakerCountsFailures, BackoffWhileOpen
  <2>3. CASE run' # NoRun
    <3>1. run.resumes < MaxResumes
          /\ run' = [NewRun("QUEUED", run.kind, "RESUME", 0)
                       EXCEPT !.reuses = run.archived, !.resumes = run.resumes + 1]
      BY <1>9, <2>3 DEF CrashAndReclaim
    <3>2. run' = [status |-> "QUEUED", kind |-> run.kind, origin |-> "RESUME", waits |-> 0,
                  contacted |-> FALSE, reuses |-> run.archived, archived |-> FALSE,
                  resumes |-> run.resumes + 1]
      BY <3>1 DEF NewRun
    <3>3. /\ run.kind \in Kinds /\ run.archived \in BOOLEAN /\ run.resumes + 1 \in 0..MaxResumes
          /\ 0 \in 0..MaxDelay
      BY <1>0, <3>1, ConstantFacts DEF RunRow
    <3>4. run' \in RunRow /\ run'.status = "QUEUED" /\ run'.origin = "RESUME" /\ run'.contacted = FALSE
      BY <3>2, <3>3 DEF RunRow
    <3> QED
      BY <2>1, <3>4 DEF RowsOK, BreakerCountsFailures, BackoffWhileOpen, RowTellsContact, StillAdmitted
  <2> QED
    BY <2>2, <2>3
<1> QED
  BY <1>1, <1>2, <1>3, <1>4, <1>5, <1>6, <1>7, <1>8, <1>9 DEF Step, Outcome

\* So do users, the passing of time and stuttering.
LEMMA SettingsKeep == RowsOK /\ (Settings \/ Advance \/ UNCHANGED vars) => RowsOK'
<1> SUFFICES ASSUME RowsOK, Settings \/ Advance \/ UNCHANGED vars PROVE RowsOK'
  OBVIOUS
<1>0. source \in SourceRow /\ run \in RunRow /\ contactAge \in 0..MinInterval
  BY DEF RowsOK
<1>1. ASSUME source' \in SourceRow, run' = run, contactAge' = contactAge,
             source'.attemptAge = source.attemptAge, source'.breaker = source.breaker,
             source'.failures = source.failures, source'.retryIn = source.retryIn
      PROVE  RowsOK'
  BY <1>1 DEF RowsOK, BreakerCountsFailures, BackoffWhileOpen, RowTellsContact, StillAdmitted
<1>2. CASE SetStatus
  <2>1. PICK status \in {"ACTIVE", "PAUSED", "DISABLED"}, until \in 0..MaxPause \cup {NULL} :
          source' = [source EXCEPT !.status = status, !.pausedFor = until]
    BY <1>2 DEF SetStatus
  <2>2. source' \in SourceRow
    BY <1>0, <2>1 DEF SourceRow
  <2>3. source'.attemptAge = source.attemptAge /\ source'.breaker = source.breaker
        /\ source'.failures = source.failures /\ source'.retryIn = source.retryIn
    BY <1>0, <2>1 DEF SourceRow
  <2> QED
    BY <1>1, <1>2, <2>2, <2>3 DEF SetStatus
<1>3. CASE ApplyConfig
  <2>1. Cadence \in 0..LongestWait
    BY ConstantFacts
  <2>2. source' \in SourceRow /\ source'.attemptAge = source.attemptAge
        /\ source'.breaker = source.breaker /\ source'.failures = source.failures
        /\ source'.retryIn = source.retryIn
    BY <1>0, <1>3, <2>1 DEF ApplyConfig, SourceRow
  <2> QED
    BY <1>1, <1>3, <2>2 DEF ApplyConfig
<1>4. CASE ToggleMaintenance \/ SignalArrives \/ UNCHANGED vars
  BY <1>0, <1>1, <1>4 DEF ToggleMaintenance, SignalArrives, vars
<1>5. CASE Advance
  <2> DEFINE pausedFor == IF source.pausedFor = NULL THEN NULL ELSE DownTo0(source.pausedFor)
             attemptAge == UpTo(MinInterval, source.attemptAge)
             successAge == UpTo(HardStaleness + 1, source.successAge)
             dueIn == DownTo0(source.dueIn)
             retryIn == DownTo0(source.retryIn)
             waits == DownTo0(run.waits)
  <2>1. /\ pausedFor \in 0..MaxPause \cup {NULL} /\ attemptAge \in 0..MinInterval
        /\ successAge \in 0..HardStaleness + 1 /\ dueIn \in 0..LongestWait
        /\ retryIn \in 0..BreakerMax
    BY <1>0, ConstantFacts DEF SourceRow, DownTo0, UpTo
  <2>2. waits \in 0..MaxDelay /\ (source.retryIn = 0 => retryIn = 0)
    BY <1>0, ConstantFacts DEF RunRow, DownTo0
  <2>3. attemptAge >= source.attemptAge /\ UpTo(MinInterval, contactAge) \in 0..MinInterval
        /\ attemptAge <= UpTo(MinInterval, contactAge)
    BY <1>0, ConstantFacts DEF RowsOK, RowTellsContact, SourceRow, UpTo
  <2>4. source' = [source EXCEPT !.pausedFor = pausedFor, !.attemptAge = attemptAge,
                     !.successAge = successAge, !.dueIn = dueIn, !.retryIn = retryIn]
        /\ run' = [run EXCEPT !.waits = waits] /\ contactAge' = UpTo(MinInterval, contactAge)
    BY <1>5 DEF Advance
  <2> HIDE DEF pausedFor, attemptAge, successAge, dueIn, retryIn, waits
  <2>5. /\ source' \in SourceRow /\ source'.attemptAge = attemptAge
        /\ source'.breaker = source.breaker /\ source'.failures = source.failures
        /\ source'.retryIn = retryIn
    BY <1>0, <2>1, <2>4 DEF SourceRow
  <2>6. /\ run' \in RunRow /\ run'.status = run.status /\ run'.kind = run.kind
        /\ run'.origin = run.origin /\ run'.contacted = run.contacted
    BY <1>0, <2>2, <2>4 DEF RunRow
  <2>7. run.status = "NONE" => run' = NoRun
    <3>1. run = NoRun => waits = 0
      BY DEF waits, DownTo0, NoRun, NewRun
    <3>2. [NoRun EXCEPT !.waits = 0] = NoRun
      BY DEF NoRun, NewRun
    <3> QED
      BY <2>4, <3>1, <3>2 DEF RowsOK
  <2>8. source.attemptAge \in Int /\ attemptAge \in Int /\ Polite \in Int /\ OverrideFloor \in Int
    BY <1>0, <2>1, ConstantFacts DEF SourceRow
  <2>9. StillAdmitted'
    BY <2>2, <2>3, <2>5, <2>6, <2>8 DEF RowsOK, StillAdmitted
  <2> QED
    BY <2>2, <2>3, <2>4, <2>5, <2>6, <2>7, <2>9
    DEF RowsOK, BreakerCountsFailures, BackoffWhileOpen, RowTellsContact
<1> QED
  BY <1>2, <1>3, <1>4, <1>5 DEF Settings

\* The rest keeps its type.
LEMMA RestKept == RestOK /\ [Next]_vars => RestOK'
<1> SUFFICES ASSUME RestOK, [Next]_vars PROVE RestOK'
  OBVIOUS
<1>1. /\ acts' = acts \/ Act
      /\ clock' = clock \/ clock' = (clock + 1) % Cadence
      /\ cycle' = cycle \/ cycle' \in {"CHORES", "WATCHDOG", "PLAN"}
      /\ maintenance' \in BOOLEAN
      /\ signal' \in BOOLEAN
  <2> USE DEF Next, vars, Requests, RunNow, ScheduleRetry, ApproveRelease, RunInline, CancelQueued,
       Cancelled, Autopilot, Chores, Watchdog, Plan, Claim, Step, Contact, Archive, Outcome, Publish, NoChange,
       DryRunEnds, DataProblem, Fails, Unfetched, CrashAndReclaim, Settings, SetStatus, ApplyConfig,
       ToggleMaintenance, SignalArrives, Advance
  <2>1. acts' = acts \/ Act
    OBVIOUS
  <2>2. clock' = clock \/ clock' = (clock + 1) % Cadence
    OBVIOUS
  <2>3. cycle' = cycle \/ cycle' \in {"CHORES", "WATCHDOG", "PLAN"}
    OBVIOUS
  <2>4. maintenance' \in BOOLEAN
    BY DEF RestOK
  <2>5. signal' \in BOOLEAN
    BY DEF RestOK
  <2> QED
    BY <2>1, <2>2, <2>3, <2>4, <2>5
<1>2. acts' \in 0..MaxActs
  BY <1>1, ConstantFacts DEF RestOK, Act
<1>3. clock' \in 0..Cadence - 1
  BY <1>1, ConstantFacts DEF RestOK
<1> QED
  BY <1>1, <1>2, <1>3 DEF RestOK

\* Every step keeps the invariant.
LEMMA Invariance == Spec => []Inv
<1>1. Inv /\ [Next]_vars => Inv'
  <2> SUFFICES ASSUME RowsOK, RestOK, [Next]_vars PROVE RowsOK' /\ RestOK'
    BY TwoParts
  <2> QED
    BY RestKept, RequestsKeep, AutopilotKeeps, RunKeeps, SettingsKeep DEF Next
<1> QED
  BY <1>1, Initially, PTL DEF Spec

-----------------------------------------------------------------------------
(* The theorems *)

\* Every reachable state is well typed: no wait, age or count leaves its range.
THEOREM SourceTypeCorrect == Spec => []SourceTypeOK
<1>1. Inv => SourceTypeOK
  BY DEF Inv
<1> QED
  BY <1>1, Invariance, PTL

\* The breaker counts failures, whatever the order of outcomes, probes and cancellations.
THEOREM BreakerCounts == Spec => []BreakerCountsFailures
<1>1. Inv => BreakerCountsFailures
  BY DEF Inv
<1> QED
  BY <1>1, Invariance, PTL

\* A run that contacts the publisher is one that fetches and had not yet done so.
LEMMA WhoContacts ==
  ASSUME Inv, [Next]_vars, Contacts
  PROVE  run.status # "NONE" /\ ~run.contacted /\ run.kind \in {"PULL", "DRY"}
<1>1. CASE Contact
  BY <1>1 DEF Contact, Running, Contacts
<1>2. CASE run' = NoRun
  BY <1>2, NoRunClean DEF Contacts
<1>3. ASSUME NEW status, NEW kind, NEW origin, NEW waits, run' = NewRun(status, kind, origin, waits)
      PROVE  FALSE
  BY <1>3 DEF Contacts, NewRun
<1>4. CASE run'.contacted = run.contacted
  BY <1>4 DEF Contacts
<1>5. ASSUME NEW kind, NEW origin, NEW interval, EnqueueGuarded(kind, origin, interval)
      PROVE  FALSE
  BY <1>3, <1>4, <1>5 DEF EnqueueGuarded, Contacts
<1>6. CASE Requests
  BY <1>2, <1>3, <1>5, <1>6
  DEF Requests, RunNow, ScheduleRetry, ApproveRelease, RunInline, CancelQueued, Cancelled, End
<1>7. CASE Autopilot
  BY <1>4, <1>5, <1>7 DEF Autopilot, Chores, Watchdog, Plan, PullIf
<1>8. CASE Claim \/ Archive \/ Advance
  <2>1. run \in RunRow
    BY TwoParts DEF RowsOK
  <2>2. run'.contacted = run.contacted
    BY <1>8, <2>1 DEF Claim, Archive, Advance, RunRow
  <2> QED
    BY <1>4, <2>2
<1>9. CASE Outcome
  BY <1>2, <1>9 DEF Outcome, Publish, NoChange, DryRunEnds, DataProblem, Fails, End
<1>10. CASE CrashAndReclaim
  <2>1. run' = NoRun \/ run'.contacted = FALSE
    BY <1>10 DEF CrashAndReclaim, NewRun
  <2> QED
    BY <1>2, <2>1 DEF Contacts
<1>11. CASE Settings \/ UNCHANGED vars
  BY <1>4, <1>11 DEF Settings, SetStatus, ApplyConfig, ToggleMaintenance, SignalArrives, vars
<1> QED
  BY <1>1, <1>6, <1>7, <1>8, <1>9, <1>10, <1>11 DEF Next, Step

\* However long a guarded pull waited, and whatever crashed before, it is polite to the publisher.
THEOREM PullsArePolite == Spec => PolitePulls
<1>1. Inv /\ [Next]_vars =>
        [Contacts => /\ run.origin = "GUARDED" => contactAge >= Polite
                     /\ run.origin = "OVERRIDE" => contactAge >= OverrideFloor]_vars
  <2> SUFFICES ASSUME Inv, [Next]_vars, Contacts
               PROVE  /\ run.origin = "GUARDED" => contactAge >= Polite
                      /\ run.origin = "OVERRIDE" => contactAge >= OverrideFloor
    OBVIOUS
  <2>1. /\ run.origin = "GUARDED" => source.attemptAge >= Polite
        /\ run.origin = "OVERRIDE" => source.attemptAge >= OverrideFloor
    BY WhoContacts DEF Inv, StillAdmitted
  <2>2. source.attemptAge \in Int /\ contactAge \in Int /\ source.attemptAge <= contactAge
    BY ConstantFacts DEF Inv, SourceTypeOK, SourceRow, RowTellsContact
  <2> QED
    BY <2>1, <2>2, ConstantFacts
<1> QED
  BY <1>1, Invariance, PTL DEF Spec, PolitePulls

\* However long a guarded pull waited, no backoff is running when it contacts the publisher.
THEOREM BackoffIsRespected == Spec => NoPullInBackoff
<1>1. Inv /\ [Next]_vars =>
        [Contacts /\ run.origin \in {"GUARDED", "OVERRIDE"} => source.retryIn = 0]_vars
  BY WhoContacts DEF Inv, StillAdmitted
<1> QED
  BY <1>1, Invariance, PTL DEF Spec, NoPullInBackoff

\* Nothing but data from outside makes a source look fresh.
THEOREM FreshnessIsEarned == Spec => OnlyNewDataIsFresh
<1>1. Inv /\ [Next]_vars =>
        [source'.successAge < source.successAge => run.contacted \/ run.kind = "LOAD"]_vars
  <2> SUFFICES ASSUME Inv, [Next]_vars, source'.successAge < source.successAge
               PROVE  run.contacted \/ run.kind = "LOAD"
    OBVIOUS
  <2>0. /\ source \in SourceRow /\ clock \in 0..Cadence - 1 /\ BreakerCountsFailures /\ BackoffWhileOpen
        /\ run.contacted \in BOOLEAN /\ source.successAge \in Nat
    BY ConstantFacts DEF Inv, SourceTypeOK, SourceRow, RunRow
  <2>1. source'.successAge # source.successAge
    BY <2>0
  <2>2. CASE Publish
    <3>1. Fresh \in BOOLEAN /\ source' = OnSuccess(run.contacted, Fresh)
      BY <2>0, <2>2 DEF Fresh, Publish
    <3>2. Fresh
      BY <2>0, <2>1, <3>1, SuccessRow
    <3> QED
      BY <3>2 DEF Fresh
  <2>3. CASE NoChange
    BY <2>3 DEF NoChange
  <2>4. CASE DataProblem
    BY <2>0, <2>1, <2>4, DataProblemRow DEF DataProblem
  <2>5. CASE Fails
    BY <2>0, <2>1, <2>5, FailureRow DEF Fails
  <2>6. CASE Advance
    <3>1. source'.successAge = UpTo(HardStaleness + 1, source.successAge)
      BY <2>0, <2>6 DEF Advance, SourceRow
    <3> QED
      BY <2>0, <3>1, ConstantFacts DEF UpTo, SourceRow
  <2>7. ASSUME NEW kind, NEW origin, NEW interval, EnqueueGuarded(kind, origin, interval)
        PROVE  FALSE
    BY <2>0, <2>1, <2>7 DEF EnqueueGuarded, Probed, SourceRow
  <2>8. CASE Requests
    BY <2>0, <2>1, <2>7, <2>8
    DEF Requests, RunNow, ScheduleRetry, ApproveRelease, RunInline, CancelQueued, Cancelled, SourceRow
  <2>9. CASE Autopilot
    BY <2>0, <2>1, <2>7, <2>9 DEF Autopilot, Chores, Watchdog, Plan, PullIf, SourceRow
  <2>10. CASE Claim \/ Archive \/ Contact \/ DryRunEnds \/ CrashAndReclaim
    BY <2>0, <2>1, <2>10 DEF Claim, Archive, Contact, DryRunEnds, CrashAndReclaim, SourceRow
  <2>11. CASE Settings \/ UNCHANGED vars
    BY <2>0, <2>1, <2>11
    DEF Settings, SetStatus, ApplyConfig, ToggleMaintenance, SignalArrives, vars, SourceRow
  <2> QED
    BY <2>2, <2>3, <2>4, <2>5, <2>6, <2>8, <2>9, <2>10, <2>11 DEF Next, Step, Outcome
<1> QED
  BY <1>1, Invariance, PTL DEF Spec, OnlyNewDataIsFresh
=============================================================================
