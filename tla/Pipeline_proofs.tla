--------------------------- MODULE Pipeline_proofs ---------------------------
(***************************************************************************)
(* Theorems about the pipeline, for any number of sources, runs, threads,  *)
(* files and versions.  It implements the run queue, so what is proved of  *)
(* the queue holds of it; what it publishes was allowed (PipelineInv); and *)
(* with heartbeats that get through it is the whole file, and runs and     *)
(* versions agree (WholeInv). Without them still nothing rewrites what was *)
(* published, and the list only goes forward (ContentIsPublished). At the  *)
(* end, what the bounds of module Validation, by which the pipeline        *)
(* decides, guarantee.                                                     *)
(***************************************************************************)
EXTENDS Pipeline, Validation, RunQueue_proofs, SequenceTheorems, FiniteSetTheorems

\* An executor may report any outcome the pipeline has.
LEMMA FinishAllowed ==
  ASSUME NEW e \in Executor, NEW outcome \in Terminal \ {"ABANDONED"}, FinishRun(e, outcome)
  PROVE  Next
  BY EveryOutcomeAssumption DEF Next

\* The queue sees nothing of the steps between those that take or close a run.
LEMMA InnerStep ==
  ASSUME NEW e \in Executor,
         \/ Start(e) \/ PurgeStaging(e) \/ Copy(e) \/ Purge(e)
         \/ \E b \in Bytes : Fetch(e, b)
  PROVE  UNCHANGED vars
  BY DEF Start, PurgeStaging, Copy, Purge, Fetch

\* A step of an executor that may close its run leaves the queue alone if it does not.
LEMMA ClosingStep ==
  ASSUME NEW e \in Executor,
         \/ NotModified(e) \/ Archive(e) \/ FinishDryRun(e) \/ DiffPublish(e) \/ CheckRelease(e)
         \/ Release(e) \/ Cancelled(e) \/ Fails(e) \/ ParseFails(e)
         \/ \E valid \in BOOLEAN : ValidateFile(e, valid)
         \/ \E outcome \in {"PASS", "HOLD", "QUARANTINE"} : ValidateData(e, outcome)
  PROVE  [Next]_vars
<1> USE FinishAllowed DEF Terminal, Finish
<1>1. CASE NotModified(e)
  BY <1>1 DEF NotModified
<1>2. CASE Archive(e)
  <2>1. ASSUME NEW q \in SameBytesPending(e), Finish(e, version[SourceOf(e)][q].status)
        PROVE  Next
    BY <2>1 DEF SameBytesPending
  <2> QED
    BY <1>2, <2>1 DEF Archive
<1>3. CASE FinishDryRun(e)
  BY <1>3 DEF FinishDryRun
<1>4. CASE DiffPublish(e) \/ Release(e)
  BY <1>4 DEF DiffPublish, Release, PublishFrom
<1>5. CASE CheckRelease(e)
  BY <1>5 DEF CheckRelease
<1>6. CASE Cancelled(e) \/ Fails(e) \/ ParseFails(e)
  BY <1>6 DEF Cancelled, Fails, ParseFails
<1>7. CASE \E valid \in BOOLEAN : ValidateFile(e, valid)
  BY <1>7, SMTT(40) DEF ValidateFile
<1>8. CASE \E outcome \in {"PASS", "HOLD", "QUARANTINE"} : ValidateData(e, outcome)
  BY <1>8 DEF ValidateData
<1> QED
  BY <1>1, <1>2, <1>3, <1>4, <1>5, <1>6, <1>7, <1>8

\* Every step of the pipeline is a step of the queue or leaves it alone.
LEMMA StepImplements == [PipelineNext]_allvars => [Next]_vars
<1> SUFFICES ASSUME PipelineNext PROVE [Next]_vars
  BY DEF allvars
<1>1. CASE QueueStep
  <2>1. ASSUME NEW s \in Source, NEW r \in RunId, NEW due \in BOOLEAN, NEW o \in Options,
               RequestRun(s, r, due, o)
        PROVE  Next
    BY <2>1 DEF RequestRun, Next
  <2>2. ASSUME NEW e \in Executor, NEW r \in RunId, Claim(e, r)
        PROVE  Next
    BY <2>2 DEF Next
  <2>3. ASSUME NEW e \in Executor, Crash(e) \/ Heartbeat(e)
        PROVE  Next
    BY <2>3 DEF Next
  <2>4. ASSUME NEW r \in RunId, BecomeDue(r) \/ RequestCancel(r) \/ LeaseExpires(r)
        PROVE  Next
    BY <2>4 DEF Next
  <2>5. ASSUME NEW s \in Source, SetSourceStatus(s)
        PROVE  Next
    BY <2>5 DEF Next
  <2> QED
    BY <1>1, <2>1, <2>2, <2>3, <2>4, <2>5 DEF QueueStep
<1>2. CASE \E r \in RunId, child \in RunId \cup {NULL} : ReclaimRun(r, child)
  BY <1>2 DEF ReclaimRun, Next
<1>3. CASE \E e \in Executor : PurgeFails(e) \/ Returns(e)
  BY <1>3 DEF PurgeFails, Returns, Next
<1>4. CASE \E s \in Source : \E q \in Pending(s), r \in RunId : ApproveRelease(s, q, r)
  BY <1>4 DEF ApproveRelease, Next
<1>5. CASE \E s \in Source : \E q \in Pending(s) : RejectRelease(s, q)
  BY <1>5 DEF RejectRelease
<1> QED
  BY <1>1, <1>2, <1>3, <1>4, <1>5, InnerStep, ClosingStep DEF PipelineNext

\* The pipeline does to the run queue only what RunQueue allows: claiming, closing and reclaiming
\* are the queue's own actions, whatever the executor does in between.
THEOREM Implements == PipelineSpec => ImplementsQueue
<1>1. PipelineInit => Init
  BY DEF PipelineInit
<1> QED
  BY <1>1, StepImplements, PTL DEF PipelineSpec, ImplementsQueue, Spec

\* With heartbeats that do not fail, two threads never work on the same source in the pipeline.
THEOREM PipelineExclusive == PipelineSpec => []ExclusiveExecution
  BY Implements, Exclusive, PTL DEF ImplementsQueue

-----------------------------------------------------------------------------
(* What holds of the pipeline whether or not heartbeats get through *)

\* Steps of a run that has not inserted its version, and of one that has.
BeforeVersion == {"START", "FETCH", "ARCHIVE", "VALIDATE_FILE", "RELEASE"}
WithVersion == {"PARSE", "COPY1", "COPY2", "VALIDATE_DATA", "DRY_RUN", "DIFF_PUBLISH"}

\* A version nobody proposed to release and nobody published.
Quiet(v) == v.release = "NONE" /\ ~IsPublished(v)

\* What an executor knows at its step: the bytes it is about to archive or insert, the kind of its
\* run, and which version is its own.
StepInv(e) ==
  phase[e] = "EXECUTING" =>
    /\ pc[e] \in {"ARCHIVE", "VALIDATE_FILE"} => bytes[e] \in Bytes
    /\ pc[e] # "START" => (pc[e] = "RELEASE" <=> options[thread[e]].release # 0)
    /\ pc[e] \in BeforeVersion <=> seq[e] = 0
    /\ pc[e] \in BeforeVersion => \A s \in Source : \A q \in DOMAIN version[s] : version[s][q].run # thread[e]
    /\ pc[e] \in WithVersion =>
         LET s == SourceOf(e) IN
         seq[e] \in DOMAIN version[s] /\ version[s][seq[e]].run = thread[e] /\ Quiet(version[s][seq[e]])
    /\ pc[e] = "DIFF_PUBLISH" => ~options[thread[e]].dry

\* A version belongs to an ingest run that was taken, is published only if that was allowed, and held
\* without a proposal only by a dry run.
RowHolds(s, v, runs, opts) ==
  /\ runs[v.run].status \notin {"UNUSED", "QUEUED"} /\ runs[v.run].source = s
  /\ opts[v.run].release = 0
  /\ v.release # "NONE" => ~opts[v.run].dry
  /\ v.status = "HELD" /\ v.release = "NONE" => opts[v.run].dry
  /\ IsPublished(v) => v.release \in {"NONE", "APPLIED"} /\ ~opts[v.run].dry

VersionsInv ==
  \A s \in Source : /\ Len(version[s]) <= MaxVersions
                    /\ \A q \in DOMAIN version[s] : RowHolds(s, version[s][q], run, options)
                    /\ \A i, j \in DOMAIN version[s] : version[s][i].run = version[s][j].run => i = j

\* A run that releases was requested by the approval of its version's release.
ReleaseInv ==
  \A r \in RunId : run[r].status # "UNUSED" /\ options[r].release # 0 =>
    LET s == run[r].source IN
    options[r].release \in DOMAIN version[s] /\ version[s][options[r].release].release = "APPLIED"

\* The inductive invariant.
PipelineInv ==
  /\ PipelineTypeOK
  /\ \A e \in Executor : StepInv(e)
  /\ VersionsInv
  /\ ReleaseInv

\* What a step may do to a version that it neither inserts, validates, closes nor publishes: the run
\* and what was counted and published stay, a decision on the release is final, it may be
\* superseded, and it is rejected only if its run is given up.
Kept(v, w) ==
  /\ w.run = v.run /\ w.count = v.count /\ w.content = v.content
  /\ w.release # v.release => v.release = "PENDING" /\ w.release # "NONE"
  /\ w.status # v.status =>
       \/ v.status \in {"PUBLISHED", "HELD"} /\ w.status = "SUPERSEDED"
       \/ v.status \in {"CANDIDATE", "VALIDATED"} /\ w.status = "REJECTED" /\ run'[v.run].status = "ABANDONED"

\* Every version but the one at place q of s is kept, and no other is new.
OthersKept(s, q) ==
  /\ version' \in [Source -> Seq(VersionRow)]
  /\ \A t \in Source :
       /\ Len(version'[t]) <= MaxVersions
       /\ DOMAIN version[t] \subseteq DOMAIN version'[t]
       /\ \A i \in DOMAIN version'[t] :
            (t = s /\ i = q) \/ (i \in DOMAIN version[t] /\ Kept(version[t][i], version'[t][i]))

-----------------------------------------------------------------------------
\* The types, in the form the proofs use them.
LEMMA Types ==
  ASSUME PipelineTypeOK
  PROVE  /\ TypeOK
         /\ \A r \in RunId : run[r] \in RunRow /\ options[r] \in RunOptions /\ staging[r] \in SUBSET Batch
         /\ \A e \in Executor : /\ thread[e] \in RunId \cup {NULL} /\ pc[e] \in Steps
                                /\ bytes[e] \in Bytes \cup {NULL} /\ seq[e] \in 0..MaxVersions
                                /\ phase[e] = "EXECUTING" => thread[e] \in RunId
                                /\ phase[e] = "EXECUTING" <=> pc[e] \notin {"NONE", "PURGE"}
         /\ \A s \in Source : /\ version[s] \in Seq(VersionRow) /\ Len(version[s]) \in Nat
                              /\ DOMAIN version[s] = 1..Len(version[s])
                              /\ \A q \in DOMAIN version[s] : /\ version[s][q] \in VersionRow
                                                              /\ version[s][q].run \in RunId
<1>1. TypeOK /\ version \in [Source -> Seq(VersionRow)]
  BY DEF PipelineTypeOK
<1>2. \A r \in RunId : run[r] \in RunRow
  BY <1>1 DEF TypeOK
<1>3. \A e \in Executor : thread[e] \in RunId \cup {NULL} /\ (phase[e] = "EXECUTING" => thread[e] \in RunId)
  BY <1>1 DEF TypeOK
<1>4. ASSUME NEW s \in Source
      PROVE  /\ version[s] \in Seq(VersionRow) /\ Len(version[s]) \in Nat
             /\ DOMAIN version[s] = 1..Len(version[s])
             /\ \A q \in DOMAIN version[s] : version[s][q] \in VersionRow
  <2>1. version[s] \in Seq(VersionRow)
    BY <1>1
  <2> QED
    BY <2>1, LenProperties, ElementOfSeq
<1>5. \A v \in VersionRow : v.run \in RunId
  BY DEF VersionRow
<1> QED
  BY <1>1, <1>2, <1>3, <1>4, <1>5 DEF PipelineTypeOK

\* What an assignment to one version of a source leaves.
LEMMA SetRow ==
  ASSUME PipelineTypeOK, NEW s \in Source, NEW q \in DOMAIN version[s], NEW row \in VersionRow,
         version' = [version EXCEPT ![s][q] = row]
  PROVE  /\ version' \in [Source -> Seq(VersionRow)]
         /\ version'[s][q] = row
         /\ \A t \in Source : /\ DOMAIN version'[t] = DOMAIN version[t] /\ Len(version'[t]) = Len(version[t])
                              /\ \A i \in DOMAIN version[t] : (t = s /\ i = q) \/ version'[t][i] = version[t][i]
<1>0. version \in [Source -> Seq(VersionRow)]
  BY DEF PipelineTypeOK
<1>1. version[s] \in Seq(VersionRow)
  BY <1>0
<1>2. LET new == [version[s] EXCEPT ![q] = row]
      IN  /\ new \in Seq(VersionRow) /\ Len(new) = Len(version[s]) /\ DOMAIN new = DOMAIN version[s]
          /\ new[q] = row /\ \A i \in DOMAIN version[s] \ {q} : new[i] = version[s][i]
  <2>1. q \in 1..Len(version[s]) /\ DOMAIN version[s] = 1..Len(version[s])
    BY <1>1, LenProperties
  <2> QED
    BY <1>1, <2>1, ExceptSeq
<1>3. version'[s] = [version[s] EXCEPT ![q] = row] /\ \A t \in Source \ {s} : version'[t] = version[t]
  BY <1>0
<1>4. version' \in [Source -> Seq(VersionRow)]
  BY <1>0, <1>2
<1>5. \A t \in Source : /\ DOMAIN version'[t] = DOMAIN version[t] /\ Len(version'[t]) = Len(version[t])
                        /\ \A i \in DOMAIN version[t] : (t = s /\ i = q) \/ version'[t][i] = version[t][i]
  BY <1>2, <1>3
<1> QED
  BY <1>2, <1>3, <1>4, <1>5

\* A run keeps the options it was requested with.
LEMMA OptionsStay ==
  ASSUME PipelineTypeOK, [PipelineNext]_allvars, NEW r \in RunId, run[r].status # "UNUSED"
  PROVE  options'[r] = options[r]
<1>0. options \in [RunId -> RunOptions]
  BY DEF PipelineTypeOK
<1>1. CASE QueueStep
  <2>1. ASSUME NEW s \in Source, NEW q \in RunId, NEW due \in BOOLEAN, NEW o \in Options,
               RequestRun(s, q, due, o)
        PROVE  options'[r] = options[r]
    BY <1>0, <2>1 DEF RequestRun, Enqueue
  <2> QED
    BY <1>1, <2>1 DEF QueueStep, StartsExecuting, data
<1>2. ASSUME NEW q \in RunId, NEW child \in RunId \cup {NULL}, ReclaimRun(q, child)
      PROVE  options'[r] = options[r]
  <2>1. child = NULL \/ run[child].status = "UNUSED"
    BY <1>2 DEF ReclaimRun, Reclaim
  <2> QED
    BY <1>0, <1>2, <2>1 DEF ReclaimRun
<1>3. ASSUME NEW s \in Source, NEW q \in Pending(s), NEW c \in RunId, ApproveRelease(s, q, c)
      PROVE  options'[r] = options[r]
  BY <1>0, <1>3 DEF ApproveRelease, Enqueue
<1>4. CASE UNCHANGED allvars
  BY <1>4 DEF allvars, data
<1>5. ASSUME NEW e \in Executor, Start(e) \/ NotModified(e) \/ Archive(e)
      PROVE  UNCHANGED options
  BY <1>5 DEF Start, NotModified, Archive, data
<1>6. ASSUME NEW e \in Executor, NEW b \in Bytes, Fetch(e, b) PROVE UNCHANGED options
  BY <1>6 DEF Fetch, data
<1>7. ASSUME NEW e \in Executor, NEW valid \in BOOLEAN, ValidateFile(e, valid) PROVE UNCHANGED options
  BY <1>7 DEF ValidateFile
<1>8. ASSUME NEW e \in Executor, PurgeStaging(e) \/ Copy(e) \/ ParseFails(e) PROVE UNCHANGED options
  BY <1>8 DEF PurgeStaging, Copy, ParseFails
<1>9. ASSUME NEW e \in Executor, NEW outcome \in {"PASS", "HOLD", "QUARANTINE"}, ValidateData(e, outcome)
      PROVE  UNCHANGED options
  BY <1>9 DEF ValidateData
<1>10. ASSUME NEW e \in Executor, FinishDryRun(e) \/ DiffPublish(e) \/ CheckRelease(e) \/ Release(e)
       PROVE  UNCHANGED options
  BY <1>10 DEF FinishDryRun, DiffPublish, CheckRelease, Release, PublishFrom, data
<1>11. ASSUME NEW e \in Executor, Purge(e) \/ PurgeFails(e) \/ Returns(e) \/ Cancelled(e) \/ Fails(e)
       PROVE  UNCHANGED options
  BY <1>11 DEF Purge, PurgeFails, Returns, Cancelled, Fails, data
<1>12. ASSUME NEW s \in Source, NEW q \in Pending(s), RejectRelease(s, q) PROVE UNCHANGED options
  BY <1>12 DEF RejectRelease
<1> QED
  BY <1>1, <1>2, <1>3, <1>4, <1>5, <1>6, <1>7, <1>8, <1>9, <1>10, <1>11, <1>12 DEF PipelineNext

-----------------------------------------------------------------------------
\* The versions keep their invariant when the one at place q of s, new or not, does.
LEMMA VersionsHold ==
  ASSUME PipelineInv, TypeOK', [PipelineNext]_allvars,
         NEW s \in Source, NEW q, OthersKept(s, q),
         q \in DOMAIN version[s] => version'[s][q].run = version[s][q].run,
         q \in DOMAIN version'[s] => RowHolds(s, version'[s][q], run', options'),
         q \in DOMAIN version'[s] \ DOMAIN version[s] =>
           \A i \in DOMAIN version[s] : version[s][i].run # version'[s][q].run
  PROVE  VersionsInv' /\ \A t \in Source : \A i \in DOMAIN version'[t] : run'[version'[t][i].run].source = t
<1>0. PipelineTypeOK /\ VersionsInv /\ [Next]_vars
  BY StepImplements DEF PipelineInv
<1>1. \A t \in Source : \A i \in DOMAIN version[t] :
        LET r == version[t][i].run IN
        /\ r \in RunId /\ Taken(r) /\ run[r].source = t
        /\ run'[r].status \notin {"UNUSED", "QUEUED"} /\ run'[r].source = t
        /\ options'[r] = options[r]
  <2> SUFFICES ASSUME NEW t \in Source, NEW i \in DOMAIN version[t], NEW r, r = version[t][i].run
               PROVE  /\ r \in RunId /\ Taken(r) /\ run[r].source = t
                      /\ run'[r].status \notin {"UNUSED", "QUEUED"} /\ run'[r].source = t
                      /\ options'[r] = options[r]
    OBVIOUS
  <2>1. r \in RunId /\ Taken(r) /\ run[r].source = t
    BY <1>0, Types DEF VersionsInv, RowHolds, Taken
  <2>2. run[r].status # "UNUSED" /\ TypeOK
    BY <1>0, <2>1, Types DEF Taken
  <2> QED
    BY <1>0, <2>1, <2>2, RowsStay, OptionsStay
<1>2. ASSUME NEW t \in Source, NEW i \in DOMAIN version'[t] PROVE RowHolds(t, version'[t][i], run', options')
  <2>1. CASE t = s /\ i = q
    BY <2>1
  <2>2. CASE ~(t = s /\ i = q)
    <3>1. i \in DOMAIN version[t] /\ Kept(version[t][i], version'[t][i])
      BY <2>2 DEF OthersKept
    <3>2. RowHolds(t, version[t][i], run, options)
      BY <1>0, <3>1 DEF VersionsInv
    <3>3. version'[t][i].run = version[t][i].run
      BY <3>1 DEF Kept
    <3>4. options'[version[t][i].run] = options[version[t][i].run]
          /\ run'[version[t][i].run].status \notin {"UNUSED", "QUEUED"} /\ run'[version[t][i].run].source = t
      BY <1>1, <3>1
    <3>5. IsPublished(version'[t][i]) => IsPublished(version[t][i])
      BY <3>1 DEF Kept, IsPublished
    <3> QED
      BY <3>1, <3>2, <3>3, <3>4, <3>5 DEF RowHolds, Kept
  <2> QED
    BY <2>1, <2>2
<1>3. ASSUME NEW t \in Source, NEW i \in DOMAIN version'[t], NEW j \in DOMAIN version'[t],
             version'[t][i].run = version'[t][j].run
      PROVE  i = j
  <2>1. \A k \in DOMAIN version[t] : k \in DOMAIN version'[t] /\ version'[t][k].run = version[t][k].run
    BY DEF OthersKept, Kept
  <2>2. CASE i \in DOMAIN version[t] /\ j \in DOMAIN version[t]
    BY <1>0, <1>3, <2>1, <2>2 DEF VersionsInv
  <2>3. CASE ~(i \in DOMAIN version[t] /\ j \in DOMAIN version[t])
    <3>1. \A k \in DOMAIN version'[t] \ DOMAIN version[t] : t = s /\ k = q
      BY DEF OthersKept
    <3>2. CASE i \notin DOMAIN version[t] /\ j \notin DOMAIN version[t]
      BY <3>1, <3>2
    <3>3. CASE i \in DOMAIN version[t] /\ j \notin DOMAIN version[t]
      <4>1. t = s /\ j = q /\ version[t][i].run # version'[t][j].run
        BY <3>1, <3>3
      <4> QED
        BY <1>3, <2>1, <3>3, <4>1
    <3>4. CASE i \notin DOMAIN version[t] /\ j \in DOMAIN version[t]
      <4>1. t = s /\ i = q /\ version[t][j].run # version'[t][i].run
        BY <3>1, <3>4
      <4> QED
        BY <1>3, <2>1, <3>4, <4>1
    <3> QED
      BY <2>3, <3>2, <3>3, <3>4
  <2> QED
    BY <2>2, <2>3
<1>4. VersionsInv'
  BY <1>2, <1>3 DEF VersionsInv, OthersKept
<1>5. \A t \in Source : \A i \in DOMAIN version'[t] : run'[version'[t][i].run].source = t
  BY <1>2 DEF RowHolds
<1> QED
  BY <1>4, <1>5

\* A run that releases keeps its approved version.
LEMMA ReleasesStay ==
  ASSUME PipelineInv, [PipelineNext]_allvars,
         NEW s \in Source, NEW q, OthersKept(s, q),
         q \in DOMAIN version[s] /\ version[s][q].release = "APPLIED" => version'[s][q].release = "APPLIED",
         NEW r \in RunId, run[r].status # "UNUSED", run[r].source \in Source, options'[r].release # 0
  PROVE  LET t == run'[r].source IN
         options'[r].release \in DOMAIN version'[t] /\ version'[t][options'[r].release].release = "APPLIED"
<1>1. PipelineTypeOK /\ [Next]_vars /\ TypeOK
  BY StepImplements, Types DEF PipelineInv
<1>2. options'[r] = options[r] /\ run'[r].source = run[r].source
  BY <1>1, OptionsStay, RowsStay
<1> DEFINE t == run[r].source
           p == options[r].release
<1>3. p \in DOMAIN version[t] /\ version[t][p].release = "APPLIED"
  BY <1>2 DEF PipelineInv, ReleaseInv
<1>4. p \in DOMAIN version'[t]
  BY <1>3 DEF OthersKept
<1>5. version'[t][p].release = "APPLIED"
  <2>1. CASE t = s /\ p = q
    BY <1>3, <2>1, SMTT(40)
  <2>2. CASE ~(t = s /\ p = q)
    <3>1. Kept(version[t][p], version'[t][p])
      BY <1>4, <2>2 DEF OthersKept
    <3> QED
      BY <1>3, <3>1 DEF Kept
  <2> QED
    BY <2>1, <2>2
<1> QED
  BY <1>2, <1>4, <1>5

\* What another executor knows stays true when the version touched is not its own.
LEMMA OthersKnow ==
  ASSUME PipelineInv, [PipelineNext]_allvars, PoolInv,
         NEW s \in Source, NEW q, OthersKept(s, q),
         NEW d \in Executor, thread'[d] = thread[d], phase'[d] = phase[d],
         pc'[d] = pc[d], bytes'[d] = bytes[d], seq'[d] = seq[d],
         q \in DOMAIN version[s] => version[s][q].run # thread[d] \/ version[s][q].release # "NONE",
         q \in DOMAIN version[s] => version'[s][q].run = version[s][q].run,
         q \in DOMAIN version'[s] \ DOMAIN version[s] => version'[s][q].run # thread[d]
  PROVE  StepInv(d)'
<1> SUFFICES ASSUME phase[d] = "EXECUTING" PROVE StepInv(d)'
  BY DEF StepInv
<1>1. /\ PipelineTypeOK /\ [Next]_vars /\ TypeOK /\ thread[d] \in RunId /\ StepInv(d)
      /\ run[thread[d]].status # "UNUSED" /\ run[thread[d]].source \in Source
  <2>1. PipelineTypeOK /\ [Next]_vars /\ StepInv(d)
    BY StepImplements DEF PipelineInv
  <2>2. TypeOK /\ thread[d] \in RunId
    BY <2>1, Types
  <2>3. run[thread[d]].status # "UNUSED"
    BY <2>2, NullAssumption DEF PoolInv, Taken
  <2> QED
    BY <2>1, <2>2, <2>3 DEF PoolInv
<1>2. options'[thread[d]] = options[thread[d]] /\ run'[thread[d]].source = run[thread[d]].source
  BY <1>1, OptionsStay, RowsStay
<1>3. ASSUME pc[d] \in BeforeVersion, NEW t \in Source, NEW i \in DOMAIN version'[t]
      PROVE  version'[t][i].run # thread[d]
  <2>1. \A k \in DOMAIN version[t] : version[t][k].run # thread[d]
    BY <1>1, <1>3 DEF StepInv
  <2>2. CASE t = s /\ i = q
    BY <2>1, <2>2
  <2>3. CASE ~(t = s /\ i = q)
    BY <2>1, <2>3, SMTT(40) DEF OthersKept, Kept
  <2> QED
    BY <2>2, <2>3
<1>4. ASSUME pc[d] \in WithVersion
      PROVE  LET t == run[thread[d]].source IN
             /\ seq[d] \in DOMAIN version'[t] /\ version'[t][seq[d]].run = thread[d]
             /\ Quiet(version'[t][seq[d]])
  <2> DEFINE t == run[thread[d]].source
             i == seq[d]
  <2>1. i \in DOMAIN version[t] /\ version[t][i].run = thread[d] /\ Quiet(version[t][i])
    BY <1>1, <1>4 DEF StepInv, SourceOf
  <2>2. ~(t = s /\ i = q)
    BY <2>1 DEF Quiet
  <2>3. i \in DOMAIN version'[t] /\ Kept(version[t][i], version'[t][i])
    BY <1>1, <2>1, <2>2 DEF OthersKept
  <2> QED
    BY <2>1, <2>3 DEF Quiet, Kept, IsPublished
<1> QED
  BY <1>1, <1>2, <1>3, <1>4 DEF StepInv, SourceOf

-----------------------------------------------------------------------------
\* A thread that is not idle has a run of a source, and no other thread has that run.
LEMMA Mine ==
  ASSUME PipelineTypeOK, PoolInv, NEW e \in Executor, phase[e] # "IDLE"
  PROVE  /\ thread[e] \in RunId /\ Taken(thread[e]) /\ run[thread[e]].status # "UNUSED"
         /\ SourceOf(e) \in Source
         /\ \A d \in Executor \ {e} : thread[d] # thread[e]
<1>1. thread[e] \in RunId /\ thread[e] # NULL
  BY NullAssumption DEF PipelineTypeOK, TypeOK
<1> QED
  BY <1>1 DEF PoolInv, Taken, SourceOf

\* Only executor e moves, no run is requested, and the types stay.
OnlyMoves(e) ==
  /\ \A d \in Executor \ {e} : /\ thread'[d] = thread[d] /\ phase'[d] = phase[d]
                               /\ pc'[d] = pc[d] /\ bytes'[d] = bytes[d] /\ seq'[d] = seq[d]
  /\ phase'[e] = "EXECUTING" <=> pc'[e] \notin {"NONE", "PURGE"}
  /\ \A r \in RunId : run[r].status = "UNUSED" => run'[r].status = "UNUSED"
  /\ archived' \in [RunId -> Bytes \cup {NULL}]
  /\ staging' \in [RunId -> SUBSET Batch]
  /\ pc' \in [Executor -> Steps]
  /\ bytes' \in [Executor -> Bytes \cup {NULL}]
  /\ seq' \in [Executor -> 0..MaxVersions]
  /\ UNCHANGED options

\* Executor e touches the version at place q of s: its own, a new one of its own, or one whose
\* release was proposed.
Touches(e, s, q) ==
  /\ OthersKept(s, q)
  /\ q \in DOMAIN version[s] =>
       /\ version[s][q].run = thread[e] \/ version[s][q].release # "NONE"
       /\ version'[s][q].run = version[s][q].run
       /\ version[s][q].release = "APPLIED" => version'[s][q].release = "APPLIED"
  /\ q \in DOMAIN version'[s] => RowHolds(s, version'[s][q], run', options')
  /\ q \in DOMAIN version'[s] \ DOMAIN version[s] =>
       /\ version'[s][q].run = thread[e]
       /\ \A i \in DOMAIN version[s] : version[s][i].run # thread[e]

\* What is to be shown of a step of an executor.
LEMMA ExecutorStep ==
  ASSUME PipelineInv, PoolInv, TypeOK', [PipelineNext]_allvars,
         NEW e \in Executor, phase[e] # "IDLE", OnlyMoves(e), StepInv(e)',
         NEW s \in Source, NEW q, Touches(e, s, q)
  PROVE  PipelineInv'
<1>0. PipelineTypeOK /\ OthersKept(s, q)
  BY DEF PipelineInv, Touches
<1>1. VersionsInv' /\ \A t \in Source : \A i \in DOMAIN version'[t] : run'[version'[t][i].run].source = t
  BY VersionsHold DEF Touches
<1>2. ASSUME NEW d \in Executor PROVE StepInv(d)'
  <2>1. CASE d # e
    <3>1. thread[d] # thread[e]
      BY <1>0, <2>1, Mine
    <3>2. /\ q \in DOMAIN version[s] => version[s][q].run # thread[d] \/ version[s][q].release # "NONE"
          /\ q \in DOMAIN version'[s] \ DOMAIN version[s] => version'[s][q].run # thread[d]
      BY <3>1 DEF Touches
    <3> QED
      BY <2>1, <3>2, <1>0, OthersKnow DEF OnlyMoves, Touches
  <2> QED
    BY <2>1
<1>3. ReleaseInv'
  <2> SUFFICES ASSUME NEW r \in RunId, run'[r].status # "UNUSED", options'[r].release # 0
               PROVE  LET t == run'[r].source IN
                      /\ options'[r].release \in DOMAIN version'[t]
                      /\ version'[t][options'[r].release].release = "APPLIED"
    BY DEF ReleaseInv
  <2>1. run[r].status # "UNUSED" /\ run[r].source \in Source
    BY DEF OnlyMoves, PoolInv
  <2> QED
    BY <1>0, <2>1, ReleasesStay DEF Touches
<1>4. PipelineTypeOK'
  <2>1. \A d \in Executor : phase'[d] = "EXECUTING" <=> pc'[d] \notin {"NONE", "PURGE"}
    BY <1>0 DEF OnlyMoves, PipelineTypeOK
  <2> QED
    BY <1>0, <1>1, <2>1 DEF PipelineTypeOK, OnlyMoves, OthersKept
<1> QED
  BY <1>1, <1>2, <1>3, <1>4 DEF PipelineInv

\* A step that leaves the versions alone touches none.
LEMMA TouchesNone ==
  ASSUME PipelineInv, NEW e \in Executor, NEW s \in Source, UNCHANGED version
  PROVE  Touches(e, s, 0)
<1>1. version \in [Source -> Seq(VersionRow)] /\ VersionsInv /\ \A t \in Source : DOMAIN version[t] = 1..Len(version[t])
  BY Types DEF PipelineInv, PipelineTypeOK
<1> QED
  BY <1>1 DEF Touches, OthersKept, Kept, VersionsInv

\* An executor that closes its run and stops knows nothing any more.
LEMMA Closes ==
  ASSUME PipelineTypeOK, PoolInv, NEW e \in Executor, NEW outcome \in Terminal, Finish(e, outcome),
         archived' \in [RunId -> Bytes \cup {NULL}], staging' \in [RunId -> SUBSET Batch],
         UNCHANGED options
  PROVE  phase[e] # "IDLE" /\ OnlyMoves(e) /\ StepInv(e)'
<1>0. /\ thread' = thread /\ phase[e] = "EXECUTING" /\ phase' = [phase EXCEPT ![e] = "FINISHED"]
      /\ pc' = [pc EXCEPT ![e] = "NONE"] /\ bytes' = [bytes EXCEPT ![e] = NULL] /\ seq' = [seq EXCEPT ![e] = 0]
  BY DEF Finish, FinishRun, StopsExecuting
<1>1. /\ phase \in [Executor -> {"IDLE", "STARTING", "EXECUTING", "FINISHED"}]
      /\ pc \in [Executor -> Steps] /\ bytes \in [Executor -> Bytes \cup {NULL}]
      /\ seq \in [Executor -> 0..MaxVersions] /\ MaxVersions \in Nat
  BY VersionsAssumption DEF PipelineTypeOK, TypeOK
<1>2. thread[e] \in RunId /\ Taken(thread[e])
  BY <1>0, Mine
<1>3. \A r \in RunId : run[r].status = "UNUSED" => run'[r].status = "UNUSED"
  <2>1. \A r \in RunId \ {thread[e]} : run'[r] = run[r]
    BY DEF Finish, FinishRun, PipelineTypeOK, TypeOK
  <2> QED
    BY <1>2, <2>1 DEF Taken
<1>4. pc' \in [Executor -> Steps] /\ bytes' \in [Executor -> Bytes \cup {NULL}] /\ seq' \in [Executor -> 0..MaxVersions]
  BY <1>0, <1>1 DEF Steps
<1> QED
  BY <1>0, <1>1, <1>3, <1>4 DEF OnlyMoves, StepInv

\* An executor that goes on with its run.
LEMMA GoesOn ==
  ASSUME PipelineTypeOK, PoolInv, NEW e \in Executor, phase[e] = "EXECUTING", UNCHANGED <<vars, options>>,
         NEW step \in Steps \ {"NONE", "PURGE"}, pc' = [pc EXCEPT ![e] = step],
         NEW b \in Bytes \cup {NULL}, bytes' = [bytes EXCEPT ![e] = b],
         NEW n \in 0..MaxVersions, seq' = [seq EXCEPT ![e] = n],
         archived' \in [RunId -> Bytes \cup {NULL}], staging' \in [RunId -> SUBSET Batch]
  PROVE  phase[e] # "IDLE" /\ OnlyMoves(e)
  BY DEF OnlyMoves, PipelineTypeOK, vars

-----------------------------------------------------------------------------
(* The steps that leave the versions alone *)

\* What is to be shown of a step of an executor that touches no version.
LEMMA UntouchedStep ==
  ASSUME PipelineInv, PoolInv, TypeOK', [PipelineNext]_allvars,
         NEW e \in Executor, phase[e] # "IDLE", OnlyMoves(e), StepInv(e)', UNCHANGED version
  PROVE  PipelineInv'
<1>1. SourceOf(e) \in Source
  BY Mine DEF PipelineInv
<1> QED
  BY <1>1, TouchesNone, ExecutorStep

\* The beginning of an ingest run, with the bytes it resumes from or without, keeps the invariant.
LEMMA StartKeeps ==
  ASSUME PipelineInv, PoolInv, TypeOK', [PipelineNext]_allvars, NEW e \in Executor, Start(e)
  PROVE  PipelineInv'
<1>0. /\ PipelineTypeOK /\ StepInv(e) /\ phase[e] = "EXECUTING" /\ pc[e] = "START" /\ thread[e] \in RunId
      /\ options[thread[e]].release = 0
  BY Types DEF PipelineInv, Start, At, RunOf
<1>1. /\ archived \in [RunId -> Bytes \cup {NULL}] /\ pc \in [Executor -> Steps]
      /\ bytes \in [Executor -> Bytes \cup {NULL}] /\ seq \in [Executor -> 0..MaxVersions]
      /\ staging \in [RunId -> SUBSET Batch] /\ options[thread[e]].reparse \in Bytes \cup {NULL}
      /\ run[thread[e]].parent \in RunId \cup {NULL}
  BY <1>0, Types DEF PipelineTypeOK, RunOptions, RunRow
<1>2. \/ /\ pc' = [pc EXCEPT ![e] = "FETCH"] /\ UNCHANGED <<archived, bytes>>
      \/ \E known \in Bytes : /\ archived' = [archived EXCEPT ![thread[e]] = known]
                              /\ bytes' = [bytes EXCEPT ![e] = known]
                              /\ pc' = [pc EXCEPT ![e] = "VALIDATE_FILE"]
  <2> DEFINE parent == run[thread[e]].parent
             resumed == IF parent = NULL THEN NULL ELSE archived[parent]
             known == IF resumed # NULL THEN resumed ELSE options[thread[e]].reparse
  <2>1. known \in Bytes \cup {NULL}
    BY <1>1
  <2>2. IF known # NULL
          THEN /\ archived' = [archived EXCEPT ![thread[e]] = known]
               /\ bytes' = [bytes EXCEPT ![e] = known]
               /\ pc' = [pc EXCEPT ![e] = "VALIDATE_FILE"]
          ELSE pc' = [pc EXCEPT ![e] = "FETCH"] /\ UNCHANGED <<archived, bytes>>
    BY DEF Start, RunOf, Goto
  <2> HIDE DEF known
  <2> QED
    BY <2>1, <2>2
<1>3. UNCHANGED <<vars, seq, staging, version, options>> /\ seq' = [seq EXCEPT ![e] = seq[e]]
  BY <1>1 DEF Start
<1>4. OnlyMoves(e) /\ phase[e] # "IDLE"
  <2>1. CASE pc' = [pc EXCEPT ![e] = "FETCH"] /\ UNCHANGED <<archived, bytes>>
    <3>1. bytes' = [bytes EXCEPT ![e] = bytes[e]] /\ bytes[e] \in Bytes \cup {NULL} /\ seq[e] \in 0..MaxVersions
      BY <1>1, <2>1
    <3> QED
      BY <1>0, <1>1, <1>3, <2>1, <3>1, GoesOn DEF Steps
  <2>2. ASSUME NEW known \in Bytes, archived' = [archived EXCEPT ![thread[e]] = known],
               bytes' = [bytes EXCEPT ![e] = known], pc' = [pc EXCEPT ![e] = "VALIDATE_FILE"]
        PROVE  OnlyMoves(e) /\ phase[e] # "IDLE"
    <3>1. seq[e] \in 0..MaxVersions /\ archived' \in [RunId -> Bytes \cup {NULL}]
      BY <1>1, <2>2
    <3> QED
      BY <1>0, <1>1, <1>3, <2>2, <3>1, GoesOn DEF Steps
  <2> QED
    BY <1>2, <2>1, <2>2
<1>5. StepInv(e)'
  <2>1. pc'[e] \in {"FETCH", "VALIDATE_FILE"} /\ (pc'[e] = "VALIDATE_FILE" => bytes'[e] \in Bytes)
    BY <1>1, <1>2
  <2>2. UNCHANGED <<run, thread, phase, seq, version, options>>
    BY <1>3 DEF vars
  <2> QED
    BY <1>0, <2>1, <2>2 DEF StepInv, BeforeVersion, WithVersion
<1> QED
  BY <1>3, <1>4, <1>5, UntouchedStep

\* A download keeps the invariant.
LEMMA FetchKeeps ==
  ASSUME PipelineInv, PoolInv, TypeOK', [PipelineNext]_allvars, NEW e \in Executor, NEW b \in Bytes, Fetch(e, b)
  PROVE  PipelineInv'
<1>0. /\ PipelineTypeOK /\ StepInv(e) /\ phase[e] = "EXECUTING" /\ pc[e] = "FETCH"
      /\ bytes' = [bytes EXCEPT ![e] = b] /\ pc' = [pc EXCEPT ![e] = "ARCHIVE"]
      /\ UNCHANGED <<vars, seq, archived, staging, version, options>>
  BY DEF PipelineInv, Fetch, At, Goto, data
<1>1. /\ archived' \in [RunId -> Bytes \cup {NULL}] /\ staging' \in [RunId -> SUBSET Batch]
      /\ pc \in [Executor -> Steps] /\ bytes \in [Executor -> Bytes \cup {NULL}]
      /\ seq' = [seq EXCEPT ![e] = seq[e]] /\ seq[e] \in 0..MaxVersions
  BY <1>0 DEF PipelineTypeOK
<1>2. OnlyMoves(e) /\ phase[e] # "IDLE"
  BY <1>0, <1>1, GoesOn DEF Steps
<1>3. StepInv(e)'
  <2>1. pc'[e] = "ARCHIVE" /\ bytes'[e] \in Bytes /\ UNCHANGED <<run, thread, phase, seq, version, options>>
    BY <1>0, <1>1 DEF vars
  <2> QED
    BY <1>0, <2>1 DEF StepInv, BeforeVersion, WithVersion
<1> QED
  BY <1>0, <1>2, <1>3, UntouchedStep

\* An answer 304 keeps the invariant.
LEMMA NotModifiedKeeps ==
  ASSUME PipelineInv, PoolInv, TypeOK', [PipelineNext]_allvars, NEW e \in Executor, NotModified(e)
  PROVE  PipelineInv'
<1>1. /\ PipelineTypeOK /\ Finish(e, "NO_CHANGE") /\ UNCHANGED <<archived, staging, version, options>>
      /\ archived \in [RunId -> Bytes \cup {NULL}] /\ staging \in [RunId -> SUBSET Batch]
  BY DEF PipelineInv, PipelineTypeOK, NotModified, data
<1> QED
  BY <1>1, Closes, UntouchedStep DEF Terminal

\* The archiving of the bytes, and the comparison with the known versions, keeps the invariant.
LEMMA ArchiveKeeps ==
  ASSUME PipelineInv, PoolInv, TypeOK', [PipelineNext]_allvars, NEW e \in Executor, Archive(e)
  PROVE  PipelineInv'
<1>0. /\ PipelineTypeOK /\ StepInv(e) /\ phase[e] = "EXECUTING" /\ pc[e] = "ARCHIVE" /\ thread[e] \in RunId
      /\ archived' = [archived EXCEPT ![thread[e]] = bytes[e]] /\ bytes[e] \in Bytes
      /\ UNCHANGED <<staging, version, options>>
  BY Types DEF PipelineInv, StepInv, Archive, At, RunOf
<1>1. /\ archived' \in [RunId -> Bytes \cup {NULL}] /\ staging' \in [RunId -> SUBSET Batch]
      /\ pc \in [Executor -> Steps] /\ bytes \in [Executor -> Bytes \cup {NULL}]
      /\ seq \in [Executor -> 0..MaxVersions]
  BY <1>0 DEF PipelineTypeOK
<1>2. \/ \E outcome \in {"NO_CHANGE", "HELD", "QUARANTINED"} : Finish(e, outcome)
      \/ pc' = [pc EXCEPT ![e] = "VALIDATE_FILE"] /\ UNCHANGED <<vars, bytes, seq>>
  <2>1. \A q \in SameBytesPending(e) : version[SourceOf(e)][q].status \in {"HELD", "QUARANTINED"}
    BY DEF SameBytesPending
  <2> QED
    BY <2>1 DEF Archive, Goto
<1>3. CASE \E outcome \in {"NO_CHANGE", "HELD", "QUARANTINED"} : Finish(e, outcome)
  BY <1>0, <1>1, <1>3, Closes, UntouchedStep DEF Terminal
<1>4. CASE pc' = [pc EXCEPT ![e] = "VALIDATE_FILE"] /\ UNCHANGED <<vars, bytes, seq>>
  <2>1. /\ bytes' = [bytes EXCEPT ![e] = bytes[e]] /\ seq' = [seq EXCEPT ![e] = seq[e]]
        /\ seq[e] \in 0..MaxVersions
    BY <1>1, <1>4
  <2>2. OnlyMoves(e) /\ phase[e] # "IDLE"
    BY <1>0, <1>1, <1>4, <2>1, GoesOn DEF Steps
  <2>3. StepInv(e)'
    <3>1. pc'[e] = "VALIDATE_FILE" /\ UNCHANGED <<run, thread, phase, seq, bytes, version, options>>
      BY <1>0, <1>1, <1>4 DEF vars
    <3> QED
      BY <1>0, <3>1 DEF StepInv, BeforeVersion, WithVersion
  <2> QED
    BY <1>0, <2>2, <2>3, UntouchedStep
<1> QED
  BY <1>2, <1>3, <1>4

\* The staging of the file keeps the invariant.
LEMMA PurgeStagingKeeps ==
  ASSUME PipelineInv, PoolInv, TypeOK', [PipelineNext]_allvars, NEW e \in Executor, PurgeStaging(e) \/ Copy(e)
  PROVE  PipelineInv'
<1>0. /\ PipelineTypeOK /\ StepInv(e) /\ phase[e] = "EXECUTING" /\ thread[e] \in RunId
      /\ pc[e] \in {"PARSE", "COPY1", "COPY2"}
      /\ UNCHANGED <<vars, bytes, seq, archived, version, options>>
      /\ \E batches \in SUBSET Batch : staging' = [staging EXCEPT ![thread[e]] = batches]
      /\ \E step \in {"COPY1", "COPY2", "VALIDATE_DATA"} : pc' = [pc EXCEPT ![e] = step]
  <2>1. phase[e] = "EXECUTING"
    BY DEF PurgeStaging, Copy, At
  <2>2. thread[e] \in RunId /\ staging[thread[e]] \in SUBSET Batch /\ PipelineTypeOK /\ StepInv(e)
    BY <2>1, Types DEF PipelineInv
  <2>3. CASE PurgeStaging(e)
    BY <2>1, <2>2, <2>3 DEF PurgeStaging, At, RunOf, Goto
  <2>4. CASE Copy(e)
    <3>1. staging[thread[e]] \cup {1} \in SUBSET Batch /\ staging[thread[e]] \cup {2} \in SUBSET Batch
      BY <2>2 DEF Batch
    <3>2. \/ staging' = [staging EXCEPT ![thread[e]] = staging[thread[e]] \cup {1}]
          \/ staging' = [staging EXCEPT ![thread[e]] = staging[thread[e]] \cup {2}]
      BY <2>4 DEF Copy, RunOf
    <3> QED
      BY <2>1, <2>2, <2>4, <3>1, <3>2 DEF Copy, At, Goto
  <2> QED
    BY <2>3, <2>4
<1>1. /\ archived' \in [RunId -> Bytes \cup {NULL}] /\ staging' \in [RunId -> SUBSET Batch]
      /\ pc \in [Executor -> Steps]
      /\ bytes' = [bytes EXCEPT ![e] = bytes[e]] /\ bytes[e] \in Bytes \cup {NULL}
      /\ seq' = [seq EXCEPT ![e] = seq[e]] /\ seq[e] \in 0..MaxVersions
  BY <1>0 DEF PipelineTypeOK
<1>2. OnlyMoves(e) /\ phase[e] # "IDLE"
  BY <1>0, <1>1, GoesOn DEF Steps
<1>3. StepInv(e)'
  <2>1. /\ pc'[e] \in {"COPY1", "COPY2", "VALIDATE_DATA"}
        /\ UNCHANGED <<run, thread, phase, seq, version, options>>
    BY <1>0, <1>1 DEF vars
  <2> QED
    BY <1>0, <2>1 DEF StepInv, BeforeVersion, WithVersion, SourceOf
<1> QED
  BY <1>0, <1>2, <1>3, UntouchedStep

\* The first transaction of a release keeps the invariant.
LEMMA CheckReleaseKeeps ==
  ASSUME PipelineInv, PoolInv, TypeOK', [PipelineNext]_allvars, NEW e \in Executor, CheckRelease(e)
  PROVE  PipelineInv'
<1>0. /\ PipelineTypeOK /\ StepInv(e) /\ phase[e] = "EXECUTING" /\ pc[e] = "START"
      /\ options[thread[e]].release # 0 /\ UNCHANGED <<archived, staging, version, options>>
      /\ Finish(e, "FAILED") \/ (pc' = [pc EXCEPT ![e] = "RELEASE"] /\ UNCHANGED <<vars, bytes, seq>>)
  BY DEF PipelineInv, CheckRelease, At, RunOf, data, Goto
<1>1. /\ archived' \in [RunId -> Bytes \cup {NULL}] /\ staging' \in [RunId -> SUBSET Batch]
      /\ pc \in [Executor -> Steps] /\ bytes \in [Executor -> Bytes \cup {NULL}]
      /\ seq \in [Executor -> 0..MaxVersions]
  BY <1>0 DEF PipelineTypeOK
<1>2. CASE Finish(e, "FAILED")
  BY <1>0, <1>1, <1>2, Closes, UntouchedStep DEF Terminal
<1>3. CASE pc' = [pc EXCEPT ![e] = "RELEASE"] /\ UNCHANGED <<vars, bytes, seq>>
  <2>1. /\ bytes' = [bytes EXCEPT ![e] = bytes[e]] /\ seq' = [seq EXCEPT ![e] = seq[e]]
        /\ seq[e] \in 0..MaxVersions /\ bytes[e] \in Bytes \cup {NULL}
    BY <1>1, <1>3
  <2>2. OnlyMoves(e) /\ phase[e] # "IDLE"
    BY <1>0, <1>1, <1>3, <2>1, GoesOn DEF Steps
  <2>3. StepInv(e)'
    <3>1. pc'[e] = "RELEASE" /\ UNCHANGED <<run, thread, phase, seq, version, options>>
      BY <1>0, <1>1, <1>3 DEF vars
    <3> QED
      BY <1>0, <3>1 DEF StepInv, BeforeVersion, WithVersion
  <2> QED
    BY <1>0, <2>2, <2>3, UntouchedStep
<1> QED
  BY <1>0, <1>2, <1>3

\* An executor that leaves the pipeline: its phase is not EXECUTING afterwards, its step NONE.
LEMMA Stops ==
  ASSUME PipelineInv, PoolInv, TypeOK', [PipelineNext]_allvars, NEW e \in Executor, phase[e] # "IDLE",
         StopsExecuting(e), \A d \in Executor \ {e} : thread'[d] = thread[d] /\ phase'[d] = phase[d],
         phase'[e] # "EXECUTING",
         \A r \in RunId : run[r].status = "UNUSED" => run'[r].status = "UNUSED",
         UNCHANGED <<archived, version, options>>, staging' \in [RunId -> SUBSET Batch]
  PROVE  PipelineInv'
<1>1. /\ pc' \in [Executor -> Steps] /\ bytes' \in [Executor -> Bytes \cup {NULL}]
      /\ seq' \in [Executor -> 0..MaxVersions] /\ archived' \in [RunId -> Bytes \cup {NULL}]
      /\ pc'[e] = "NONE"
      /\ \A d \in Executor \ {e} : pc'[d] = pc[d] /\ bytes'[d] = bytes[d] /\ seq'[d] = seq[d]
  BY VersionsAssumption DEF PipelineInv, PipelineTypeOK, StopsExecuting, Steps
<1>2. OnlyMoves(e) /\ StepInv(e)'
  BY <1>1 DEF OnlyMoves, StepInv
<1> QED
  BY <1>2, UntouchedStep

\* The purge after a publish, its failure, the return of an executor and the death of its process
\* keep the invariant.
LEMMA StopKeeps ==
  ASSUME PipelineInv, PoolInv, TypeOK', [PipelineNext]_allvars, NEW e \in Executor,
         Purge(e) \/ PurgeFails(e) \/ Returns(e) \/ (Crash(e) /\ StopsExecuting(e) /\ UNCHANGED data)
  PROVE  PipelineInv'
<1>0. /\ PipelineTypeOK /\ TypeOK /\ staging \in [RunId -> SUBSET Batch]
      /\ run \in [RunId -> RunRow] /\ thread \in [Executor -> RunId \cup {NULL}]
      /\ phase \in [Executor -> {"IDLE", "STARTING", "EXECUTING", "FINISHED"}]
  BY DEF PipelineInv, PipelineTypeOK, TypeOK
<1>1. CASE Purge(e)
  <2>1. /\ phase[e] = "FINISHED" /\ StopsExecuting(e) /\ UNCHANGED <<vars, archived, version, options>>
        /\ staging' \in [RunId -> SUBSET Batch]
    BY <1>0, <1>1 DEF Purge
  <2> QED
    BY <2>1, Stops DEF vars
<1>2. CASE PurgeFails(e)
  <2>1. /\ phase[e] = "FINISHED" /\ StopsExecuting(e) /\ UNCHANGED <<thread, phase, archived, staging, version, options>>
        /\ run' = [run EXCEPT ![thread[e]].status = "FAILED", ![thread[e]].owner = NULL, ![thread[e]].lease = "NONE"]
    BY <1>2 DEF PurgeFails, FailAfterFinish, data
  <2>2. thread[e] \in RunId /\ Taken(thread[e])
    BY <1>0, <2>1, Mine
  <2>3. \A r \in RunId : run[r].status = "UNUSED" => run'[r] = run[r]
    BY <1>0, <2>1, <2>2 DEF Taken
  <2> QED
    BY <1>0, <2>1, <2>3, Stops
<1>3. CASE Returns(e) \/ (Crash(e) /\ StopsExecuting(e) /\ UNCHANGED data)
  <2>1. /\ phase[e] # "IDLE" /\ StopsExecuting(e) /\ UNCHANGED <<run, archived, staging, version, options>>
        /\ thread' = [thread EXCEPT ![e] = NULL] /\ phase' = [phase EXCEPT ![e] = "IDLE"]
    BY <1>3 DEF Returns, Return, Crash, Leave, data
  <2> QED
    BY <1>0, <2>1, Stops
<1> QED
  BY <1>1, <1>2, <1>3

\* A step that is no executor's leaves what the executors know alone, and the runs it requests
\* release an approved version or none.
LEMMA OutsideStep ==
  ASSUME PipelineInv, PoolInv, TypeOK', [PipelineNext]_allvars, UNCHANGED <<thread, phase, ctx>>,
         options' \in [RunId -> RunOptions], archived' \in [RunId -> Bytes \cup {NULL}],
         staging' \in [RunId -> SUBSET Batch],
         NEW s \in Source, OthersKept(s, 0), 0 \notin DOMAIN version'[s],
         \A r \in RunId : run[r].status = "UNUSED" /\ run'[r].status # "UNUSED" /\ options'[r].release # 0 =>
           LET t == run'[r].source IN
           options'[r].release \in DOMAIN version'[t] /\ version'[t][options'[r].release].release = "APPLIED"
  PROVE  PipelineInv'
<1>0. /\ PipelineTypeOK /\ VersionsInv /\ [Next]_vars /\ TypeOK
      /\ 0 \notin DOMAIN version[s]
  BY StepImplements DEF PipelineInv, PipelineTypeOK, OthersKept
<1>2. VersionsInv' /\ \A t \in Source : \A i \in DOMAIN version'[t] : run'[version'[t][i].run].source = t
  BY <1>0, VersionsHold
<1>3. ASSUME NEW d \in Executor PROVE StepInv(d)'
  BY <1>0, OthersKnow DEF ctx
<1>4. ReleaseInv'
  <2> SUFFICES ASSUME NEW r \in RunId, run'[r].status # "UNUSED", options'[r].release # 0
               PROVE  LET t == run'[r].source IN
                      /\ options'[r].release \in DOMAIN version'[t]
                      /\ version'[t][options'[r].release].release = "APPLIED"
    BY DEF ReleaseInv
  <2>1. CASE run[r].status # "UNUSED"
    <3>1. run[r].source \in Source
      BY <2>1 DEF PoolInv
    <3> QED
      BY <1>0, <2>1, <3>1, ReleasesStay
  <2>2. CASE run[r].status = "UNUSED"
    BY <2>2
  <2> QED
    BY <2>1, <2>2
<1>5. PipelineTypeOK'
  BY <1>0, <1>2 DEF PipelineTypeOK, OthersKept, ctx
<1> QED
  BY <1>2, <1>3, <1>4, <1>5 DEF PipelineInv

\* The actions of the queue keep the invariant.
LEMMA QueueKeeps ==
  ASSUME PipelineInv, PoolInv, TypeOK', [PipelineNext]_allvars, QueueStep
  PROVE  PipelineInv'
<1>0. /\ PipelineTypeOK /\ VersionsInv /\ run \in [RunId -> RunRow] /\ options \in [RunId -> RunOptions]
      /\ archived \in [RunId -> Bytes \cup {NULL}] /\ staging \in [RunId -> SUBSET Batch]
      /\ thread \in [Executor -> RunId \cup {NULL}]
      /\ phase \in [Executor -> {"IDLE", "STARTING", "EXECUTING", "FINISHED"}]
  BY DEF PipelineInv, PipelineTypeOK, TypeOK
<1>1. UNCHANGED version => \A s \in Source : OthersKept(s, 0) /\ 0 \notin DOMAIN version'[s]
  BY <1>0, Types DEF OthersKept, Kept, VersionsInv, PipelineTypeOK
<1>2. ASSUME NEW s \in Source, NEW r \in RunId, NEW due \in BOOLEAN, NEW o \in Options, RequestRun(s, r, due, o)
      PROVE  PipelineInv'
  <2>1. o \in RunOptions /\ o.release = 0
    BY OptionsAssumption
  <2>2. /\ UNCHANGED <<thread, phase, archived, staging, version, ctx>> /\ options' = [options EXCEPT ![r] = o]
        /\ \A q \in RunId \ {r} : run'[q] = run[q]
    BY <1>0, <1>2 DEF RequestRun, Enqueue
  <2>3. \A q \in RunId : run[q].status = "UNUSED" /\ run'[q].status # "UNUSED" => options'[q].release = 0
    BY <1>0, <2>1, <2>2
  <2>4. options' \in [RunId -> RunOptions]
    BY <1>0, <2>1, <2>2
  <2> QED
    BY <1>0, <1>1, <2>2, <2>3, <2>4, OutsideStep
<1>3. ASSUME UNCHANGED <<thread, phase, ctx, data>>, NEW s \in Source,
             \A q \in RunId : run[q].status = "UNUSED" => run'[q].status = "UNUSED"
      PROVE  PipelineInv'
  <2>1. UNCHANGED <<archived, staging, version, options>>
    BY <1>3 DEF data
  <2> QED
    BY <1>0, <1>1, <1>3, <2>1, OutsideStep
<1>4. ASSUME NEW r \in RunId, BecomeDue(r) \/ RequestCancel(r) \/ LeaseExpires(r), UNCHANGED <<ctx, data>>
      PROVE  PipelineInv'
  <2>1. run[r].status # "UNUSED" /\ UNCHANGED <<thread, phase>> /\ \A q \in RunId \ {r} : run'[q] = run[q]
    BY <1>0, <1>4 DEF BecomeDue, RequestCancel, LeaseExpires, Active
  <2>2. run[r].source \in Source
    BY <2>1 DEF PoolInv
  <2> QED
    BY <1>3, <1>4, <2>1, <2>2
<1>5. ASSUME NEW s \in Source, SetSourceStatus(s), UNCHANGED <<ctx, data>> PROVE PipelineInv'
  BY <1>3, <1>5 DEF SetSourceStatus
<1>6. ASSUME NEW e \in Executor, Heartbeat(e), UNCHANGED <<ctx, data>> PROVE PipelineInv'
  <2>1. /\ phase[e] = "EXECUTING" /\ UNCHANGED <<thread, phase>>
        /\ run' = [run EXCEPT ![thread[e]].lease = "VALID"]
    BY <1>6 DEF Heartbeat
  <2>2. SourceOf(e) \in Source /\ thread[e] \in RunId /\ run[thread[e]].status # "UNUSED"
    BY <1>0, <2>1, Mine
  <2> QED
    BY <1>0, <1>3, <1>6, <2>1, <2>2
<1>7. ASSUME NEW e \in Executor, NEW r \in RunId, Claim(e, r), StartsExecuting(e) PROVE PipelineInv'
  <2>1. /\ run[r].status = "QUEUED" /\ thread' = [thread EXCEPT ![e] = r]
        /\ phase' = [phase EXCEPT ![e] = "EXECUTING"] /\ phase[e] = "IDLE"
        /\ \A q \in RunId \ {r} : run'[q] = run[q]
        /\ pc' = [pc EXCEPT ![e] = "START"] /\ bytes' = [bytes EXCEPT ![e] = NULL]
        /\ seq' = [seq EXCEPT ![e] = 0] /\ UNCHANGED <<archived, staging, version, options>>
    BY <1>0, <1>7 DEF Claim, StartsExecuting, data
  <2>2. /\ pc' \in [Executor -> Steps] /\ bytes' \in [Executor -> Bytes \cup {NULL}]
        /\ seq' \in [Executor -> 0..MaxVersions] /\ pc'[e] = "START" /\ seq'[e] = 0
        /\ thread'[e] = r /\ phase'[e] = "EXECUTING"
        /\ \A d \in Executor \ {e} : /\ thread'[d] = thread[d] /\ phase'[d] = phase[d]
                                     /\ pc'[d] = pc[d] /\ bytes'[d] = bytes[d] /\ seq'[d] = seq[d]
    BY <1>0, <2>1, VersionsAssumption DEF PipelineTypeOK, Steps
  <2>3. \A s \in Source : \A q \in DOMAIN version[s] : version[s][q].run # r
    BY <1>0, <2>1 DEF VersionsInv, RowHolds, Taken
  <2>4. StepInv(e)'
    BY <2>1, <2>2, <2>3 DEF StepInv, BeforeVersion, WithVersion
  <2>5. ASSUME NEW d \in Executor PROVE StepInv(d)'
    <3>1. run[r].source \in Source
      BY <2>1 DEF PoolInv
    <3>2. CASE d # e
      BY <1>1, <2>1, <2>2, <3>1, <3>2, Types, <1>0, OthersKnow
    <3> QED
      BY <2>4, <3>2
  <2>6. run[r].source \in Source /\ \A q \in RunId : run[q].status = "UNUSED" => run'[q].status = "UNUSED"
    BY <2>1 DEF PoolInv
  <2>7. VersionsInv' /\ \A t \in Source : \A i \in DOMAIN version'[t] : run'[version'[t][i].run].source = t
    <3>1. 0 \notin DOMAIN version[run[r].source] /\ 0 \notin DOMAIN version'[run[r].source]
      BY <1>1, <2>1, <2>6
    <3> QED
      BY <1>1, <2>1, <2>6, <3>1, VersionsHold
  <2>8. ReleaseInv'
    <3> SUFFICES ASSUME NEW q \in RunId, run'[q].status # "UNUSED", options'[q].release # 0
                 PROVE  LET t == run'[q].source IN
                        /\ options'[q].release \in DOMAIN version'[t]
                        /\ version'[t][options'[q].release].release = "APPLIED"
      BY DEF ReleaseInv
    <3>1. run[q].status # "UNUSED"
      BY <2>6
    <3>2. run[q].source \in Source
      BY <3>1 DEF PoolInv
    <3>3. 0 \notin DOMAIN version[run[r].source]
      BY <1>1, <2>1, <2>6
    <3> QED
      BY <1>1, <2>1, <2>6, <3>1, <3>2, <3>3, ReleasesStay
  <2>9. \A d \in Executor : phase'[d] = "EXECUTING" <=> pc'[d] \notin {"NONE", "PURGE"}
    <3>1. \A d \in Executor : phase[d] = "EXECUTING" <=> pc[d] \notin {"NONE", "PURGE"}
      BY <1>0 DEF PipelineTypeOK
    <3> QED
      BY <2>2, <3>1
  <2>10. PipelineTypeOK'
    BY <1>0, <2>1, <2>2, <2>7, <2>9 DEF PipelineTypeOK
  <2> QED
    BY <2>5, <2>7, <2>8, <2>10 DEF PipelineInv
<1> QED
  BY <1>2, <1>4, <1>5, <1>6, <1>7, StopKeeps DEF QueueStep

\* The rejection of what an abandoned run left open keeps the versions, and leaves none of them open.
LEMMA RejectOpenKeeps ==
  ASSUME PipelineInv, NEW r \in RunId, run'[r].status = "ABANDONED",
         version' = [t \in Source |-> RejectOpen(version[t], r)], NEW s \in Source
  PROVE  /\ OthersKept(s, 0) /\ 0 \notin DOMAIN version'[s]
         /\ \A t \in Source : \A i \in DOMAIN version'[t] :
              version[t][i].run = r => version'[t][i].status \notin {"CANDIDATE", "VALIDATED"}
<1>0. PipelineTypeOK /\ VersionsInv
  BY DEF PipelineInv
<1>1. ASSUME NEW t \in Source
      PROVE  /\ version'[t] \in Seq(VersionRow) /\ Len(version'[t]) = Len(version[t])
             /\ DOMAIN version'[t] = DOMAIN version[t] /\ Len(version[t]) <= MaxVersions
             /\ 0 \notin DOMAIN version[t]
             /\ \A i \in DOMAIN version[t] :
                  /\ Kept(version[t][i], version'[t][i])
                  /\ version[t][i].run = r => version'[t][i].status \notin {"CANDIDATE", "VALIDATED"}
  <2> DEFINE row(i) == IF version[t][i].run = r /\ version[t][i].status \in {"CANDIDATE", "VALIDATED"}
                         THEN [version[t][i] EXCEPT !.status = "REJECTED"] ELSE version[t][i]
  <2>1. DOMAIN version[t] = 1..Len(version[t]) /\ Len(version[t]) \in Nat
        /\ \A i \in DOMAIN version[t] : version[t][i] \in VersionRow
    BY <1>0, Types
  <2>2. version'[t] = [i \in 1..Len(version[t]) |-> row(i)]
    BY <2>1 DEF RejectOpen
  <2>3. ASSUME NEW i \in 1..Len(version[t])
        PROVE  /\ row(i) \in VersionRow /\ Kept(version[t][i], row(i))
               /\ version[t][i].run = r => row(i).status \notin {"CANDIDATE", "VALIDATED"}
    <3> DEFINE w == [version[t][i] EXCEPT !.status = "REJECTED"]
    <3>1. version[t][i] \in VersionRow
      BY <2>1
    <3>2. /\ w \in VersionRow /\ w.run = version[t][i].run /\ w.release = version[t][i].release
          /\ w.status = "REJECTED" /\ w.content = version[t][i].content /\ w.count = version[t][i].count
      BY <3>1 DEF VersionRow
    <3>3. \/ row(i) = w /\ version[t][i].run = r /\ version[t][i].status \in {"CANDIDATE", "VALIDATED"}
          \/ row(i) = version[t][i] /\ ~(version[t][i].run = r /\ version[t][i].status \in {"CANDIDATE", "VALIDATED"})
      OBVIOUS
    <3> HIDE DEF w, row
    <3> QED
      BY <3>1, <3>2, <3>3 DEF Kept
  <2> HIDE DEF row
  <2>4. /\ version'[t] \in Seq(VersionRow) /\ DOMAIN version'[t] = 1..Len(version[t])
        /\ Len(version'[t]) = Len(version[t])
    <3>1. version'[t] \in [1..Len(version[t]) -> VersionRow]
      BY <2>2, <2>3
    <3>2. version'[t] \in Seq(VersionRow) /\ DOMAIN version'[t] = 1..Len(version[t])
      BY <2>1, <3>1, IsASeq
    <3> QED
      BY <2>1, <3>2, LenProperties
  <2> QED
    BY <1>0, <2>1, <2>2, <2>3, <2>4 DEF VersionsInv
<1>2. version' \in [Source -> Seq(VersionRow)]
  BY <1>1
<1> QED
  BY <1>1, <1>2 DEF OthersKept

\* The reclaimer keeps the invariant: the run that resumes another has its options.
LEMMA ReclaimKeeps ==
  ASSUME PipelineInv, PoolInv, TypeOK', [PipelineNext]_allvars,
         NEW r \in RunId, NEW child \in RunId \cup {NULL}, ReclaimRun(r, child)
  PROVE  PipelineInv'
<1>0. /\ PipelineTypeOK /\ TypeOK /\ [Next]_vars /\ run \in [RunId -> RunRow] /\ options \in [RunId -> RunOptions]
      /\ archived \in [RunId -> Bytes \cup {NULL}] /\ staging \in [RunId -> SUBSET Batch]
  BY StepImplements DEF PipelineInv, PipelineTypeOK, TypeOK
<1>1. /\ run[r].status = "RUNNING" /\ UNCHANGED <<thread, phase, archived, ctx>>
      /\ staging' = [staging EXCEPT ![r] = {}]
      /\ options' = IF child = NULL THEN options ELSE [options EXCEPT ![child] = options[r]]
      /\ version' = [t \in Source |-> RejectOpen(version[t], r)]
  BY DEF ReclaimRun, Reclaim
<1>2. run[r].source \in Source
  BY <1>1 DEF PoolInv
<1>3. OthersKept(run[r].source, 0) /\ 0 \notin DOMAIN version'[run[r].source]
  <2>1. run'[r].status = "ABANDONED"
    <3>1. child # r
      BY <1>1, NullAssumption DEF ReclaimRun, Reclaim
    <3>2. run[r] \in RunRow
      BY <1>0
    <3> QED
      BY <1>0, <3>1, <3>2 DEF ReclaimRun, Reclaim, RunRow
  <2> QED
    BY <1>1, <1>2, <2>1, RejectOpenKeeps
<1>4. options' \in [RunId -> RunOptions] /\ staging' \in [RunId -> SUBSET Batch]
  BY <1>0, <1>1
<1>5. ASSUME NEW q \in RunId, run[q].status = "UNUSED", run'[q].status # "UNUSED", options'[q].release # 0
      PROVE  LET t == run'[q].source IN
             options'[q].release \in DOMAIN version'[t] /\ version'[t][options'[q].release].release = "APPLIED"
  <2>1. q = child /\ q # r /\ run'[q] = QueuedRow(run[r].source, TRUE, r, run[r].attempt + 1)
    BY <1>0, <1>1, <1>5 DEF ReclaimRun, Reclaim
  <2>2. options'[q] = options[r] /\ options'[r] = options[r]
    BY <1>0, <1>1, <2>1, NullAssumption
  <2>3. run'[q].source = run[r].source /\ run'[r].source = run[r].source
    BY <1>0, <1>1, <2>1, RowsStay DEF QueuedRow, UnusedRow
  <2>4. LET t == run'[r].source IN
        options'[r].release \in DOMAIN version'[t] /\ version'[t][options'[r].release].release = "APPLIED"
    <3>1. 0 \notin DOMAIN version[run[r].source]
      BY <1>2, <1>3 DEF OthersKept
    <3> QED
      BY <1>1, <1>2, <1>3, <1>5, <2>2, <3>1, ReleasesStay
  <2> QED
    BY <2>2, <2>3, <2>4
<1> QED
  BY <1>0, <1>1, <1>2, <1>3, <1>4, <1>5, OutsideStep

-----------------------------------------------------------------------------
(* The steps that touch a version *)

\* An assignment to one version keeps the others.
LEMMA SetRowKeepsOthers ==
  ASSUME PipelineInv, NEW s \in Source, NEW q \in DOMAIN version[s], NEW row \in VersionRow,
         version' = [version EXCEPT ![s][q] = row]
  PROVE  /\ OthersKept(s, q) /\ version'[s][q] = row
         /\ DOMAIN version'[s] = DOMAIN version[s]
<1>0. PipelineTypeOK /\ VersionsInv
  BY DEF PipelineInv
<1>1. /\ version' \in [Source -> Seq(VersionRow)] /\ version'[s][q] = row
      /\ \A t \in Source : /\ DOMAIN version'[t] = DOMAIN version[t] /\ Len(version'[t]) = Len(version[t])
                           /\ \A i \in DOMAIN version[t] : (t = s /\ i = q) \/ version'[t][i] = version[t][i]
  BY <1>0, SetRow
<1> QED
  BY <1>0, <1>1 DEF OthersKept, Kept, VersionsInv

\* The decision of a reviewer keeps every version.
LEMMA Decided ==
  ASSUME PipelineInv, NEW s \in Source, NEW q \in Pending(s), NEW rel \in {"APPLIED", "REJECTED"},
         version' = [version EXCEPT ![s][q].release = rel]
  PROVE  /\ OthersKept(s, 0) /\ DOMAIN version'[s] = DOMAIN version[s]
         /\ version'[s][q].release = rel /\ 0 \notin DOMAIN version'[s]
<1>0. /\ q \in DOMAIN version[s] /\ version[s][q].release = "PENDING" /\ version[s][q] \in VersionRow
      /\ DOMAIN version[s] = 1..Len(version[s]) /\ Len(version[s]) \in Nat
  BY Types DEF PipelineInv, Pending
<1> DEFINE w == [version[s][q] EXCEPT !.release = rel]
<1>1. /\ w \in VersionRow /\ w.run = version[s][q].run /\ w.release = rel
      /\ w.status = version[s][q].status /\ w.content = version[s][q].content
      /\ w.count = version[s][q].count
  <2>1. version[s][q] \in VersionRow /\ rel \in {"NONE", "PENDING", "APPLIED", "REJECTED", "EXPIRED"}
    BY <1>0
  <2> QED
    BY <2>1 DEF VersionRow
<1>2. version' = [version EXCEPT ![s][q] = w]
  OBVIOUS
<1> HIDE DEF w
<1>3. OthersKept(s, q) /\ version'[s][q] = w /\ DOMAIN version'[s] = DOMAIN version[s]
  <2>1. q \in DOMAIN version[s] /\ w \in VersionRow
    BY <1>0, <1>1
  <2> QED
    BY <1>2, <2>1, SetRowKeepsOthers
<1>4. Kept(version[s][q], version'[s][q])
  BY <1>0, <1>1, <1>3 DEF Kept
<1> QED
  BY <1>0, <1>1, <1>3, <1>4 DEF OthersKept

\* The decision of a reviewer keeps the invariant; the run an approval requests releases the
\* version approved.
LEMMA DecisionKeeps ==
  ASSUME PipelineInv, PoolInv, TypeOK', [PipelineNext]_allvars, NEW s \in Source, NEW q \in Pending(s),
         RejectRelease(s, q) \/ \E r \in RunId : ApproveRelease(s, q, r)
  PROVE  PipelineInv'
<1>0. /\ PipelineTypeOK /\ VersionsInv /\ run \in [RunId -> RunRow] /\ options \in [RunId -> RunOptions]
      /\ archived \in [RunId -> Bytes \cup {NULL}] /\ staging \in [RunId -> SUBSET Batch]
      /\ q \in DOMAIN version[s] /\ version[s][q].release = "PENDING" /\ version[s][q] \in VersionRow
      /\ DOMAIN version[s] = 1..Len(version[s]) /\ Len(version[s]) \in Nat /\ Len(version[s]) <= MaxVersions
  BY Types DEF PipelineInv, PipelineTypeOK, TypeOK, Pending, VersionsInv
<1>1. CASE RejectRelease(s, q)
  <2>1. /\ version' = [version EXCEPT ![s][q].release = "REJECTED"]
        /\ UNCHANGED <<run, thread, phase, ctx, archived, staging, options>>
    BY <1>1 DEF RejectRelease, vars
  <2> QED
    BY <1>0, <2>1, Decided, OutsideStep
<1>2. ASSUME NEW r \in RunId, ApproveRelease(s, q, r) PROVE PipelineInv'
  <2> DEFINE o == [NoOptions EXCEPT !.release = q]
  <2>1. o \in RunOptions /\ o.release = q
    <3>1. q \in 0..MaxVersions
      BY <1>0, VersionsAssumption
    <3>2. NoOptions \in RunOptions
      BY VersionsAssumption DEF NoOptions, RunOptions
    <3>3. \A p \in RunOptions : \A n \in 0..MaxVersions :
            [p EXCEPT !.release = n] \in RunOptions /\ [p EXCEPT !.release = n].release = n
      BY DEF RunOptions
    <3> QED
      BY <3>1, <3>2, <3>3
  <2>2. /\ version' = [version EXCEPT ![s][q].release = "APPLIED"] /\ options' = [options EXCEPT ![r] = o]
        /\ UNCHANGED <<thread, phase, ctx, archived, staging>>
        /\ run' = [run EXCEPT ![r] = QueuedRow(s, TRUE, NULL, 1)]
    BY <1>2 DEF ApproveRelease, Enqueue
  <2> HIDE DEF o
  <2>3. options' \in [RunId -> RunOptions] /\ options'[r].release = q
    BY <1>0, <2>1, <2>2
  <2>4. /\ \A p \in RunId \ {r} : run'[p] = run[p]
        /\ run'[r].source = s
    BY <1>0, <2>2 DEF QueuedRow, UnusedRow
  <2>5. /\ OthersKept(s, 0) /\ DOMAIN version'[s] = DOMAIN version[s]
        /\ version'[s][q].release = "APPLIED" /\ 0 \notin DOMAIN version'[s]
    BY <2>2, Decided
  <2>6. ASSUME NEW p \in RunId, run[p].status = "UNUSED", run'[p].status # "UNUSED"
        PROVE  LET t == run'[p].source IN
               options'[p].release \in DOMAIN version'[t] /\ version'[t][options'[p].release].release = "APPLIED"
    <3>1. p = r
      BY <2>4, <2>6
    <3> QED
      BY <1>0, <2>3, <2>4, <2>5, <3>1
  <2> QED
    BY <1>0, <2>2, <2>3, <2>5, <2>6, OutsideStep
<1> QED
  BY <1>1, <1>2

\* A version of a run of s that keeps its run and its release, or whose release is proposed for a
\* run that may publish, and that is not published by the step.
LEMMA TouchesOwn ==
  ASSUME PipelineInv, PoolInv, TypeOK', [PipelineNext]_allvars,
         NEW e \in Executor, phase[e] # "IDLE", NEW s \in Source, NEW q \in DOMAIN version[s],
         version[s][q].run = thread[e] \/ version[s][q].release # "NONE",
         NEW w \in VersionRow, version' = [version EXCEPT ![s][q] = w],
         w.run = version[s][q].run,
         \/ w.release = version[s][q].release
         \/ version[s][q].release = "NONE" /\ ~options[w.run].dry /\ ~IsPublished(w),
         IsPublished(w) => IsPublished(version[s][q]),
         w.status = "HELD" /\ w.release = "NONE" => options[w.run].dry
  PROVE  Touches(e, s, q)
<1>0. /\ PipelineTypeOK /\ TypeOK /\ [Next]_vars /\ VersionsInv
      /\ OthersKept(s, q) /\ version'[s][q] = w /\ DOMAIN version'[s] = DOMAIN version[s]
      /\ w.run \in RunId /\ RowHolds(s, version[s][q], run, options)
  <2>1. PipelineTypeOK /\ TypeOK /\ [Next]_vars /\ VersionsInv
    BY StepImplements DEF PipelineInv, PipelineTypeOK
  <2> QED
    <3>1. OthersKept(s, q) /\ version'[s][q] = w /\ DOMAIN version'[s] = DOMAIN version[s]
      BY SetRowKeepsOthers
    <3>2. RowHolds(s, version[s][q], run, options)
      BY <2>1 DEF VersionsInv
    <3>3. w.run \in RunId
      BY DEF VersionRow
    <3> QED
      BY <2>1, <3>1, <3>2, <3>3
<1>1. /\ options'[w.run] = options[w.run] /\ run'[w.run].source = s
      /\ run'[w.run].status \notin {"UNUSED", "QUEUED"}
  <2>1. run[w.run].status # "UNUSED" /\ run[w.run].source = s /\ Taken(w.run)
    BY <1>0 DEF RowHolds, Taken
  <2> QED
    BY <1>0, <2>1, OptionsStay, RowsStay
<1>2. RowHolds(s, version'[s][q], run', options')
  <2>1. IsPublished(version'[s][q]) => IsPublished(w)
    BY <1>0 DEF IsPublished
  <2> QED
    BY <1>0, <1>1, <2>1 DEF RowHolds, Taken
<1> QED
  BY <1>0, <1>2 DEF Touches

\* An executor that has a version: it is the one of its own run, and quiet.
LEMMA OwnVersion ==
  ASSUME PipelineInv, PoolInv, NEW e \in Executor, phase[e] = "EXECUTING", seq[e] # 0
  PROVE  LET s == SourceOf(e) IN
         /\ pc[e] \in WithVersion /\ s \in Source /\ seq[e] \in DOMAIN version[s]
         /\ version[s][seq[e]] \in VersionRow /\ version[s][seq[e]].run = thread[e]
         /\ Quiet(version[s][seq[e]])
<1>1. PipelineTypeOK /\ StepInv(e) /\ pc[e] \in Steps /\ pc[e] \notin {"NONE", "PURGE"}
  BY Types DEF PipelineInv
<1>2. pc[e] \in WithVersion
  BY <1>1 DEF StepInv, Steps, BeforeVersion, WithVersion
<1>3. SourceOf(e) \in Source
  BY <1>1, Mine
<1> QED
  BY <1>1, <1>2, <1>3, Types DEF StepInv

\* What the end of a run does to the run's own version.
LEMMA OwnClosed ==
  ASSUME PipelineInv, PoolInv, TypeOK', [PipelineNext]_allvars, NEW e \in Executor, phase[e] = "EXECUTING",
         NEW status \in {"REJECTED", "QUARANTINED"}, CloseOwnVersion(e, status)
  PROVE  \E q : Touches(e, SourceOf(e), q)
<1>0. SourceOf(e) \in Source
  BY Mine DEF PipelineInv
<1>1. CASE UNCHANGED version
  BY <1>0, <1>1, TouchesNone
<1>2. CASE seq[e] # 0 /\ SetStatus(SourceOf(e), seq[e], status)
  <2> DEFINE s == SourceOf(e)
             v == version[s][seq[e]]
             w == [v EXCEPT !.status = status]
  <2>1. seq[e] \in DOMAIN version[s] /\ v \in VersionRow /\ v.run = thread[e] /\ Quiet(v)
    BY <1>2, OwnVersion
  <2>2. /\ w \in VersionRow /\ w.run = v.run /\ w.release = v.release /\ w.content = v.content
        /\ w.status = status
    BY <2>1 DEF VersionRow
  <2>3. version' = [version EXCEPT ![s][seq[e]] = w]
    BY <1>2 DEF SetStatus
  <2>4. IsPublished(w) => IsPublished(v)
    BY <2>2 DEF IsPublished
  <2> HIDE DEF w
  <2>5. Touches(e, s, seq[e])
    BY <1>0, <2>1, <2>2, <2>3, <2>4, TouchesOwn
  <2> QED
    BY <2>5
<1> QED
  BY <1>1, <1>2 DEF CloseOwnVersion

\* Cancellation, an exception and a failure of the parser keep the invariant.
LEMMA EndKeeps ==
  ASSUME PipelineInv, PoolInv, TypeOK', [PipelineNext]_allvars, NEW e \in Executor,
         Cancelled(e) \/ Fails(e) \/ ParseFails(e)
  PROVE  PipelineInv'
<1>0. PipelineTypeOK /\ staging \in [RunId -> SUBSET Batch] /\ archived \in [RunId -> Bytes \cup {NULL}]
  BY DEF PipelineInv, PipelineTypeOK
<1>1. /\ phase[e] = "EXECUTING" /\ UNCHANGED <<archived, options>> /\ staging' \in [RunId -> SUBSET Batch]
      /\ \E outcome \in {"CANCELLED", "FAILED", "QUARANTINED"} : Finish(e, outcome)
      /\ \E status \in {"REJECTED", "QUARANTINED"} : CloseOwnVersion(e, status)
  BY <1>0 DEF Cancelled, Fails, ParseFails, At
<1>2. phase[e] # "IDLE" /\ OnlyMoves(e) /\ StepInv(e)' /\ SourceOf(e) \in Source
  <2>1. PICK outcome \in {"CANCELLED", "FAILED", "QUARANTINED"} : Finish(e, outcome)
    BY <1>1
  <2>2. SourceOf(e) \in Source
    BY <1>0, <1>1, Mine
  <2> QED
    BY <1>0, <1>1, <2>1, <2>2, Closes DEF Terminal
<1>3. PICK q : Touches(e, SourceOf(e), q)
  BY <1>1, OwnClosed
<1> QED
  BY <1>2, <1>3, ExecutorStep

\* The end of a dry run keeps the invariant.
LEMMA FinishDryRunKeeps ==
  ASSUME PipelineInv, PoolInv, TypeOK', [PipelineNext]_allvars, NEW e \in Executor, FinishDryRun(e)
  PROVE  PipelineInv'
<1>0. /\ PipelineTypeOK /\ StepInv(e) /\ staging \in [RunId -> SUBSET Batch] /\ archived \in [RunId -> Bytes \cup {NULL}]
      /\ phase[e] = "EXECUTING" /\ pc[e] = "DRY_RUN" /\ Finish(e, "DRY_RUN_OK")
      /\ UNCHANGED <<archived, staging, options>> /\ SetStatus(SourceOf(e), seq[e], "REJECTED")
  BY DEF PipelineInv, PipelineTypeOK, FinishDryRun, At
<1>1. SourceOf(e) \in Source /\ seq[e] # 0
  BY <1>0, Mine DEF StepInv, BeforeVersion
<1> DEFINE s == SourceOf(e)
           v == version[s][seq[e]]
           w == [v EXCEPT !.status = "REJECTED"]
<1>2. seq[e] \in DOMAIN version[s] /\ v \in VersionRow /\ v.run = thread[e] /\ Quiet(v)
  BY <1>0, <1>1, OwnVersion
<1>3. w \in VersionRow /\ w.run = v.run /\ w.release = v.release /\ w.content = v.content /\ w.status = "REJECTED"
  BY <1>2 DEF VersionRow
<1>4. version' = [version EXCEPT ![s][seq[e]] = w] /\ (IsPublished(w) => IsPublished(v))
  BY <1>0, <1>3 DEF SetStatus, IsPublished
<1> HIDE DEF w
<1>5. phase[e] # "IDLE" /\ OnlyMoves(e) /\ StepInv(e)'
  BY <1>0, Closes DEF Terminal
<1>6. Touches(e, s, seq[e])
  BY <1>1, <1>2, <1>3, <1>4, <1>5, TouchesOwn
<1> QED
  BY <1>1, <1>5, <1>6, ExecutorStep

\* The version the validation of the file inserts is its run's first, and the source's next.
LEMMA NewVersion ==
  ASSUME PipelineInv, PoolInv, NEW e \in Executor, NEW valid \in BOOLEAN, ValidateFile(e, valid)
  PROVE  LET s == SourceOf(e)
             q == Len(version[s]) + 1
         IN  /\ s \in Source /\ thread[e] \in RunId /\ Taken(thread[e]) /\ run[thread[e]].status # "UNUSED"
             /\ options[thread[e]].release = 0
             /\ \A t \in Source : \A i \in DOMAIN version[t] : version[t][i].run # thread[e]
             /\ OthersKept(s, q) /\ q \in DOMAIN version'[s] /\ q \notin DOMAIN version[s]
             /\ q \in Nat /\ q # 0 /\ q <= MaxVersions
             /\ version'[s][q] \in VersionRow
             /\ version'[s][q] = [run |-> thread[e], bytes |-> bytes[e],
                                  status |-> IF valid THEN "CANDIDATE" ELSE "QUARANTINED",
                                  count |-> {}, release |-> "NONE", content |-> {}]
<1> DEFINE s == SourceOf(e)
           q == Len(version[s]) + 1
           new == [run |-> thread[e], bytes |-> bytes[e], status |-> IF valid THEN "CANDIDATE" ELSE "QUARANTINED",
                   count |-> {}, release |-> "NONE", content |-> {}]
<1>0. /\ PipelineTypeOK /\ VersionsInv /\ StepInv(e) /\ version \in [Source -> Seq(VersionRow)]
      /\ phase[e] = "EXECUTING" /\ pc[e] = "VALIDATE_FILE" /\ q <= MaxVersions
  BY DEF PipelineInv, PipelineTypeOK, ValidateFile, At
<1>1. /\ s \in Source /\ thread[e] \in RunId /\ Taken(thread[e]) /\ run[thread[e]].status # "UNUSED"
      /\ bytes[e] \in Bytes /\ options[thread[e]].release = 0
      /\ \A t \in Source : \A i \in DOMAIN version[t] : version[t][i].run # thread[e]
  BY <1>0, Mine DEF StepInv, BeforeVersion
<1>2. /\ version' = [version EXCEPT ![s] = Append(version[s], new)]
      /\ new \in VersionRow
  <2>1. new \in VersionRow
    BY <1>1 DEF VersionRow, Batch
  <2>2. version' = [version EXCEPT ![s] = Append(version[s], new)]
    <3> DEFINE old == [run |-> thread[e], bytes |-> bytes[e], status |-> "CANDIDATE",
                       count |-> {}, release |-> "NONE", content |-> {}]
    <3>1. version' = [version EXCEPT ![s] = Append(@, IF valid THEN old ELSE [old EXCEPT !.status = "QUARANTINED"])]
      BY DEF ValidateFile, RunOf
    <3>2. new = IF valid THEN old ELSE [old EXCEPT !.status = "QUARANTINED"]
      OBVIOUS
    <3> HIDE DEF old, new
    <3> QED
      BY <3>1, <3>2
  <2> QED
    BY <2>1, <2>2
<1> HIDE DEF new
<1>3. /\ Append(version[s], new) \in Seq(VersionRow) /\ Len(Append(version[s], new)) = q
      /\ DOMAIN Append(version[s], new) = 1..q /\ DOMAIN version[s] = 1..(q - 1) /\ q \in Nat /\ q # 0
      /\ Append(version[s], new)[q] = new
      /\ \A i \in 1..(q - 1) : Append(version[s], new)[i] = version[s][i]
  <2>1. version[s] \in Seq(VersionRow)
    BY <1>0, <1>1
  <2>2. Append(version[s], new) \in Seq(VersionRow) /\ Len(Append(version[s], new)) = q
        /\ Append(version[s], new)[q] = new
        /\ \A i \in 1..Len(version[s]) : Append(version[s], new)[i] = version[s][i]
    BY <1>2, <2>1, AppendProperties
  <2>3. DOMAIN version[s] = 1..Len(version[s]) /\ Len(version[s]) \in Nat
    BY <2>1, LenProperties
  <2>4. DOMAIN Append(version[s], new) = 1..q
    BY <2>2, LenProperties
  <2> QED
    BY <2>2, <2>3, <2>4
<1>4. /\ version'[s] = Append(version[s], new) /\ \A t \in Source \ {s} : version'[t] = version[t]
      /\ version' \in [Source -> Seq(VersionRow)]
  BY <1>0, <1>1, <1>2, <1>3
<1>5. OthersKept(s, q)
  <2>1. \A t \in Source : Len(version'[t]) <= MaxVersions
    BY <1>0, <1>3, <1>4 DEF VersionsInv
  <2>2. DOMAIN version[s] \subseteq DOMAIN version'[s]
        /\ \A i \in DOMAIN version'[s] : i = q \/ (i \in DOMAIN version[s] /\ version'[s][i] = version[s][i])
    BY <1>3, <1>4
  <2> QED
    BY <1>4, <2>1, <2>2 DEF OthersKept, Kept
<1>6. q \in DOMAIN version'[s] /\ version'[s][q] = new /\ q \notin DOMAIN version[s]
  BY <1>3, <1>4
<1> QED
  BY <1>0, <1>1, <1>2, <1>3, <1>5, <1>6 DEF new

\* The validation of the file keeps the invariant: the version it inserts is the run's first.
LEMMA ValidateFileKeeps ==
  ASSUME PipelineInv, PoolInv, TypeOK', [PipelineNext]_allvars, NEW e \in Executor, NEW valid \in BOOLEAN,
         ValidateFile(e, valid)
  PROVE  PipelineInv'
<1>0. /\ PipelineTypeOK /\ staging \in [RunId -> SUBSET Batch]
      /\ archived \in [RunId -> Bytes \cup {NULL}] /\ pc \in [Executor -> Steps]
      /\ bytes \in [Executor -> Bytes \cup {NULL}] /\ seq \in [Executor -> 0..MaxVersions]
      /\ [Next]_vars /\ TypeOK
      /\ phase[e] = "EXECUTING" /\ UNCHANGED <<archived, staging, options>>
  BY StepImplements DEF PipelineInv, PipelineTypeOK, ValidateFile, At
<1>1. PICK s \in Source, q \in Nat, new \in VersionRow :
        /\ s = SourceOf(e) /\ q = Len(version[s]) + 1 /\ q # 0 /\ q <= MaxVersions /\ new = version'[s][q]
        /\ thread[e] \in RunId /\ Taken(thread[e]) /\ run[thread[e]].status # "UNUSED"
        /\ options[thread[e]].release = 0
        /\ \A t \in Source : \A i \in DOMAIN version[t] : version[t][i].run # thread[e]
        /\ OthersKept(s, q) /\ q \in DOMAIN version'[s] /\ q \notin DOMAIN version[s]
        /\ new.run = thread[e] /\ new.release = "NONE" /\ ~IsPublished(new) /\ new.status # "HELD"
  <2> DEFINE t == SourceOf(e)
             n == Len(version[t]) + 1
             row == version'[t][n]
  <2>1. /\ t \in Source /\ n \in Nat /\ n # 0 /\ n <= MaxVersions /\ row \in VersionRow
        /\ thread[e] \in RunId /\ Taken(thread[e]) /\ run[thread[e]].status # "UNUSED"
        /\ options[thread[e]].release = 0
        /\ \A u \in Source : \A i \in DOMAIN version[u] : version[u][i].run # thread[e]
        /\ OthersKept(t, n) /\ n \in DOMAIN version'[t] /\ n \notin DOMAIN version[t]
    BY NewVersion
  <2>2. row.run = thread[e] /\ row.release = "NONE" /\ ~IsPublished(row) /\ row.status # "HELD"
    <3>1. row = [run |-> thread[e], bytes |-> bytes[e], status |-> IF valid THEN "CANDIDATE" ELSE "QUARANTINED",
                 count |-> {}, release |-> "NONE", content |-> {}]
      BY NewVersion
    <3>2. row.status \in {"CANDIDATE", "QUARANTINED"}
      BY <3>1
    <3> HIDE DEF row
    <3> QED
      BY <3>1, <3>2 DEF IsPublished
  <2>3. t = SourceOf(e) /\ n = Len(version[t]) + 1 /\ row = version'[t][n]
    OBVIOUS
  <2> HIDE DEF t, n, row
  <2> QED
    BY <2>1, <2>2, <2>3
<1>7. RowHolds(s, version'[s][q], run', options')
  <2>1. run'[thread[e]].status \notin {"UNUSED", "QUEUED"} /\ run'[thread[e]].source = s
    BY <1>0, <1>1, RowsStay DEF SourceOf
  <2>2. UNCHANGED options
    BY <1>0
  <2> QED
    BY <1>1, <2>1, <2>2 DEF RowHolds, Taken, IsPublished
<1>8. Touches(e, s, q)
  BY <1>1, <1>7 DEF Touches
<1>9. CASE valid = TRUE
  <2>1. pc' = [pc EXCEPT ![e] = "PARSE"] /\ seq' = [seq EXCEPT ![e] = q] /\ UNCHANGED <<vars, bytes>>
    BY <1>1, <1>9 DEF ValidateFile, Goto
  <2>2. bytes' = [bytes EXCEPT ![e] = bytes[e]] /\ q \in 0..MaxVersions
    <3>1. bytes' = [bytes EXCEPT ![e] = bytes[e]]
      BY <1>0, <2>1
    <3> QED
      BY <1>0, <1>1, <3>1, VersionsAssumption
  <2>3. OnlyMoves(e) /\ phase[e] # "IDLE"
    BY <1>0, <1>1, <2>1, <2>2, GoesOn DEF Steps
  <2>4. StepInv(e)'
    <3>1. /\ pc'[e] = "PARSE" /\ seq'[e] = q /\ UNCHANGED <<run, thread, phase, options>>
      BY <1>0, <2>1 DEF vars
    <3>2. Quiet(version'[s][q]) /\ version'[s][q].run = thread[e]
      BY <1>1 DEF Quiet
    <3> QED
      BY <1>1, <3>1, <3>2 DEF StepInv, SourceOf, BeforeVersion, WithVersion
  <2> QED
    BY <1>1, <1>8, <2>3, <2>4, ExecutorStep
<1>10. CASE valid = FALSE
  <2>1. Finish(e, "QUARANTINED")
    BY <1>10 DEF ValidateFile
  <2>2. phase[e] # "IDLE" /\ OnlyMoves(e) /\ StepInv(e)'
    BY <1>0, <2>1, Closes DEF Terminal
  <2> QED
    BY <1>1, <1>8, <2>2, ExecutorStep
<1> QED
  BY <1>9, <1>10

\* The validation of the data keeps the invariant: only the proposal of a run that may publish makes
\* its version anything but quiet, and that run ends.
LEMMA ValidateDataKeeps ==
  ASSUME PipelineInv, PoolInv, TypeOK', [PipelineNext]_allvars, NEW e \in Executor,
         NEW outcome \in {"PASS", "HOLD", "QUARANTINE"}, ValidateData(e, outcome)
  PROVE  PipelineInv'
<1> DEFINE s == SourceOf(e)
           q == seq[e]
           v == version[s][q]
           dry == options[thread[e]].dry
           status == CASE outcome = "PASS" -> "VALIDATED"
                       [] outcome = "HOLD" -> "HELD"
                       [] outcome = "QUARANTINE" -> "QUARANTINED"
           proposed == outcome = "HOLD" /\ ~dry
           release == IF proposed THEN "PENDING" ELSE v.release
           w == [v EXCEPT !.status = status, !.count = staging[thread[e]], !.release = release]
<1>0. /\ PipelineTypeOK /\ StepInv(e) /\ TypeOK /\ phase[e] = "EXECUTING" /\ pc[e] = "VALIDATE_DATA"
      /\ archived' \in [RunId -> Bytes \cup {NULL}] /\ staging' \in [RunId -> SUBSET Batch]
      /\ pc \in [Executor -> Steps] /\ bytes \in [Executor -> Bytes \cup {NULL}]
      /\ seq \in [Executor -> 0..MaxVersions] /\ UNCHANGED <<archived, staging, options>>
      /\ options[thread[e]].release = 0
  <2>1. PipelineTypeOK /\ StepInv(e) /\ phase[e] = "EXECUTING" /\ pc[e] = "VALIDATE_DATA"
        /\ UNCHANGED <<archived, staging, options>>
    BY DEF PipelineInv, ValidateData, At
  <2> QED
    BY <2>1 DEF PipelineTypeOK, StepInv
<1>1. /\ s \in Source /\ q # 0 /\ thread[e] \in RunId /\ q \in DOMAIN version[s] /\ v \in VersionRow
      /\ v.run = thread[e] /\ Quiet(v) /\ staging[thread[e]] \in SUBSET Batch
  <2>1. q # 0 /\ thread[e] \in RunId /\ staging[thread[e]] \in SUBSET Batch
    BY <1>0, Types DEF StepInv, BeforeVersion
  <2> QED
    BY <1>0, <2>1, OwnVersion
<1>2. status \in {"VALIDATED", "HELD", "QUARANTINED"} /\ release \in {"NONE", "PENDING"}
      /\ v.release = "NONE" /\ v.status # "PUBLISHED" /\ v.content = {} /\ (proposed => ~dry)
      /\ (status = "HELD" /\ release = "NONE" => dry)
  BY <1>1, SMTT(40) DEF Quiet, IsPublished
<1>3. version' = [version EXCEPT ![s][q] = w]
  BY ZenonT(60) DEF ValidateData, RunOf
<1>4. \/ Finish(e, status) /\ status \in {"HELD", "QUARANTINED"}
      \/ /\ ~proposed /\ pc' = [pc EXCEPT ![e] = IF dry THEN "DRY_RUN" ELSE "DIFF_PUBLISH"]
         /\ UNCHANGED <<vars, bytes, seq>>
  BY DEF ValidateData, RunOf, Goto
<1>5. UNCHANGED options /\ dry \in BOOLEAN
  BY <1>0, <1>1, Types DEF RunOptions
<1> HIDE DEF status, proposed, dry
<1>6. /\ w \in VersionRow /\ w.run = v.run /\ w.release = release /\ w.content = v.content
      /\ w.status = status
  <2>1. staging[thread[e]] \in SUBSET Batch /\ v \in VersionRow
        /\ status \in {"VALIDATED", "HELD", "QUARANTINED"} /\ release \in {"NONE", "PENDING"}
    BY <1>1, <1>2
  <2> HIDE DEF release, v
  <2> QED
    BY <2>1 DEF VersionRow
<1> HIDE DEF w
<1>7. ~IsPublished(w) /\ (w.release # "NONE" => proposed)
  BY <1>2, <1>6 DEF IsPublished
<1>8. Touches(e, s, q)
  <2>1. /\ w.release = v.release \/ (v.release = "NONE" /\ ~options[w.run].dry /\ ~IsPublished(w))
        /\ w.status = "HELD" /\ w.release = "NONE" => options[w.run].dry
    BY <1>1, <1>2, <1>6, <1>7 DEF dry
  <2>2. w.run = version[s][q].run /\ w.run = thread[e] /\ phase[e] # "IDLE"
    BY <1>0, <1>1, <1>6
  <2> HIDE DEF release, s, q
  <2> QED
    BY <1>1, <1>3, <1>6, <1>7, <2>1, <2>2, TouchesOwn
<1>9. CASE Finish(e, status) /\ status \in {"HELD", "QUARANTINED"}
  <2>1. phase[e] # "IDLE" /\ OnlyMoves(e) /\ StepInv(e)'
    <3>1. status \in Terminal
      BY <1>9 DEF Terminal
    <3>2. PICK end \in Terminal : Finish(e, end)
      BY <1>9, <3>1
    <3>3. archived' \in [RunId -> Bytes \cup {NULL}] /\ staging' \in [RunId -> SUBSET Batch] /\ UNCHANGED options
      BY <1>0
    <3> QED
      BY <1>0, <3>2, <3>3, Closes
  <2> QED
    BY <1>1, <1>8, <2>1, ExecutorStep
<1>10. CASE /\ ~proposed /\ pc' = [pc EXCEPT ![e] = IF dry THEN "DRY_RUN" ELSE "DIFF_PUBLISH"]
            /\ UNCHANGED <<vars, bytes, seq>>
  <2>1. /\ bytes' = [bytes EXCEPT ![e] = bytes[e]] /\ seq' = [seq EXCEPT ![e] = q]
        /\ q \in 0..MaxVersions /\ bytes[e] \in Bytes \cup {NULL}
    BY <1>0, <1>10
  <2>2. OnlyMoves(e) /\ phase[e] # "IDLE"
    BY <1>0, <1>10, <2>1, GoesOn DEF Steps
  <2>3. StepInv(e)'
    <3>1. /\ pc'[e] = IF dry THEN "DRY_RUN" ELSE "DIFF_PUBLISH"
          /\ UNCHANGED <<run, thread, phase, seq, options>>
      BY <1>0, <1>10 DEF vars
    <3>2. version'[s][q] = w /\ q \in DOMAIN version'[s]
      BY <1>1, <1>3, <1>6, SetRowKeepsOthers
    <3>3. Quiet(w) /\ w.run = thread[e]
      BY <1>1, <1>6, <1>7, <1>10 DEF Quiet
    <3> QED
      BY <1>0, <1>1, <3>1, <3>2, <3>3 DEF StepInv, SourceOf, BeforeVersion, WithVersion, dry
  <2> QED
    BY <1>1, <1>8, <2>2, <2>3, ExecutorStep
<1> QED
  BY <1>4, <1>9, <1>10

\* The publication of a version that may be published touches that version only: of the others, no
\* one is published by it and every pending release expires.
LEMMA PublishTouches ==
  ASSUME PipelineInv, PoolInv, TypeOK', [PipelineNext]_allvars, NEW e \in Executor,
         NEW s \in Source, NEW q \in DOMAIN version[s], NEW content \in SUBSET Batch,
         version' = [version EXCEPT ![s] = VersionsAfter(s, q, content)],
         version[s][q].run = thread[e] \/ version[s][q].release # "NONE",
         version[s][q].release \in {"NONE", "APPLIED"}, ~options[version[s][q].run].dry
  PROVE  Touches(e, s, q)
<1>0. /\ PipelineTypeOK /\ TypeOK /\ [Next]_vars /\ VersionsInv /\ version \in [Source -> Seq(VersionRow)]
      /\ DOMAIN version[s] = 1..Len(version[s]) /\ Len(version[s]) \in Nat
      /\ \A i \in DOMAIN version[s] : version[s][i] \in VersionRow
      /\ version[s][q].run \in RunId /\ RowHolds(s, version[s][q], run, options)
  <2>1. PipelineTypeOK /\ TypeOK /\ [Next]_vars /\ VersionsInv /\ version \in [Source -> Seq(VersionRow)]
    BY StepImplements DEF PipelineInv, PipelineTypeOK
  <2> QED
    BY <2>1, Types DEF VersionsInv
<1> DEFINE new == [version[s][q] EXCEPT !.status = "PUBLISHED", !.content = content]
           st(i) == IF version[s][i].status = "PUBLISHED" \/ (version[s][i].status = "HELD" /\ i < q)
                      THEN "SUPERSEDED" ELSE version[s][i].status
           rel(i) == IF version[s][i].release = "PENDING" THEN "EXPIRED" ELSE version[s][i].release
           other(i) == [version[s][i] EXCEPT !.status = st(i), !.release = rel(i)]
           row(i) == IF i = q THEN new ELSE other(i)
<1>1. /\ new \in VersionRow /\ new.run = version[s][q].run /\ new.release = version[s][q].release
      /\ new.status = "PUBLISHED"
  BY <1>0 DEF VersionRow
<1>2. ASSUME NEW i \in DOMAIN version[s] PROVE other(i) \in VersionRow /\ Kept(version[s][i], other(i))
  <2>1. version[s][i] \in VersionRow
        /\ st(i) \in {"CANDIDATE", "VALIDATED", "HELD", "QUARANTINED", "SUPERSEDED", "REJECTED"}
        /\ rel(i) \in {"NONE", "APPLIED", "REJECTED", "EXPIRED"}
        /\ (rel(i) # version[s][i].release => version[s][i].release = "PENDING" /\ rel(i) # "NONE")
        /\ (st(i) # version[s][i].status => version[s][i].status \in {"PUBLISHED", "HELD"} /\ st(i) = "SUPERSEDED")
    BY <1>0 DEF VersionRow
  <2> HIDE DEF st, rel
  <2>2. /\ other(i) \in VersionRow /\ other(i).run = version[s][i].run /\ other(i).status = st(i)
        /\ other(i).release = rel(i) /\ other(i).content = version[s][i].content
        /\ other(i).count = version[s][i].count
    BY <2>1 DEF VersionRow
  <2> HIDE DEF other
  <2>3. Kept(version[s][i], other(i))
    BY <2>1, <2>2 DEF Kept
  <2> QED
    BY <2>2, <2>3
<1>3. VersionsAfter(s, q, content) = [i \in 1..Len(version[s]) |-> row(i)]
  BY <1>0 DEF VersionsAfter
<1> HIDE DEF new, other, st, rel
<1>4. \A i \in 1..Len(version[s]) : row(i) \in VersionRow
  BY <1>0, <1>1, <1>2
<1> DEFINE after == VersionsAfter(s, q, content)
<1>5. after \in Seq(VersionRow) /\ Len(after) = Len(version[s]) /\ DOMAIN after = DOMAIN version[s]
      /\ \A i \in DOMAIN version[s] : after[i] = row(i)
  <2>1. after \in [1..Len(version[s]) -> VersionRow] /\ \A i \in 1..Len(version[s]) : after[i] = row(i)
    BY <1>3, <1>4
  <2>2. after \in Seq(VersionRow) /\ DOMAIN after = 1..Len(version[s])
    BY <1>0, <2>1, IsASeq
  <2> QED
    BY <1>0, <2>1, <2>2, LenProperties
<1>6. version' = [version EXCEPT ![s] = after]
  OBVIOUS
<1> HIDE DEF after
<1>7. /\ version' \in [Source -> Seq(VersionRow)] /\ version'[s] = after
      /\ \A t \in Source \ {s} : version'[t] = version[t]
  BY <1>0, <1>5, <1>6
<1>8. OthersKept(s, q)
  <2>1. \A t \in Source : Len(version'[t]) <= MaxVersions /\ DOMAIN version'[t] = DOMAIN version[t]
    BY <1>0, <1>5, <1>7 DEF VersionsInv
  <2>2. \A i \in DOMAIN version[s] : i = q \/ Kept(version[s][i], version'[s][i])
    BY <1>2, <1>5, <1>7
  <2>3. \A t \in Source \ {s} : \A i \in DOMAIN version[t] : Kept(version[t][i], version'[t][i])
    BY <1>7 DEF Kept
  <2> QED
    BY <1>7, <2>1, <2>2, <2>3 DEF OthersKept
<1>9. version'[s][q] = new /\ DOMAIN version'[s] = DOMAIN version[s]
  BY <1>5, <1>7
<1>10. /\ options'[new.run] = options[new.run] /\ run'[new.run].source = s
       /\ run'[new.run].status \notin {"UNUSED", "QUEUED"}
  <2>1. run[new.run].status # "UNUSED" /\ run[new.run].source = s /\ Taken(new.run)
    BY <1>0, <1>1 DEF RowHolds, Taken
  <2> QED
    BY <1>0, <1>1, <2>1, OptionsStay, RowsStay
<1>11. RowHolds(s, version'[s][q], run', options')
  BY <1>0, <1>1, <1>9, <1>10 DEF RowHolds
<1> QED
  BY <1>0, <1>1, <1>8, <1>9, <1>11 DEF Touches

\* What is published is a version of the executor's source, its own or one whose release was approved.
LEMMA PublishesRow ==
  ASSUME PipelineInv, PoolInv, NEW e \in Executor, DiffPublish(e) \/ Release(e)
  PROVE  /\ SourceOf(e) \in Source
         /\ \E q \in DOMAIN version[SourceOf(e)], r \in RunId :
              /\ PublishFrom(e, SourceOf(e), q, r)
              /\ version[SourceOf(e)][q].run = thread[e] \/ version[SourceOf(e)][q].release # "NONE"
              /\ version[SourceOf(e)][q].release \in {"NONE", "APPLIED"}
              /\ ~options[version[SourceOf(e)][q].run].dry
<1>0. PipelineTypeOK /\ TypeOK /\ StepInv(e) /\ phase[e] = "EXECUTING" /\ VersionsInv
  BY DEF PipelineInv, PipelineTypeOK, DiffPublish, Release, At
<1>1. SourceOf(e) \in Source /\ thread[e] \in RunId /\ run[thread[e]].status # "UNUSED"
  BY <1>0, Mine
<1>2. CASE DiffPublish(e)
  <2>1. pc[e] = "DIFF_PUBLISH" /\ PublishFrom(e, SourceOf(e), seq[e], thread[e])
    BY <1>2 DEF DiffPublish, At, RunOf
  <2>2. seq[e] # 0 /\ ~options[thread[e]].dry
    BY <1>0, <2>1, SMTT(40) DEF StepInv, BeforeVersion
  <2> QED
    BY <1>0, <1>1, <2>1, <2>2, OwnVersion DEF Quiet
<1>3. CASE Release(e)
  <2> DEFINE p == options[thread[e]].release
             v == version[SourceOf(e)][p]
  <2>1. pc[e] = "RELEASE" /\ PublishFrom(e, SourceOf(e), p, v.run)
    BY <1>3 DEF Release, At, RunOf
  <2>2. p # 0
    BY <1>0, <2>1 DEF StepInv
  <2>3. p \in DOMAIN version[SourceOf(e)] /\ v.release = "APPLIED"
    BY <1>1, <2>2 DEF PipelineInv, ReleaseInv, SourceOf
  <2>4. v.run \in RunId /\ RowHolds(SourceOf(e), v, run, options)
    BY <1>0, <1>1, <2>3, Types DEF VersionsInv
  <2> QED
    BY <1>1, <2>1, <2>3, <2>4 DEF RowHolds
<1> QED
  BY <1>2, <1>3

\* The publication of the run's own version, or of a released one, keeps the invariant.
LEMMA PublishKeeps ==
  ASSUME PipelineInv, PoolInv, TypeOK', [PipelineNext]_allvars, NEW e \in Executor, DiffPublish(e) \/ Release(e)
  PROVE  PipelineInv'
<1>0. PipelineTypeOK /\ TypeOK /\ StepInv(e) /\ phase[e] = "EXECUTING" /\ VersionsInv
  BY DEF PipelineInv, PipelineTypeOK, DiffPublish, Release, At
<1>1. SourceOf(e) \in Source /\ thread[e] \in RunId /\ Taken(thread[e]) /\ run[thread[e]].status # "UNUSED"
  BY <1>0, Mine
<1>2. PICK s \in Source, q \in DOMAIN version[SourceOf(e)], r \in RunId :
        /\ s = SourceOf(e) /\ PublishFrom(e, s, q, r)
        /\ version[s][q].run = thread[e] \/ version[s][q].release # "NONE"
        /\ version[s][q].release \in {"NONE", "APPLIED"} /\ ~options[version[s][q].run].dry
  BY PublishesRow
<1>3. /\ version' = [version EXCEPT ![s] = VersionsAfter(s, q, staging[r])] /\ staging[r] \in SUBSET Batch
      /\ FinishRun(e, "SUCCEEDED") /\ pc' = [pc EXCEPT ![e] = "PURGE"]
      /\ UNCHANGED <<bytes, seq, archived, staging, options>>
  BY <1>0, <1>2, Types DEF PublishFrom, Goto
<1>4. Touches(e, s, q)
  BY <1>2, <1>3, PublishTouches
<1>5. /\ thread' = thread /\ phase' = [phase EXCEPT ![e] = "FINISHED"]
      /\ \A p \in RunId \ {thread[e]} : run'[p] = run[p]
      /\ phase \in [Executor -> {"IDLE", "STARTING", "EXECUTING", "FINISHED"}]
      /\ pc \in [Executor -> Steps]
  BY <1>0, <1>1, <1>3 DEF FinishRun, PipelineTypeOK, TypeOK
<1>6. OnlyMoves(e) /\ phase[e] # "IDLE"
  <2>1. \A p \in RunId : run[p].status = "UNUSED" => run'[p].status = "UNUSED"
    BY <1>1, <1>5
  <2>2. pc' \in [Executor -> Steps] /\ pc'[e] = "PURGE" /\ phase'[e] = "FINISHED"
    BY <1>3, <1>5 DEF Steps
  <2>3. \A d \in Executor \ {e} : pc'[d] = pc[d] /\ phase'[d] = phase[d]
    BY <1>3, <1>5
  <2>4. /\ archived' \in [RunId -> Bytes \cup {NULL}] /\ staging' \in [RunId -> SUBSET Batch]
        /\ bytes' \in [Executor -> Bytes \cup {NULL}] /\ seq' \in [Executor -> 0..MaxVersions]
    BY <1>0, <1>3 DEF PipelineTypeOK
  <2> QED
    BY <1>0, <1>3, <1>5, <2>1, <2>2, <2>3, <2>4 DEF OnlyMoves
<1>7. StepInv(e)'
  BY <1>5 DEF StepInv
<1> QED
  BY <1>4, <1>6, <1>7, ExecutorStep

-----------------------------------------------------------------------------
\* The queue's invariants hold of the pipeline.
LEMMA QueueHolds == PipelineSpec => [](TypeOK /\ PoolInv)
  BY Implements, TypeCorrect, OneThreadPerRun, PoolOnlyAssumption, PTL DEF ImplementsQueue

\* The empty database satisfies the invariant.
LEMMA PipelineStarts == PipelineInit => PipelineInv
<1> SUFFICES ASSUME PipelineInit PROVE PipelineInv
  OBVIOUS
<1>0. /\ Init /\ options = [r \in RunId |-> NoOptions] /\ archived = [r \in RunId |-> NULL]
      /\ staging = [r \in RunId |-> {}] /\ version = [s \in Source |-> <<>>]
      /\ pc = [e \in Executor |-> "NONE"] /\ bytes = [e \in Executor |-> NULL] /\ seq = [e \in Executor |-> 0]
  BY DEF PipelineInit
<1>1. phase = [e \in Executor |-> "IDLE"] /\ run = [r \in RunId |-> UnusedRow]
  BY <1>0 DEF Init
<1>2. NoOptions \in RunOptions
  BY VersionsAssumption DEF NoOptions, RunOptions
<1>3. TypeOK
  BY <1>0 DEF Init, TypeOK, RunRow, UnusedRow, Active, Terminal
<1>4. <<>> \in Seq(VersionRow) /\ DOMAIN <<>> = {} /\ Len(<<>>) = 0
  BY EmptySeq
<1>5. PipelineTypeOK
  BY <1>0, <1>1, <1>2, <1>3, <1>4, VersionsAssumption DEF PipelineTypeOK, Steps
<1>6. VersionsInv
  BY <1>0, <1>4, VersionsAssumption DEF VersionsInv
<1>7. ReleaseInv /\ \A e \in Executor : StepInv(e)
  BY <1>1 DEF ReleaseInv, StepInv, UnusedRow
<1> QED
  BY <1>5, <1>6, <1>7 DEF PipelineInv

\* Every step of the pipeline keeps the invariant.
LEMMA PipelineKeeps ==
  ASSUME PipelineInv, PoolInv, TypeOK', [PipelineNext]_allvars
  PROVE  PipelineInv'
<1>1. CASE UNCHANGED allvars
  BY <1>1 DEF allvars, vars, ctx, data, PipelineInv, PipelineTypeOK, TypeOK, StepInv, SourceOf, VersionsInv,
              RowHolds, ReleaseInv
<1>2. ASSUME NEW e \in Executor, NotModified(e) PROVE PipelineInv'
  BY <1>2, NotModifiedKeeps
<1> QED
  BY <1>1, <1>2, QueueKeeps, ReclaimKeeps, StartKeeps, ArchiveKeeps, FetchKeeps, ValidateFileKeeps,
     PurgeStagingKeeps, EndKeeps, ValidateDataKeeps, FinishDryRunKeeps, PublishKeeps, CheckReleaseKeeps,
     StopKeeps, DecisionKeeps
  DEF PipelineNext

\* The rows of the pipeline's tables and what its executors hold in memory have their types.
THEOREM PipelineTypeCorrect == PipelineSpec => []PipelineTypeOK
<1>1. PipelineInv => PipelineTypeOK
  BY DEF PipelineInv
<1> QED
  BY <1>1, QueueHolds, PipelineStarts, PipelineKeeps, PTL DEF PipelineSpec

\* A version that was held is published only after the approval of its release, and a dry run never
\* publishes, however late an executor finishes and whatever is reclaimed and resumed meanwhile.
THEOREM PublishedAllowed == PipelineSpec => []PublishedWasAllowed
<1>1. PipelineInv => PublishedWasAllowed
  BY DEF PipelineInv, VersionsInv, RowHolds, PublishedWasAllowed
<1> QED
  BY <1>1, QueueHolds, PipelineStarts, PipelineKeeps, PTL DEF PipelineSpec

-----------------------------------------------------------------------------
(* Publications stand, whether or not heartbeats get through *)

\* A source has one published version.
OneListInForce == \A s \in Source : \A i, j \in Published(s) : i = j

\* A version that has content was published, and may have been superseded since.
ContentIsPublished ==
  \A s \in Source : \A i \in DOMAIN version[s] :
    version[s][i].content # {} => version[s][i].status \in {"PUBLISHED", "SUPERSEDED"}

\* What may become of a version: it keeps its run and its bytes, and once it is published, what was
\* counted and published, too; then it can only be superseded.
PublicationStep(v, w) ==
  /\ w.run = v.run /\ w.bytes = v.bytes
  /\ IsPublished(v) => w.content = v.content /\ w.count = v.count /\ w.status \in {v.status, "SUPERSEDED"}

\* No version is lost, and no publication is changed or withdrawn.
PublicationsStand ==
  [][\A s \in Source : \A i \in DOMAIN version[s] :
       i \in DOMAIN version'[s] /\ PublicationStep(version[s][i], version'[s][i])]_allvars

\* The list of a source is only ever replaced by a later one.
ListGoesForward ==
  [][\A s \in Source : \A i \in Published(s) : \E q \in Published(s)' : i <= q]_allvars

\* A step that publishes nothing.
Unpublished(v, w) ==
  /\ w.run = v.run /\ w.bytes = v.bytes /\ w.content = v.content
  /\ IsPublished(v) => w.count = v.count /\ w.status = v.status
  /\ ~IsPublished(v) => w.status # "PUBLISHED"

NoPublication ==
  \A s \in Source :
    /\ DOMAIN version[s] \subseteq DOMAIN version'[s]
    /\ \A i \in DOMAIN version[s] : Unpublished(version[s][i], version'[s][i])
    /\ \A i \in DOMAIN version'[s] \ DOMAIN version[s] :
         version'[s][i].status # "PUBLISHED" /\ version'[s][i].content = {}

\* A step that publishes version q of s, and supersedes what was published.
Publication(s, q) ==
  /\ q \in DOMAIN version[s] /\ DOMAIN version'[s] = DOMAIN version[s]
  /\ \A t \in Source \ {s} : version'[t] = version[t]
  /\ ~IsPublished(version[s][q])
  /\ version'[s][q].run = version[s][q].run /\ version'[s][q].bytes = version[s][q].bytes
  /\ version'[s][q].status = "PUBLISHED"
  /\ \A i \in Published(s) : i <= q
  /\ \A i \in DOMAIN version[s] \ {q} :
       LET v == version[s][i]
           w == version'[s][i]
       IN  /\ w.run = v.run /\ w.bytes = v.bytes /\ w.content = v.content /\ w.count = v.count
           /\ w.status \in {v.status, "SUPERSEDED"} /\ w.status # "PUBLISHED"

\* Either keeps one list in force and what was published.
LEMMA StandsOrMoves ==
  ASSUME OneListInForce, ContentIsPublished,
         NoPublication \/ \E s \in Source : \E q \in Nat : Publication(s, q),
         \A s \in Source : DOMAIN version[s] \subseteq Nat
  PROVE  /\ OneListInForce' /\ ContentIsPublished'
         /\ \A s \in Source : \A i \in DOMAIN version[s] :
              i \in DOMAIN version'[s] /\ PublicationStep(version[s][i], version'[s][i])
         /\ \A s \in Source : \A i \in Published(s) : \E q \in Published(s)' : i <= q
<1>1. CASE NoPublication
  <2>1. ASSUME NEW s \in Source
        PROVE  Published(s)' = Published(s)
    BY <1>1, <2>1 DEF NoPublication, Unpublished, Published, IsPublished
  <2>2. OneListInForce'
    BY <2>1 DEF OneListInForce
  <2>3. ContentIsPublished'
    BY <1>1 DEF NoPublication, Unpublished, ContentIsPublished, IsPublished
  <2>4. \A s \in Source : \A i \in DOMAIN version[s] :
          i \in DOMAIN version'[s] /\ PublicationStep(version[s][i], version'[s][i])
    BY <1>1 DEF NoPublication, Unpublished, PublicationStep
  <2>5. \A s \in Source : \A i \in Published(s) : i \in Published(s)' /\ i <= i
    BY <2>1 DEF Published
  <2> QED
    BY <2>2, <2>3, <2>4, <2>5
<1>2. ASSUME NEW s \in Source, NEW q \in Nat, Publication(s, q)
      PROVE  /\ OneListInForce' /\ ContentIsPublished'
             /\ \A t \in Source : \A i \in DOMAIN version[t] :
                  i \in DOMAIN version'[t] /\ PublicationStep(version[t][i], version'[t][i])
             /\ \A t \in Source : \A i \in Published(t) : \E p \in Published(t)' : i <= p
  <2>1. Published(s)' = {q} /\ \A i \in Published(s) : i <= q
    BY <1>2 DEF Publication, Published
  <2>2. \A t \in Source \ {s} : Published(t)' = Published(t) /\ version'[t] = version[t]
    BY <1>2 DEF Publication, Published
  <2>3. OneListInForce'
    BY <2>1, <2>2 DEF OneListInForce
  <2>4. ASSUME NEW t \in Source, NEW i \in DOMAIN version'[t], version'[t][i].content # {}
        PROVE  version'[t][i].status \in {"PUBLISHED", "SUPERSEDED"}
    <3>1. CASE t # s
      BY <2>2, <2>4, <3>1 DEF ContentIsPublished
    <3>2. CASE t = s /\ i = q
      BY <1>2, <3>2 DEF Publication
    <3>3. CASE t = s /\ i # q
      <4>1. /\ i \in DOMAIN version[s] /\ version'[s][i].content = version[s][i].content
            /\ version'[s][i].status \in {version[s][i].status, "SUPERSEDED"}
        BY <1>2, <2>4, <3>3 DEF Publication
      <4> QED
        BY <2>4, <3>3, <4>1 DEF ContentIsPublished
    <3> QED
      BY <3>1, <3>2, <3>3
  <2>5. ASSUME NEW t \in Source, NEW i \in DOMAIN version[t]
        PROVE  i \in DOMAIN version'[t] /\ PublicationStep(version[t][i], version'[t][i])
    <3>1. CASE t # s
      BY <2>2, <3>1 DEF PublicationStep
    <3>2. CASE t = s /\ i = q
      BY <1>2, <3>2 DEF Publication, PublicationStep
    <3>3. CASE t = s /\ i # q
      BY <1>2, <3>3 DEF Publication, PublicationStep
    <3> QED
      BY <3>1, <3>2, <3>3
  <2>6. ASSUME NEW t \in Source, NEW i \in Published(t) PROVE \E p \in Published(t)' : i <= p
    <3>1. CASE t # s
      <4>1. i \in Published(t)' /\ i <= i
        BY <2>2, <3>1 DEF Published
      <4> QED
        BY <4>1
    <3>2. CASE t = s
      BY <2>1, <3>2
    <3> QED
      BY <3>1, <3>2
  <2> QED
    BY <2>3, <2>4, <2>5, <2>6 DEF ContentIsPublished
<1> QED
  BY <1>1, <1>2

\* A step that writes to one version that is not published, and does not publish it.
LEMMA WritesUnpublished ==
  ASSUME PipelineTypeOK, NEW s \in Source, NEW q \in DOMAIN version[s], NEW row \in VersionRow,
         Unpublished(version[s][q], row), version' = [version EXCEPT ![s][q] = row]
  PROVE  NoPublication
<1>1. /\ version'[s][q] = row
      /\ \A t \in Source : /\ DOMAIN version'[t] = DOMAIN version[t]
                           /\ \A i \in DOMAIN version[t] : (t = s /\ i = q) \/ version'[t][i] = version[t][i]
  BY SetRow
<1>2. ASSUME NEW t \in Source, NEW i \in DOMAIN version[t] PROVE Unpublished(version[t][i], version'[t][i])
  <2>1. CASE t = s /\ i = q
    BY <1>1, <2>1
  <2>2. CASE ~(t = s /\ i = q)
    BY <1>1, <2>2 DEF Unpublished, IsPublished
  <2> QED
    BY <2>1, <2>2
<1> QED
  BY <1>1, <1>2 DEF NoPublication

\* The steps of an executor on its own version: what it validates, closes or rejects was not published.
LEMMA OwnStaysUnpublished ==
  ASSUME PipelineInv, PoolInv, NEW e \in Executor, phase[e] = "EXECUTING",
         \/ \E outcome \in {"PASS", "HOLD", "QUARANTINE"} : ValidateData(e, outcome)
         \/ FinishDryRun(e)
         \/ \E status \in {"REJECTED", "QUARANTINED"} : CloseOwnVersion(e, status)
  PROVE  NoPublication
<1> DEFINE s == SourceOf(e)
           v == version[s][seq[e]]
<1>1. ASSUME seq[e] # 0, NEW row, row \in VersionRow, row.run = v.run, row.bytes = v.bytes,
             row.content = v.content, row.status # "PUBLISHED",
             version' = [version EXCEPT ![s][seq[e]] = row]
      PROVE  NoPublication
  <2>1. s \in Source /\ seq[e] \in DOMAIN version[s] /\ Quiet(v) /\ PipelineTypeOK
    BY <1>1, OwnVersion DEF PipelineInv
  <2>2. Unpublished(v, row)
    BY <1>1, <2>1 DEF Unpublished, Quiet
  <2> QED
    BY <1>1, <2>1, <2>2, WritesUnpublished
<1>2. ASSUME NEW status \in {"REJECTED", "QUARANTINED"}, seq[e] # 0, SetStatus(s, seq[e], status)
      PROVE  NoPublication
  <2>1. v \in VersionRow
    BY <1>2, OwnVersion
  <2>2. PICK row : row = [v EXCEPT !.status = status]
    OBVIOUS
  <2>3. /\ row \in VersionRow /\ row.run = v.run /\ row.bytes = v.bytes /\ row.content = v.content
        /\ row.status = status
    BY <2>1, <2>2 DEF VersionRow
  <2>4. version' = [version EXCEPT ![s][seq[e]] = row]
    BY <1>2, <2>2 DEF SetStatus
  <2> QED
    BY <1>1, <1>2, <2>3, <2>4
<1>3. PipelineTypeOK /\ StepInv(e)
  BY SMTT(40) DEF PipelineInv
<1>4. ASSUME NEW outcome \in {"PASS", "HOLD", "QUARANTINE"}, ValidateData(e, outcome) PROVE NoPublication
  <2>1. pc[e] = "VALIDATE_DATA" /\ seq[e] # 0
    BY <1>3, <1>4 DEF ValidateData, At, StepInv, BeforeVersion
  <2>2. v \in VersionRow
    BY <2>1, OwnVersion, SMTT(40)
  <2>3. PICK status \in {"VALIDATED", "HELD", "QUARANTINED"},
             release \in {"NONE", "PENDING", "APPLIED", "REJECTED", "EXPIRED"} :
          version' = [version EXCEPT ![s][seq[e]].status = status,
                             ![s][seq[e]].count = staging[thread[e]],
                             ![s][seq[e]].release = release]
    <3>1. v.release \in {"NONE", "PENDING", "APPLIED", "REJECTED", "EXPIRED"}
      BY <2>2 DEF VersionRow
    <3>2. /\ (CASE outcome = "PASS" -> "VALIDATED" [] outcome = "HOLD" -> "HELD"
                [] outcome = "QUARANTINE" -> "QUARANTINED") \in {"VALIDATED", "HELD", "QUARANTINED"}
      BY <1>4
    <3> QED
      BY <1>4, <3>1, <3>2 DEF ValidateData, RunOf
  <2>4. staging[thread[e]] \in SUBSET Batch
    BY <1>3, Types
  <2>5. PICK row : row = [v EXCEPT !.status = status, !.count = staging[thread[e]], !.release = release]
    OBVIOUS
  <2>6. /\ row \in VersionRow /\ row.run = v.run /\ row.bytes = v.bytes /\ row.content = v.content
        /\ row.status = status
    BY <2>2, <2>3, <2>4, <2>5 DEF VersionRow
  <2>7. version' = [version EXCEPT ![s][seq[e]] = row]
    BY <2>3, <2>5
  <2> QED
    BY <1>1, <2>1, <2>3, <2>6, <2>7
<1>5. CASE FinishDryRun(e)
  <2>1. pc[e] = "DRY_RUN" /\ seq[e] # 0 /\ SetStatus(s, seq[e], "REJECTED")
    BY <1>3, <1>5 DEF FinishDryRun, At, StepInv, BeforeVersion
  <2> QED
    BY <1>2, <2>1
<1>6. ASSUME NEW status \in {"REJECTED", "QUARANTINED"}, CloseOwnVersion(e, status) PROVE NoPublication
  <2>1. CASE UNCHANGED version
    BY <2>1 DEF NoPublication, Unpublished, IsPublished
  <2>2. CASE seq[e] # 0 /\ SetStatus(s, seq[e], status)
    BY <1>2, <2>2
  <2> QED
    BY <1>6, <2>1, <2>2 DEF CloseOwnVersion
<1> QED
  BY <1>4, <1>5, <1>6

\* A new version is not published.
LEMMA NewIsUnpublished ==
  ASSUME PipelineInv, PoolInv, NEW e \in Executor, NEW valid \in BOOLEAN, ValidateFile(e, valid)
  PROVE  NoPublication
<1>1. SourceOf(e) \in Source /\ PipelineTypeOK /\ version \in [Source -> Seq(VersionRow)]
  BY Mine DEF PipelineInv, PipelineTypeOK, ValidateFile, At
<1>2. PICK s, new :
        /\ s \in Source /\ version' = [version EXCEPT ![s] = Append(version[s], new)]
        /\ new.status # "PUBLISHED" /\ new.content = {}
  <2>1. PICK s : s = SourceOf(e)
    OBVIOUS
  <2> DEFINE row == [run |-> thread[e], bytes |-> bytes[e], status |-> "CANDIDATE", count |-> {},
                     release |-> "NONE", content |-> {}]
  <2>2. PICK new : new = IF valid THEN row ELSE [row EXCEPT !.status = "QUARANTINED"]
    OBVIOUS
  <2>3. new.status # "PUBLISHED" /\ new.content = {}
    BY <2>2
  <2>4. version' = [version EXCEPT ![s] = Append(version[s], new)]
    BY <2>1, <2>2 DEF ValidateFile, RunOf
  <2> HIDE DEF row
  <2> QED
    BY <1>1, <2>1, <2>3, <2>4
<1>3. /\ DOMAIN version'[s] = 1..Len(version[s]) + 1 /\ DOMAIN version[s] = 1..Len(version[s])
      /\ Len(version[s]) \in Nat
      /\ version'[s][Len(version[s]) + 1] = new
      /\ \A i \in 1..Len(version[s]) : version'[s][i] = version[s][i]
      /\ \A t \in Source \ {s} : version'[t] = version[t]
  <2>1. version[s] \in Seq(VersionRow) /\ version'[s] = Append(version[s], new)
    BY <1>1, <1>2
  <2>2. Len(version[s]) \in Nat /\ DOMAIN version[s] = 1..Len(version[s])
    BY <2>1, LenProperties
  <2> QED
    BY <1>1, <1>2, <2>1, <2>2
<1>4. ASSUME NEW t \in Source, NEW i \in DOMAIN version[t]
      PROVE  i \in DOMAIN version'[t] /\ version'[t][i] = version[t][i]
  BY <1>3
<1>5. ASSUME NEW t \in Source, NEW i \in DOMAIN version'[t] \ DOMAIN version[t]
      PROVE  version'[t][i] = new
  <2>1. t = s
    BY <1>3
  <2>2. i = Len(version[s]) + 1
    BY <1>3, <2>1
  <2> QED
    BY <1>3, <2>1, <2>2
<1> QED
  BY <1>2, <1>4, <1>5 DEF NoPublication, Unpublished, IsPublished

\* The reclaimer rejects open versions only, which have no content.
LEMMA ReclaimIsUnpublished ==
  ASSUME PipelineInv, ContentIsPublished, NEW r \in RunId, NEW child \in RunId \cup {NULL}, ReclaimRun(r, child)
  PROVE  NoPublication
<1>1. /\ version' = [s \in Source |-> RejectOpen(version[s], r)]
      /\ \A s \in Source : \A i \in DOMAIN version[s] : version[s][i] \in VersionRow
  BY Types DEF ReclaimRun, PipelineInv
<1>2. ASSUME NEW s \in Source
      PROVE  /\ DOMAIN version'[s] = DOMAIN version[s]
             /\ \A i \in DOMAIN version[s] : Unpublished(version[s][i], version'[s][i])
  <2>1. /\ DOMAIN version'[s] = DOMAIN version[s]
        /\ \A i \in DOMAIN version[s] :
             version'[s][i] = IF version[s][i].run = r /\ version[s][i].status \in {"CANDIDATE", "VALIDATED"}
                                THEN [version[s][i] EXCEPT !.status = "REJECTED"] ELSE version[s][i]
    BY <1>1 DEF RejectOpen
  <2>2. ASSUME NEW i \in DOMAIN version[s] PROVE Unpublished(version[s][i], version'[s][i])
    <3>1. PICK v, w : v = version[s][i] /\ w = [v EXCEPT !.status = "REJECTED"]
      OBVIOUS
    <3>2. /\ w.run = v.run /\ w.bytes = v.bytes /\ w.content = v.content /\ w.status = "REJECTED"
      BY <1>1, <3>1 DEF VersionRow
    <3>3. CASE v.run = r /\ v.status \in {"CANDIDATE", "VALIDATED"}
      <4>1. version'[s][i] = w
        BY <2>1, <3>1, <3>3
      <4>2. ~IsPublished(v)
        BY <3>1, <3>3 DEF ContentIsPublished, IsPublished
      <4> QED
        BY <3>1, <3>2, <4>1, <4>2 DEF Unpublished
    <3>4. CASE ~(v.run = r /\ v.status \in {"CANDIDATE", "VALIDATED"})
      <4>1. version'[s][i] = v
        BY <2>1, <3>1, <3>4
      <4> QED
        BY <3>1, <4>1 DEF Unpublished, IsPublished
    <3> QED
      BY <3>3, <3>4
  <2> QED
    BY <2>1, <2>2
<1> QED
  BY <1>2 DEF NoPublication

\* A reviewer's decision changes a proposal.
LEMMA DecisionIsUnpublished ==
  ASSUME PipelineInv, NEW s \in Source, NEW q \in Pending(s),
         (\E r \in RunId : ApproveRelease(s, q, r)) \/ RejectRelease(s, q)
  PROVE  NoPublication
<1>1. /\ PipelineTypeOK /\ q \in DOMAIN version[s] /\ version[s][q] \in VersionRow
  BY Types DEF PipelineInv, Pending
<1>2. PICK release \in {"APPLIED", "REJECTED"} : version' = [version EXCEPT ![s][q].release = release]
  BY DEF ApproveRelease, RejectRelease
<1>3. PICK row : row = [version[s][q] EXCEPT !.release = release]
  OBVIOUS
<1>4. /\ row \in VersionRow /\ row.run = version[s][q].run /\ row.bytes = version[s][q].bytes
      /\ row.content = version[s][q].content /\ row.count = version[s][q].count
      /\ row.status = version[s][q].status
  BY <1>1, <1>3 DEF VersionRow
<1>5. Unpublished(version[s][q], row)
  BY <1>4 DEF Unpublished, IsPublished
<1>6. version' = [version EXCEPT ![s][q] = row]
  BY <1>2, <1>3
<1> QED
  BY <1>1, <1>4, <1>5, <1>6, WritesUnpublished

\* A publication replaces what is published by a version that never was, and is not older.
LEMMA Publishes ==
  ASSUME PipelineInv, PoolInv, ContentIsPublished, NEW e \in Executor, DiffPublish(e) \/ Release(e)
  PROVE  \E s \in Source : \E q \in Nat : Publication(s, q)
<1>1. PICK s \in Source, q \in DOMAIN version[SourceOf(e)], r \in RunId :
        s = SourceOf(e) /\ PublishFrom(e, s, q, r)
  BY PublishesRow
<1>2. /\ MayPublish(s, q) /\ version' = [version EXCEPT ![s] = VersionsAfter(s, q, staging[r])]
      /\ version \in [Source -> Seq(VersionRow)] /\ q \in DOMAIN version[s] /\ DOMAIN version[s] \subseteq Nat
      /\ \A i \in DOMAIN version[s] : version[s][i] \in VersionRow
  BY <1>1, Types DEF PublishFrom, PipelineInv, PipelineTypeOK
<1>3. /\ version'[s] = VersionsAfter(s, q, staging[r]) /\ DOMAIN version'[s] = DOMAIN version[s]
      /\ \A t \in Source \ {s} : version'[t] = version[t]
  BY <1>2 DEF VersionsAfter
<1>4. ~IsPublished(version[s][q]) /\ \A i \in Published(s) : i <= q
  BY <1>2 DEF MayPublish, ContentIsPublished, IsPublished, Published
<1>5. /\ version'[s][q].run = version[s][q].run /\ version'[s][q].bytes = version[s][q].bytes
      /\ version'[s][q].status = "PUBLISHED"
  <2>1. PICK row : row = [version[s][q] EXCEPT !.status = "PUBLISHED", !.content = staging[r]]
    OBVIOUS
  <2>2. row.run = version[s][q].run /\ row.bytes = version[s][q].bytes /\ row.status = "PUBLISHED"
    BY <1>2, <2>1 DEF VersionRow
  <2>3. version'[s][q] = row
    BY <1>2, <1>3, <2>1 DEF VersionsAfter
  <2> QED
    BY <2>2, <2>3
<1>6. ASSUME NEW i \in DOMAIN version[s] \ {q}
      PROVE  /\ version'[s][i].run = version[s][i].run /\ version'[s][i].bytes = version[s][i].bytes
             /\ version'[s][i].content = version[s][i].content /\ version'[s][i].count = version[s][i].count
             /\ version'[s][i].status \in {version[s][i].status, "SUPERSEDED"}
             /\ version'[s][i].status # "PUBLISHED"
  <2>1. PICK v, status, release :
          /\ v = version[s][i]
          /\ status = IF v.status = "PUBLISHED" \/ (v.status = "HELD" /\ i < q) THEN "SUPERSEDED" ELSE v.status
          /\ release = IF v.release = "PENDING" THEN "EXPIRED" ELSE v.release
    OBVIOUS
  <2>2. version'[s][i] = [v EXCEPT !.status = status, !.release = release]
    BY <1>3, <2>1 DEF VersionsAfter
  <2>3. v \in VersionRow
    BY <1>2, <2>1
  <2>4. PICK w : w = [v EXCEPT !.status = status, !.release = release]
    OBVIOUS
  <2>5. /\ w.run = v.run /\ w.bytes = v.bytes /\ w.content = v.content /\ w.count = v.count
        /\ w.status = status
    BY <2>3, <2>4 DEF VersionRow
  <2> QED
    BY <2>1, <2>2, <2>4, <2>5
<1>7. Publication(s, q)
  BY <1>2, <1>3, <1>4, <1>5, <1>6 DEF Publication
<1> QED
  BY <1>2, <1>7

\* Every step of the pipeline publishes one version or none.
LEMMA PublishesOneOrNone ==
  ASSUME PipelineInv, PoolInv, ContentIsPublished, [PipelineNext]_allvars
  PROVE  NoPublication \/ \E s \in Source : \E q \in Nat : Publication(s, q)
<1>1. UNCHANGED version => NoPublication
  BY DEF NoPublication, Unpublished, IsPublished
<1>2. QueueStep \/ UNCHANGED allvars => UNCHANGED version
  BY DEF QueueStep, RequestRun, StartsExecuting, data, allvars
<1>3. ASSUME NEW e \in Executor,
             \/ Start(e) \/ NotModified(e) \/ Archive(e) \/ PurgeStaging(e) \/ Copy(e)
             \/ CheckRelease(e) \/ Purge(e) \/ PurgeFails(e) \/ Returns(e)
             \/ \E b \in Bytes : Fetch(e, b)
      PROVE  UNCHANGED version
  BY <1>3 DEF Start, NotModified, Archive, PurgeStaging, Copy, CheckRelease, Purge, PurgeFails, Returns,
              Fetch, data
<1>4. ASSUME NEW e \in Executor,
             ParseFails(e) \/ Cancelled(e) \/ Fails(e)
      PROVE  NoPublication
  <2>1. phase[e] = "EXECUTING" /\ \E status \in {"REJECTED", "QUARANTINED"} : CloseOwnVersion(e, status)
    BY <1>4 DEF ParseFails, Cancelled, Fails, At
  <2> QED
    BY <2>1, OwnStaysUnpublished
<1>5. ASSUME NEW e \in Executor,
             FinishDryRun(e) \/ \E outcome \in {"PASS", "HOLD", "QUARANTINE"} : ValidateData(e, outcome)
      PROVE  NoPublication
  <2>1. phase[e] = "EXECUTING"
    BY <1>5 DEF FinishDryRun, ValidateData, At
  <2> QED
    BY <1>5, <2>1, OwnStaysUnpublished, SMTT(40)
<1>6. ASSUME NEW s \in Source, NEW q \in Pending(s),
             RejectRelease(s, q) \/ \E r \in RunId : ApproveRelease(s, q, r)
      PROVE  NoPublication
  BY <1>6, DecisionIsUnpublished
<1> QED
  BY <1>1, <1>2, <1>3, <1>4, <1>5, <1>6, NewIsUnpublished, ReclaimIsUnpublished, Publishes DEF PipelineNext

\* One list is in force and what has content was published, in every state.
LEMMA ListsHold == PipelineSpec => [](PipelineInv /\ PoolInv /\ OneListInForce /\ ContentIsPublished)
<1>1. PipelineInit => OneListInForce /\ ContentIsPublished
  <2>1. ASSUME PipelineInit, NEW s \in Source PROVE version[s] = <<>> /\ DOMAIN version[s] = {}
    BY <2>1 DEF PipelineInit
  <2> QED
    BY <2>1 DEF OneListInForce, ContentIsPublished, Published
<1>2. ASSUME PipelineInv, PoolInv, OneListInForce, ContentIsPublished, [PipelineNext]_allvars
      PROVE  OneListInForce' /\ ContentIsPublished'
  <2>1. \A s \in Source : DOMAIN version[s] \subseteq Nat
    BY <1>2, Types DEF PipelineInv
  <2> QED
    BY <1>2, <2>1, PublishesOneOrNone, StandsOrMoves
<1> QED
  BY <1>1, <1>2, QueueHolds, PipelineStarts, PipelineKeeps, PTL DEF PipelineSpec

\* One step, for both theorems.
LEMMA ListsMove ==
  ASSUME PipelineInv, PoolInv, OneListInForce, ContentIsPublished, [PipelineNext]_allvars
  PROVE  /\ [\A s \in Source : \A i \in DOMAIN version[s] :
               i \in DOMAIN version'[s] /\ PublicationStep(version[s][i], version'[s][i])]_allvars
         /\ [\A s \in Source : \A i \in Published(s) : \E q \in Published(s)' : i <= q]_allvars
<1>1. \A s \in Source : DOMAIN version[s] \subseteq Nat
  BY Types DEF PipelineInv
<1> QED
  BY <1>1, PublishesOneOrNone, StandsOrMoves

\* A source never has two published versions, and whatever executors do late, the list in force is
\* only ever replaced by a later one: publish_version refuses a version older than a published one.
THEOREM OneListMovesForward == PipelineSpec => []OneListInForce /\ ListGoesForward
<1>1. PipelineSpec => []OneListInForce
  BY ListsHold, PTL
<1>2. PipelineInv /\ PoolInv /\ OneListInForce /\ ContentIsPublished /\ [PipelineNext]_allvars
        => [\A s \in Source : \A i \in Published(s) : \E q \in Published(s)' : i <= q]_allvars
  BY ListsMove
<1>3. PipelineSpec => ListGoesForward
  BY <1>2, ListsHold, PTL DEF PipelineSpec, ListGoesForward
<1> QED
  BY <1>1, <1>3

\* No step changes what was published or the record of it: neither an executor that lost its run, a
\* crash, a resumption nor a reviewer.
THEOREM PublicationsAreFinal == PipelineSpec => PublicationsStand
<1>1. PipelineInv /\ PoolInv /\ OneListInForce /\ ContentIsPublished /\ [PipelineNext]_allvars
        => [\A s \in Source : \A i \in DOMAIN version[s] :
              i \in DOMAIN version'[s] /\ PublicationStep(version[s][i], version'[s][i])]_allvars
  BY ListsMove
<1> QED
  BY <1>1, ListsHold, PTL DEF PipelineSpec, PublicationsStand

-----------------------------------------------------------------------------
(* What holds of the pipeline when heartbeats get through *)

\* A version agrees with the status of its run and with what is still staged under it, and what was
\* counted and published is the whole file.
RowAgrees(v, status, staged) ==
  /\ v.status \in {"CANDIDATE", "VALIDATED"} => status = "RUNNING"
  /\ v.status = "HELD" => v.count = Batch
  /\ IsPublished(v) => v.content = Batch /\ v.count = Batch
  /\ IsPublished(v) /\ v.release = "NONE" => status = "SUCCEEDED" \/ (status = "FAILED" /\ staged # {})
  /\ v.release # "NONE" => status = "HELD"
  /\ status = "HELD" => v.status \in {"HELD", "PUBLISHED", "SUPERSEDED"} /\ v.release # "NONE"
  /\ status = "QUARANTINED" => v.status = "QUARANTINED"
  /\ status = "SUCCEEDED" => IsPublished(v) /\ v.release = "NONE"
  /\ status \in {"CANCELLED", "DRY_RUN_OK"} => v.status = "REJECTED"

Agrees(v) == RowAgrees(v, run[v.run].status, staging[v.run])

AgreeInv == \A s \in Source : \A q \in DOMAIN version[s] : Agrees(version[s][q])

\* The version an executor is asked to release.
Released(e) == version[SourceOf(e)][options[thread[e]].release]

\* What an executor finds at its step: its version still open, and staged what it staged itself, or
\* for a release what was counted.  After a publish its run says so until the purge, and what it staged
\* is still there.
WorkInv(e) ==
  /\ phase[e] = "EXECUTING" =>
       /\ pc[e] \in {"PARSE", "COPY1", "COPY2", "VALIDATE_DATA"} => version[SourceOf(e)][seq[e]].status = "CANDIDATE"
       /\ pc[e] = "DIFF_PUBLISH" => /\ version[SourceOf(e)][seq[e]].status = "VALIDATED"
                                    /\ version[SourceOf(e)][seq[e]].count = Batch
       /\ pc[e] = "COPY1" => staging[thread[e]] = {}
       /\ pc[e] = "COPY2" => staging[thread[e]] = {1}
       /\ pc[e] \in {"VALIDATE_DATA", "DIFF_PUBLISH"} => staging[thread[e]] = Batch
       /\ pc[e] = "RELEASE" /\ Released(e).status = "HELD" => staging[Released(e).run] = Batch
  /\ pc[e] = "PURGE" =>
       /\ phase[e] = "FINISHED" /\ run[thread[e]].status = "SUCCEEDED"
       /\ options[thread[e]].release = 0 => staging[thread[e]] = Batch
       /\ options[thread[e]].release # 0 => Released(e).status \in {"PUBLISHED", "SUPERSEDED"}

\* The inductive invariant, with that of the queue.
WholeInv == AgreeInv /\ \A e \in Executor : WorkInv(e)

\* No executor outside E works on run r, no version of r waits for a release that was approved, and r
\* has not failed: nobody outside E reads what is staged under r.
Spare(E, r) ==
  /\ \A d \in Executor \ E : phase[d] = "EXECUTING" \/ pc[d] = "PURGE" => thread[d] # r
  /\ run[r].status # "FAILED"
  /\ \A s \in Source : \A q \in DOMAIN version[s] :
       version[s][q].run = r /\ version[s][q].release = "APPLIED" => version[s][q].status # "HELD"

\* A version that is kept agrees with a run whose status stays.
LEMMA AgreesStays ==
  ASSUME NEW v, NEW w, Kept(v, w), Agrees(v), run'[v.run].status = run[v.run].status,
         staging'[v.run] = staging[v.run] \/ run[v.run].status # "FAILED"
  PROVE  RowAgrees(w, run'[w.run].status, staging'[w.run])
<1> DEFINE status == run[v.run].status
           staged == staging[v.run]
<1>0. RowAgrees(v, status, staged)
  BY DEF Agrees
<1>1. w.run = v.run /\ w.count = v.count /\ w.content = v.content /\ (w.release = "NONE" <=> v.release = "NONE")
  BY DEF Kept
<1>2. v.status = "PUBLISHED" => v.content = Batch
  BY <1>0 DEF RowAgrees, IsPublished
<1>3. Batch # {}
  BY DEF Batch
<1>4. run'[w.run].status = status /\ (staging'[w.run] = staged \/ status # "FAILED")
  BY <1>1
<1> HIDE DEF status, staged
<1>5. CASE w.status = v.status
  BY <1>0, <1>1, <1>4, <1>5 DEF RowAgrees, IsPublished
<1>6. CASE v.status \in {"PUBLISHED", "HELD"} /\ w.status = "SUPERSEDED"
  <2>1. IsPublished(w) <=> v.content # {}
    BY <1>1, <1>6 DEF IsPublished
  <2>2. IsPublished(w) => IsPublished(v)
    BY <2>1 DEF IsPublished
  <2>3. status \notin {"CANCELLED", "DRY_RUN_OK", "QUARANTINED"}
    BY <1>0, <1>6 DEF RowAgrees
  <2>4. status = "SUCCEEDED" => IsPublished(w) /\ w.release = "NONE"
    BY <1>0, <1>1, <1>2, <1>3, <2>1 DEF RowAgrees, IsPublished
  <2> QED
    BY <1>0, <1>1, <1>4, <1>6, <2>2, <2>3, <2>4 DEF RowAgrees
<1>7. CASE v.status \in {"CANDIDATE", "VALIDATED"} /\ run'[v.run].status = "ABANDONED"
  BY <1>0, <1>1, <1>4, <1>7 DEF RowAgrees
<1> QED
  BY <1>5, <1>6, <1>7 DEF Kept

\* The facts about a working executor that the lemmas below need.
LEMMA WorkingRun ==
  ASSUME PipelineInv, PoolInv, NEW d \in Executor, phase[d] = "EXECUTING" \/ (pc[d] = "PURGE" /\ phase[d] = "FINISHED")
  PROVE  /\ thread[d] \in RunId /\ Taken(thread[d]) /\ SourceOf(d) \in Source
         /\ options[thread[d]].release # 0 =>
              /\ options[thread[d]].release \in DOMAIN version[SourceOf(d)]
              /\ Released(d).release = "APPLIED" /\ Released(d).run \in RunId
              /\ Released(d).run # thread[d]
<1>1. PipelineTypeOK /\ phase[d] # "IDLE" /\ VersionsInv
  BY DEF PipelineInv
<1>2. thread[d] \in RunId /\ Taken(thread[d]) /\ SourceOf(d) \in Source /\ run[thread[d]].status # "UNUSED"
  BY <1>1, Mine
<1>3. ASSUME options[thread[d]].release # 0
      PROVE  /\ options[thread[d]].release \in DOMAIN version[SourceOf(d)]
             /\ Released(d).release = "APPLIED" /\ Released(d).run \in RunId
             /\ Released(d).run # thread[d]
  <2>1. options[thread[d]].release \in DOMAIN version[SourceOf(d)] /\ Released(d).release = "APPLIED"
    BY <1>2, <1>3 DEF PipelineInv, ReleaseInv, Released, SourceOf
  <2>2. Released(d).run \in RunId /\ RowHolds(SourceOf(d), Released(d), run, options)
    BY <1>1, <1>2, <2>1, Types DEF Released, VersionsInv
  <2>3. Released(d).run # thread[d]
    BY <1>3, <2>2 DEF RowHolds
  <2> QED
    BY <2>1, <2>2, <2>3
<1> QED
  BY <1>2, <1>3

\* What an executor finds stays true in a step of others that touches neither its version nor what
\* is staged for it.
LEMMA WorkerStays ==
  ASSUME PipelineInv, PoolInv, [PipelineNext]_allvars,
         NEW E \in SUBSET Executor, NEW d \in Executor \ E, WorkInv(d),
         thread'[d] = thread[d], phase'[d] = phase[d], pc'[d] = pc[d], seq'[d] = seq[d],
         phase[d] = "EXECUTING" => run'[thread[d]].status = "RUNNING",
         pc[d] = "PURGE" => run'[thread[d]].status = run[thread[d]].status,
         \A r \in RunId : staging'[r] = staging[r] \/ Spare(E, r),
         NEW s \in Source, NEW q, OthersKept(s, q),
         q \in DOMAIN version[s] =>
           \/ version[s][q].run # thread[d] /\ version[s][q].release = "NONE"
           \/ version[s][q].release = "APPLIED" /\ version'[s][q].status = "PUBLISHED"
  PROVE  WorkInv(d)'
<1> SUFFICES ASSUME phase[d] = "EXECUTING" \/ pc[d] = "PURGE" PROVE WorkInv(d)'
  BY DEF WorkInv
<1>0. PipelineTypeOK /\ TypeOK /\ [Next]_vars /\ StepInv(d) /\ (pc[d] = "PURGE" => phase[d] = "FINISHED")
  BY StepImplements DEF PipelineInv, PipelineTypeOK, WorkInv
<1>1. /\ thread[d] \in RunId /\ run[thread[d]].status # "UNUSED" /\ SourceOf(d) \in Source
      /\ options[thread[d]].release # 0 =>
              /\ options[thread[d]].release \in DOMAIN version[SourceOf(d)]
              /\ Released(d).release = "APPLIED" /\ Released(d).run \in RunId
  BY <1>0, WorkingRun DEF Taken
<1>2. SourceOf(d)' = SourceOf(d) /\ options'[thread[d]] = options[thread[d]]
  <2>1. run'[thread[d]].source = run[thread[d]].source
    BY <1>0, <1>1, RowsStay
  <2> QED
    BY <1>0, <1>1, <2>1, OptionsStay DEF SourceOf
<1>3. ASSUME options[thread[d]].release # 0
      PROVE  \/ Released(d)'.status = "PUBLISHED"
             \/ Kept(Released(d), Released(d)')
  <2> DEFINE t == SourceOf(d)
             p == options[thread[d]].release
  <2>1. p \in DOMAIN version[t] /\ version[t][p].release = "APPLIED" /\ t \in Source
    BY <1>1, <1>3 DEF Released
  <2>2. Released(d)' = version'[t][p] /\ Released(d) = version[t][p]
    BY <1>2 DEF Released
  <2>3. CASE t = s /\ p = q
    BY <2>1, <2>2, <2>3
  <2>4. CASE ~(t = s /\ p = q)
    <3>1. p \in DOMAIN version'[t]
      BY <2>1 DEF OthersKept
    <3> QED
      BY <2>1, <2>2, <2>4, <3>1 DEF OthersKept
  <2> QED
    BY <2>3, <2>4
<1>4. CASE phase[d] = "EXECUTING"
  <2>0. pc[d] # "PURGE"
    BY <1>0, <1>4, Types
  <2>1. staging'[thread[d]] = staging[thread[d]]
    BY <1>1, <1>4 DEF Spare
  <2>2. ASSUME pc[d] \in {"PARSE", "COPY1", "COPY2", "VALIDATE_DATA", "DIFF_PUBLISH"}
        PROVE  /\ version'[SourceOf(d)][seq[d]].status = version[SourceOf(d)][seq[d]].status
               /\ version'[SourceOf(d)][seq[d]].count = version[SourceOf(d)][seq[d]].count
    <3> DEFINE t == SourceOf(d)
               i == seq[d]
    <3>1. i \in DOMAIN version[t] /\ version[t][i].run = thread[d] /\ version[t][i].release = "NONE"
      BY <1>0, <1>4, <2>2 DEF StepInv, WithVersion, Quiet
    <3>2. i \in DOMAIN version'[t] /\ Kept(version[t][i], version'[t][i])
      BY <1>1, <3>1 DEF OthersKept
    <3>3. version[t][i].status \in {"CANDIDATE", "VALIDATED"}
      BY <1>4, <2>2 DEF WorkInv
    <3> QED
      BY <1>4, <3>1, <3>2, <3>3 DEF Kept
  <2>3. ASSUME pc[d] = "RELEASE", Released(d)'.status = "HELD"
        PROVE  staging'[Released(d)'.run] = Batch
    <3>1. options[thread[d]].release # 0
      BY <1>0, <1>4, <2>3 DEF StepInv
    <3>2. Released(d).status = "HELD" /\ Released(d)'.run = Released(d).run
      BY <1>3, <2>3, <3>1 DEF Kept
    <3>3. ~Spare(E, Released(d).run)
      BY <1>1, <3>1, <3>2 DEF Spare, Released
    <3> QED
      BY <1>1, <1>4, <2>3, <3>1, <3>2, <3>3 DEF WorkInv
  <2> QED
    BY <1>2, <1>4, <2>0, <2>1, <2>2, <2>3 DEF WorkInv
<1>5. CASE pc[d] = "PURGE"
  <2>1. phase[d] = "FINISHED" /\ run[thread[d]].status = "SUCCEEDED"
    BY <1>5 DEF WorkInv
  <2>2. ASSUME options[thread[d]].release # 0 PROVE Released(d)'.status \in {"PUBLISHED", "SUPERSEDED"}
    <3>1. Released(d).status \in {"PUBLISHED", "SUPERSEDED"}
      BY <1>5, <2>2 DEF WorkInv
    <3> QED
      BY <1>3, <2>2, <3>1 DEF Kept
  <2>3. staging'[thread[d]] = staging[thread[d]]
    BY <1>1, <1>5 DEF Spare
  <2> QED
    BY <1>2, <1>5, <2>1, <2>2, <2>3 DEF WorkInv
<1> QED
  BY <1>4, <1>5

\* What is to be shown of a step: that run m is the only one whose status changes, E the executors
\* that move, and the version at place q of s the only one that is inserted, validated, closed or
\* published.
LEMMA WorkStep ==
  ASSUME PipelineInv, PoolInv, ExecutorInv, ExecutorInv', WholeInv, [PipelineNext]_allvars,
         NEW E \in SUBSET Executor, NEW m,
         \A d \in Executor \ E : /\ thread'[d] = thread[d] /\ phase'[d] = phase[d]
                                 /\ pc'[d] = pc[d] /\ seq'[d] = seq[d]
                                 /\ phase[d] = "EXECUTING" \/ pc[d] = "PURGE" => thread[d] # m,
         \A e \in E : WorkInv(e)',
         \A r \in RunId \ {m} : Taken(r) => run'[r].status = run[r].status,
         \A r \in RunId : staging'[r] = staging[r] \/ Spare(E, r),
         NEW s \in Source, NEW q, OthersKept(s, q),
         q \in DOMAIN version[s] =>
           \/ version[s][q].run = m /\ version[s][q].release = "NONE"
           \/ version[s][q].release = "APPLIED" /\ version'[s][q].status = "PUBLISHED",
         q \in DOMAIN version'[s] => Agrees(version[s][q])',
         \/ run'[m].status = run[m].status
         \/ \A t \in Source : \A i \in DOMAIN version[t] : version[t][i].run = m => t = s /\ i = q
  PROVE  WholeInv'
<1>0. PipelineTypeOK /\ VersionsInv
  BY DEF PipelineInv
<1>1. ASSUME NEW d \in Executor PROVE WorkInv(d)'
  <2>1. CASE d \in E
    BY <2>1
  <2>2. CASE d \notin E
    <3> SUFFICES ASSUME phase[d] = "EXECUTING" \/ pc[d] = "PURGE" PROVE WorkInv(d)'
      BY <2>2 DEF WorkInv
    <3>1. WorkInv(d) /\ (pc[d] = "PURGE" => phase[d] = "FINISHED")
      BY DEF WholeInv, WorkInv
    <3>2. thread[d] \in RunId /\ Taken(thread[d]) /\ thread[d] # m
      BY <2>2, <3>1, WorkingRun
    <3>3. /\ thread'[d] = thread[d] /\ phase'[d] = phase[d] /\ pc'[d] = pc[d] /\ seq'[d] = seq[d]
          /\ run'[thread[d]].status = run[thread[d]].status
      BY <2>2, <3>2
    <3>4. phase[d] = "EXECUTING" => run[thread[d]].status = "RUNNING"
      BY DEF ExecutorInv, HoldsLease
    <3>5. q \in DOMAIN version[s] =>
            \/ version[s][q].run # thread[d] /\ version[s][q].release = "NONE"
            \/ version[s][q].release = "APPLIED" /\ version'[s][q].status = "PUBLISHED"
      BY <3>2
    <3> QED
      BY <2>2, <3>1, <3>3, <3>4, <3>5, WorkerStays
  <2> QED
    BY <2>1, <2>2
<1>2. ASSUME NEW t \in Source, NEW i \in DOMAIN version'[t]
      PROVE  Agrees(version[t][i])'
  <2>1. CASE t = s /\ i = q
    BY <2>1
  <2>2. CASE ~(t = s /\ i = q)
    <3> DEFINE v == version[t][i]
               w == version'[t][i]
    <3>1. i \in DOMAIN version[t] /\ Kept(v, w)
      BY <2>2 DEF OthersKept
    <3>2. Agrees(v)
      BY <3>1 DEF WholeInv, AgreeInv
    <3>3. v.run \in RunId /\ Taken(v.run)
      BY <1>0, <3>1, Types DEF VersionsInv, RowHolds, Taken
    <3>4. run'[v.run].status = run[v.run].status
      BY <2>2, <3>1, <3>3
    <3>5. staging'[v.run] = staging[v.run] \/ run[v.run].status # "FAILED"
      BY <3>3 DEF Spare
    <3> HIDE DEF v, w
    <3>6. RowAgrees(w, run'[w.run].status, staging'[w.run])
      BY <3>1, <3>2, <3>4, <3>5, AgreesStays
    <3> QED
      BY <3>6 DEF w, Agrees
  <2> QED
    BY <2>1, <2>2
<1>3. AgreeInv'
  BY <1>2 DEF AgreeInv
<1> QED
  BY <1>1, <1>3 DEF WholeInv

\* The only version of the run an executor works on is its own.
LEMMA OnlyOwnVersion ==
  ASSUME PipelineInv, PoolInv, NEW e \in Executor, phase[e] = "EXECUTING",
         NEW t \in Source, NEW i \in DOMAIN version[t], version[t][i].run = thread[e]
  PROVE  seq[e] # 0 /\ t = SourceOf(e) /\ i = seq[e]
<1>1. VersionsInv /\ StepInv(e)
  BY DEF PipelineInv
<1>2. seq[e] # 0
  BY <1>1 DEF StepInv
<1>3. t = SourceOf(e)
  BY <1>1 DEF VersionsInv, RowHolds, SourceOf
<1>4. seq[e] \in DOMAIN version[t] /\ version[t][seq[e]].run = thread[e]
  BY <1>2, <1>3, OwnVersion
<1> QED
  BY <1>1, <1>2, <1>3, <1>4 DEF VersionsInv

\* Nobody else reads what is staged under the run an executor works on or has published.
LEMMA OwnIsSpare ==
  ASSUME PipelineInv, PoolInv, WholeInv, NEW e \in Executor, phase[e] # "IDLE",
         run[thread[e]].status \in {"RUNNING", "SUCCEEDED"}
  PROVE  Spare({e}, thread[e])
<1>1. \A d \in Executor \ {e} : thread[d] # thread[e]
  BY Mine DEF PipelineInv
<1>2. ASSUME NEW t \in Source, NEW i \in DOMAIN version[t], version[t][i].run = thread[e]
      PROVE  version[t][i].release # "APPLIED"
  BY <1>2 DEF WholeInv, AgreeInv, Agrees, RowAgrees
<1> QED
  BY <1>1, <1>2 DEF Spare

\* What is to be shown of a step of executor e that touches at most the version at place q of s.
LEMMA ExecutorWorks ==
  ASSUME PipelineInv, PoolInv, ExecutorInv, ExecutorInv', WholeInv, [PipelineNext]_allvars,
         NEW e \in Executor, phase[e] # "IDLE",
         \A d \in Executor \ {e} : /\ thread'[d] = thread[d] /\ phase'[d] = phase[d]
                                   /\ pc'[d] = pc[d] /\ seq'[d] = seq[d],
         WorkInv(e)',
         \A r \in RunId \ {thread[e]} : run'[r] = run[r],
         \A r \in RunId : staging'[r] = staging[r] \/ Spare({e}, r),
         NEW s \in Source, NEW q, OthersKept(s, q),
         q \in DOMAIN version[s] =>
           \/ version[s][q].run = thread[e] /\ version[s][q].release = "NONE"
           \/ version[s][q].release = "APPLIED" /\ version'[s][q].status = "PUBLISHED",
         q \in DOMAIN version'[s] => Agrees(version[s][q])',
         \/ run'[thread[e]].status = run[thread[e]].status
         \/ \A t \in Source : \A i \in DOMAIN version[t] : version[t][i].run = thread[e] => t = s /\ i = q
  PROVE  WholeInv'
<1>1. \A d \in Executor \ {e} : thread[d] # thread[e]
  BY Mine DEF PipelineInv
<1>2. PICK E \in SUBSET Executor, m \in {thread[e]} : E = {e} /\ m = thread[e]
  OBVIOUS
<1>3. /\ \A d \in Executor \ E : /\ thread'[d] = thread[d] /\ phase'[d] = phase[d]
                                 /\ pc'[d] = pc[d] /\ seq'[d] = seq[d]
                                 /\ phase[d] = "EXECUTING" \/ pc[d] = "PURGE" => thread[d] # m
      /\ \A d \in E : WorkInv(d)'
  BY <1>1, <1>2
<1>4. /\ \A r \in RunId \ {m} : Taken(r) => run'[r].status = run[r].status
      /\ \A r \in RunId : staging'[r] = staging[r] \/ Spare(E, r)
  BY <1>2
<1>5. /\ q \in DOMAIN version[s] =>
           \/ version[s][q].run = m /\ version[s][q].release = "NONE"
           \/ version[s][q].release = "APPLIED" /\ version'[s][q].status = "PUBLISHED"
      /\ \/ run'[m].status = run[m].status
         \/ \A t \in Source : \A i \in DOMAIN version[t] : version[t][i].run = m => t = s /\ i = q
  BY <1>2
<1> QED
  BY <1>3, <1>4, <1>5, WorkStep, ZenonT(60)

\* A step that touches no version keeps them all.
LEMMA NoneTouched ==
  ASSUME PipelineInv, UNCHANGED version, NEW s \in Source
  PROVE  OthersKept(s, 0) /\ 0 \notin DOMAIN version[s] /\ 0 \notin DOMAIN version'[s]
<1>1. version \in [Source -> Seq(VersionRow)] /\ VersionsInv /\ \A t \in Source : DOMAIN version[t] = 1..Len(version[t])
  BY Types DEF PipelineInv, PipelineTypeOK
<1> QED
  BY <1>1 DEF OthersKept, Kept, VersionsInv

\* An executor that goes on with its run and leaves the versions alone.
LEMMA WorkGoesOn ==
  ASSUME PipelineInv, PoolInv, ExecutorInv, ExecutorInv', WholeInv, [PipelineNext]_allvars,
         NEW e \in Executor, phase[e] = "EXECUTING",
         UNCHANGED <<run, thread, phase, version>>,
         \A d \in Executor \ {e} : pc'[d] = pc[d] /\ seq'[d] = seq[d],
         \A r \in RunId \ {thread[e]} : staging'[r] = staging[r],
         WorkInv(e)'
  PROVE  WholeInv'
<1>1. SourceOf(e) \in Source
  BY Mine DEF PipelineInv
<1>2. PICK s \in Source : s = SourceOf(e)
  BY <1>1
<1>3. OthersKept(s, 0) /\ 0 \notin DOMAIN version[s] /\ 0 \notin DOMAIN version'[s]
  BY NoneTouched
<1>4. run[thread[e]].status = "RUNNING"
  BY DEF ExecutorInv, HoldsLease
<1>5. Spare({e}, thread[e])
  BY <1>4, OwnIsSpare
<1> QED
  BY <1>3, <1>5, ExecutorWorks

\* An executor whose run ends before it has a version.
LEMMA EndsWithoutVersion ==
  ASSUME PipelineInv, PoolInv, ExecutorInv, ExecutorInv', WholeInv, [PipelineNext]_allvars,
         NEW e \in Executor, NEW outcome, Finish(e, outcome), seq[e] = 0, UNCHANGED version,
         \A r \in RunId \ {thread[e]} : staging'[r] = staging[r]
  PROVE  WholeInv'
<1>0. PipelineTypeOK /\ phase[e] = "EXECUTING" /\ run[thread[e]].status = "RUNNING"
  BY DEF PipelineInv, Finish, FinishRun, ExecutorInv, HoldsLease
<1>1. PICK s \in Source : s = SourceOf(e)
  BY <1>0, Mine
<1>2. OthersKept(s, 0) /\ 0 \notin DOMAIN version[s] /\ 0 \notin DOMAIN version'[s]
  BY NoneTouched
<1>3. Spare({e}, thread[e])
  BY <1>0, OwnIsSpare
<1>4. /\ \A d \in Executor \ {e} : /\ thread'[d] = thread[d] /\ phase'[d] = phase[d]
                                   /\ pc'[d] = pc[d] /\ seq'[d] = seq[d]
      /\ WorkInv(e)'
      /\ \A r \in RunId \ {thread[e]} : run'[r] = run[r]
  BY <1>0 DEF PipelineTypeOK, TypeOK, Finish, FinishRun, StopsExecuting, WorkInv
<1>5. \A t \in Source : \A i \in DOMAIN version[t] : version[t][i].run # thread[e]
  BY <1>0, OnlyOwnVersion
<1> QED
  BY <1>0, <1>2, <1>3, <1>4, <1>5, ExecutorWorks

\* An executor whose run ends with a version of its own.
LEMMA EndsWithVersion ==
  ASSUME PipelineInv, PoolInv, ExecutorInv, ExecutorInv', WholeInv, [PipelineNext]_allvars,
         NEW e \in Executor, NEW outcome, Finish(e, outcome), seq[e] # 0,
         OthersKept(SourceOf(e), seq[e]),
         NEW w, version'[SourceOf(e)][seq[e]] = w, w.run = thread[e], RowAgrees(w, outcome, {}),
         \A r \in RunId \ {thread[e]} : staging'[r] = staging[r]
  PROVE  WholeInv'
<1>0. PipelineTypeOK /\ phase[e] = "EXECUTING" /\ run[thread[e]].status = "RUNNING" /\ thread[e] \in RunId
  BY Types DEF PipelineInv, Finish, FinishRun, ExecutorInv, HoldsLease
<1>1. PICK s \in Source : s = SourceOf(e)
  BY <1>0, Mine
<1>2. PICK q \in DOMAIN version[s] : q = seq[e] /\ version[s][q].run = thread[e] /\ version[s][q].release = "NONE"
  BY <1>0, <1>1, OwnVersion DEF Quiet
<1>3. OthersKept(s, q) /\ version'[s][q] = w
  BY <1>1, <1>2
<1>4. Spare({e}, thread[e])
  BY <1>0, OwnIsSpare
<1>5. /\ \A d \in Executor \ {e} : /\ thread'[d] = thread[d] /\ phase'[d] = phase[d]
                                   /\ pc'[d] = pc[d] /\ seq'[d] = seq[d]
      /\ WorkInv(e)'
      /\ \A r \in RunId \ {thread[e]} : run'[r] = run[r]
      /\ run'[thread[e]].status = outcome
  <2>1. run[thread[e]] \in RunRow /\ run \in [RunId -> RunRow]
    BY <1>0 DEF PipelineTypeOK, TypeOK
  <2>2. run'[thread[e]].status = outcome
    BY <1>0, <2>1 DEF Finish, FinishRun, RunRow
  <2> QED
    BY <1>0, <2>2 DEF PipelineTypeOK, TypeOK, Finish, FinishRun, StopsExecuting, WorkInv
<1>6. \A t \in Source : \A i \in DOMAIN version[t] : version[t][i].run = thread[e] => t = s /\ i = q
  BY <1>0, <1>1, <1>2, OnlyOwnVersion
<1>7. Agrees(version[s][q])'
  BY <1>3, <1>5 DEF Agrees, RowAgrees
<1>8. phase[e] # "IDLE" /\ \A r \in RunId : staging'[r] = staging[r] \/ Spare({e}, r)
  BY <1>0, <1>4
<1>9. version[s][q].run = thread[e] /\ version[s][q].release = "NONE"
  BY <1>2
<1> QED
  BY <1>3, <1>5, <1>6, <1>7, <1>8, <1>9, ExecutorWorks

-----------------------------------------------------------------------------
\* The steps before a run has its version.
LEMMA EarlyWorks ==
  ASSUME PipelineInv, PoolInv, ExecutorInv, ExecutorInv', WholeInv, [PipelineNext]_allvars, NEW e \in Executor,
         Start(e) \/ NotModified(e) \/ Archive(e) \/ CheckRelease(e) \/ \E b \in Bytes : Fetch(e, b)
  PROVE  WholeInv'
<1>0. /\ PipelineTypeOK /\ StepInv(e) /\ pc \in [Executor -> Steps] /\ phase[e] = "EXECUTING"
      /\ UNCHANGED <<staging, version, options>> /\ pc[e] \in BeforeVersion
  BY DEF PipelineInv, PipelineTypeOK, Start, NotModified, Archive, CheckRelease, Fetch, At, data, BeforeVersion
<1>1. seq[e] = 0
  BY <1>0 DEF StepInv
<1>2. \/ \E outcome : Finish(e, outcome)
      \/ /\ UNCHANGED <<vars, seq>>
         /\ \E step \in {"FETCH", "ARCHIVE", "VALIDATE_FILE"} : pc' = [pc EXCEPT ![e] = step]
      \/ /\ UNCHANGED <<vars, seq>> /\ pc[e] = "START" /\ pc' = [pc EXCEPT ![e] = "RELEASE"]
         /\ options[thread[e]].release # 0 /\ Released(e).status = "HELD"
         /\ staging[Released(e).run] = Released(e).count
  <2>1. CASE Start(e)
    BY <2>1 DEF Start, Goto
  <2>2. CASE NotModified(e)
    BY <2>2 DEF NotModified
  <2>3. CASE Archive(e)
    BY <2>3 DEF Archive, Goto
  <2>4. CASE CheckRelease(e)
    BY <2>4 DEF CheckRelease, Goto, At, RunOf, Released
  <2>5. CASE \E b \in Bytes : Fetch(e, b)
    BY <2>5 DEF Fetch, Goto
  <2> QED
    BY <2>1, <2>2, <2>3, <2>4, <2>5
<1>3. ASSUME NEW outcome, Finish(e, outcome) PROVE WholeInv'
  BY <1>0, <1>1, <1>3, EndsWithoutVersion
<1>4. CASE /\ UNCHANGED <<vars, seq>>
           /\ \E step \in {"FETCH", "ARCHIVE", "VALIDATE_FILE"} : pc' = [pc EXCEPT ![e] = step]
  <2>1. UNCHANGED <<run, thread, phase>> /\ (\A d \in Executor \ {e} : pc'[d] = pc[d] /\ seq'[d] = seq[d])
        /\ pc'[e] \in {"FETCH", "ARCHIVE", "VALIDATE_FILE"}
    BY <1>0, <1>4 DEF vars
  <2>2. WorkInv(e)'
    BY <2>1 DEF WorkInv
  <2> QED
    BY <1>0, <2>1, <2>2, WorkGoesOn
<1>5. CASE /\ UNCHANGED <<vars, seq>> /\ pc[e] = "START" /\ pc' = [pc EXCEPT ![e] = "RELEASE"]
           /\ options[thread[e]].release # 0 /\ Released(e).status = "HELD"
           /\ staging[Released(e).run] = Released(e).count
  <2>1. UNCHANGED <<run, thread, phase>> /\ (\A d \in Executor \ {e} : pc'[d] = pc[d] /\ seq'[d] = seq[d])
        /\ pc'[e] = "RELEASE"
    BY <1>0, <1>5, SMTT(40) DEF vars
  <2>2. Released(e).count = Batch
    <3>1. options[thread[e]].release \in DOMAIN version[SourceOf(e)] /\ SourceOf(e) \in Source
      BY <1>0, <1>5, WorkingRun
    <3> QED
      BY <1>5, <3>1 DEF Released, WholeInv, AgreeInv, Agrees, RowAgrees
  <2>3. Released(e)' = Released(e)
    BY <1>0, <2>1 DEF Released, SourceOf
  <2>4. WorkInv(e)'
    BY <1>0, <1>5, <2>1, <2>2, <2>3 DEF WorkInv
  <2> QED
    BY <1>0, <2>1, <2>4, WorkGoesOn
<1> QED
  BY <1>2, <1>3, <1>4, <1>5

\* The staging of the file: each batch finds the one before it and nothing else.
LEMMA StagingWorks ==
  ASSUME PipelineInv, PoolInv, ExecutorInv, ExecutorInv', WholeInv, [PipelineNext]_allvars, NEW e \in Executor,
         PurgeStaging(e) \/ Copy(e)
  PROVE  WholeInv'
<1>0. /\ pc \in [Executor -> Steps] /\ staging \in [RunId -> SUBSET Batch] /\ phase[e] = "EXECUTING"
      /\ UNCHANGED <<run, thread, phase, seq, version, options>> /\ thread[e] \in RunId /\ WorkInv(e)
      /\ pc[e] \in {"PARSE", "COPY1", "COPY2"}
  <2>1. phase[e] = "EXECUTING" /\ UNCHANGED <<run, thread, phase, seq, version, options>>
        /\ pc[e] \in {"PARSE", "COPY1", "COPY2"}
    BY DEF PurgeStaging, Copy, At, vars
  <2> QED
    BY <2>1, Types DEF PipelineInv, PipelineTypeOK, WholeInv
<1>1. version[SourceOf(e)][seq[e]].status = "CANDIDATE"
  BY <1>0 DEF WorkInv
<1>2. \/ pc' = [pc EXCEPT ![e] = "COPY1"] /\ staging' = [staging EXCEPT ![thread[e]] = {}]
      \/ pc' = [pc EXCEPT ![e] = "COPY2"] /\ staging' = [staging EXCEPT ![thread[e]] = {1}]
      \/ pc' = [pc EXCEPT ![e] = "VALIDATE_DATA"] /\ staging' = [staging EXCEPT ![thread[e]] = Batch]
  <2>1. CASE PurgeStaging(e)
    BY <2>1 DEF PurgeStaging, Goto, RunOf
  <2>2. CASE pc[e] = "COPY1" /\ Copy(e)
    <3>1. staging[thread[e]] = {}
      BY <1>0, <2>2 DEF WorkInv
    <3>2. pc' = [pc EXCEPT ![e] = "COPY2"] /\ staging' = [staging EXCEPT ![thread[e]] = staging[thread[e]] \cup {1}]
      BY <2>2 DEF Copy, Goto, RunOf, At
    <3> QED
      BY <3>1, <3>2
  <2>3. CASE pc[e] = "COPY2" /\ Copy(e)
    <3>1. staging[thread[e]] = {1}
      BY <1>0, <2>3 DEF WorkInv
    <3>2. pc' = [pc EXCEPT ![e] = "VALIDATE_DATA"]
          /\ staging' = [staging EXCEPT ![thread[e]] = staging[thread[e]] \cup {2}]
      BY <2>3 DEF Copy, Goto, RunOf, At
    <3>3. {1} \cup {2} = Batch
      BY DEF Batch
    <3> QED
      BY <3>1, <3>2, <3>3
  <2> QED
    BY <2>1, <2>2, <2>3 DEF Copy, At
<1>3. /\ \A d \in Executor \ {e} : pc'[d] = pc[d]
      /\ \A r \in RunId \ {thread[e]} : staging'[r] = staging[r]
      /\ \/ pc'[e] = "COPY1" /\ staging'[thread[e]] = {}
         \/ pc'[e] = "COPY2" /\ staging'[thread[e]] = {1}
         \/ pc'[e] = "VALIDATE_DATA" /\ staging'[thread[e]] = Batch
  BY <1>0, <1>2
<1>4. WorkInv(e)'
  BY <1>0, <1>1, <1>3 DEF WorkInv, SourceOf
<1> QED
  BY <1>0, <1>3, <1>4, WorkGoesOn

\* The return of an executor, and the death of its process.
LEMMA LeaveWorks ==
  ASSUME PipelineInv, PoolInv, ExecutorInv, ExecutorInv', WholeInv, [PipelineNext]_allvars, NEW e \in Executor,
         Returns(e) \/ (Crash(e) /\ StopsExecuting(e) /\ UNCHANGED data)
  PROVE  WholeInv'
<1>0. /\ PipelineTypeOK /\ phase[e] # "IDLE" /\ UNCHANGED <<run, staging, version>>
      /\ thread' = [thread EXCEPT ![e] = NULL] /\ phase' = [phase EXCEPT ![e] = "IDLE"] /\ StopsExecuting(e)
  BY DEF PipelineInv, Returns, Return, Crash, Leave, data
<1>1. PICK s \in Source : s = SourceOf(e)
  BY <1>0, Mine
<1>2. OthersKept(s, 0) /\ 0 \notin DOMAIN version[s] /\ 0 \notin DOMAIN version'[s]
  BY <1>0, NoneTouched
<1>3. /\ \A d \in Executor \ {e} : /\ thread'[d] = thread[d] /\ phase'[d] = phase[d]
                                   /\ pc'[d] = pc[d] /\ seq'[d] = seq[d]
      /\ WorkInv(e)'
  BY <1>0 DEF PipelineTypeOK, TypeOK, StopsExecuting, WorkInv
<1> QED
  BY <1>0, <1>2, <1>3, ExecutorWorks

\* The purge after a publish deletes what nobody reads any more, and when it fails the run that has
\* published says FAILED.
LEMMA PurgeWorks ==
  ASSUME PipelineInv, PoolInv, ExecutorInv, ExecutorInv', WholeInv, [PipelineNext]_allvars, NEW e \in Executor,
         Purge(e) \/ PurgeFails(e)
  PROVE  WholeInv'
<1>0. /\ PipelineTypeOK /\ VersionsInv /\ phase[e] = "FINISHED" /\ pc[e] = "PURGE" /\ StopsExecuting(e)
      /\ UNCHANGED <<thread, phase, version, options>>
      /\ run[thread[e]].status = "SUCCEEDED"
      /\ staging \in [RunId -> SUBSET Batch]
  <2>1. /\ phase[e] = "FINISHED" /\ pc[e] = "PURGE" /\ StopsExecuting(e)
        /\ UNCHANGED <<thread, phase, version, options>>
    BY DEF Purge, PurgeFails, FailAfterFinish, vars, data
  <2> QED
    BY <2>1 DEF PipelineInv, PipelineTypeOK, WholeInv, WorkInv
<1>1. PICK s \in Source : s = SourceOf(e)
  BY <1>0, Mine
<1>2. OthersKept(s, 0) /\ 0 \notin DOMAIN version[s] /\ 0 \notin DOMAIN version'[s]
  BY <1>0, NoneTouched
<1>3. /\ \A d \in Executor \ {e} : /\ thread'[d] = thread[d] /\ phase'[d] = phase[d]
                                   /\ pc'[d] = pc[d] /\ seq'[d] = seq[d]
      /\ WorkInv(e)' /\ phase[e] # "IDLE" /\ thread[e] \in RunId
  BY <1>0, Types, Mine DEF PipelineTypeOK, TypeOK, StopsExecuting, WorkInv
<1>4. Spare({e}, thread[e])
  BY <1>0, OwnIsSpare
<1>5. CASE Purge(e)
  <2> DEFINE q == options[thread[e]].release
             from == IF q = 0 THEN thread[e] ELSE Released(e).run
  <2>1. run' = run /\ staging' = [staging EXCEPT ![from] = {}]
    BY <1>5 DEF Purge, RunOf, vars, Released
  <2>2. Spare({e}, from)
    <3>1. CASE q = 0
      BY <1>4, <3>1
    <3>2. CASE q # 0
      <4> DEFINE v == Released(e)
      <4>1. q \in DOMAIN version[s] /\ v.release = "APPLIED" /\ v.run \in RunId /\ v = version[s][q]
        BY <1>0, <1>1, <3>2, WorkingRun DEF Released
      <4>2. v.status \in {"PUBLISHED", "SUPERSEDED"}
        BY <1>0, <3>2, SMTT(40) DEF WholeInv, WorkInv
      <4>3. run[v.run].status = "HELD" /\ run[v.run].source = s
        BY <1>0, <4>1 DEF WholeInv, AgreeInv, Agrees, RowAgrees, VersionsInv, RowHolds
      <4>4. \A d \in Executor : phase[d] = "EXECUTING" \/ pc[d] = "PURGE" => thread[d] # v.run
        BY <4>3 DEF ExecutorInv, HoldsLease, WholeInv, WorkInv
      <4>5. ASSUME NEW t \in Source, NEW i \in DOMAIN version[t], version[t][i].run = v.run
            PROVE  version[t][i].status # "HELD"
        <5>1. t = s
          BY <1>0, <4>3, <4>5 DEF VersionsInv, RowHolds
        <5>2. i = q
          BY <1>0, <4>1, <4>5, <5>1 DEF VersionsInv
        <5> QED
          BY <4>1, <4>2, <5>1, <5>2
      <4> QED
        BY <3>2, <4>3, <4>4, <4>5 DEF Spare
    <3> QED
      BY <3>1, <3>2
  <2>3. \A r \in RunId : staging'[r] = staging[r] \/ Spare({e}, r)
    BY <1>0, <2>1, <2>2
  <2> QED
    BY <1>2, <1>3, <2>1, <2>3, ExecutorWorks
<1>6. CASE PurgeFails(e)
  <2>1. /\ UNCHANGED staging
        /\ run' = [run EXCEPT ![thread[e]].status = "FAILED", ![thread[e]].owner = NULL, ![thread[e]].lease = "NONE"]
    BY <1>6 DEF PurgeFails, FailAfterFinish, data
  <2>2. run'[thread[e]].status = "FAILED" /\ \A r \in RunId \ {thread[e]} : run'[r] = run[r]
    <3>1. run \in [RunId -> RunRow] /\ run[thread[e]] \in RunRow
      BY <1>0, <1>3 DEF PipelineTypeOK, TypeOK
    <3> QED
      BY <1>3, <2>1, <3>1 DEF RunRow
  <2>3. CASE \A t \in Source : \A i \in DOMAIN version[t] : version[t][i].run # thread[e]
    <3>1. \A t \in Source : \A i \in DOMAIN version[t] : version[t][i].run = thread[e] => t = s /\ i = 0
      BY <2>3
    <3> QED
      BY <1>2, <1>3, <2>1, <2>2, <3>1, ExecutorWorks
  <2>4. ASSUME NEW t \in Source, NEW i \in DOMAIN version[t], version[t][i].run = thread[e]
        PROVE  WholeInv'
    <3>1. RowAgrees(version[t][i], "SUCCEEDED", staging[thread[e]])
      BY <1>0, <2>4 DEF WholeInv, AgreeInv, Agrees
    <3>2. staging'[thread[e]] # {}
      <4>1. options[thread[e]].release = 0
        BY <1>0, <2>4 DEF VersionsInv, RowHolds
      <4> QED
        BY <1>0, <2>1, <4>1 DEF WholeInv, WorkInv, Batch
    <3>3. Agrees(version[t][i])' /\ version[t][i].release = "NONE"
      BY <1>0, <2>2, <2>4, <3>1, <3>2 DEF RowAgrees, Agrees
    <3>4. \A u \in Source : \A j \in DOMAIN version[u] : version[u][j].run = thread[e] => u = t /\ j = i
      BY <1>0, <2>4 DEF VersionsInv, RowHolds
    <3>5. OthersKept(t, i)
      BY <1>2 DEF OthersKept
    <3> QED
      BY <1>3, <2>1, <2>2, <2>4, <3>3, <3>4, <3>5, ExecutorWorks
  <2> QED
    BY <2>3, <2>4
<1> QED
  BY <1>5, <1>6

\* An executor that has a version of its own: its run is RUNNING and the version is not published,
\* nor is its release proposed.
LEMMA OwnIsOpen ==
  ASSUME PipelineInv, PoolInv, ExecutorInv, WholeInv, NEW e \in Executor, phase[e] = "EXECUTING", seq[e] # 0
  PROVE  LET v == version[SourceOf(e)][seq[e]] IN
         /\ run[thread[e]].status = "RUNNING" /\ SourceOf(e) \in Source /\ seq[e] \in DOMAIN version[SourceOf(e)]
         /\ v \in VersionRow /\ v.run = thread[e] /\ v.release = "NONE" /\ v.status # "PUBLISHED" /\ v.content = {}
         /\ v.status = "HELD" => v.count = Batch
<1>1. /\ SourceOf(e) \in Source /\ seq[e] \in DOMAIN version[SourceOf(e)]
      /\ version[SourceOf(e)][seq[e]] \in VersionRow /\ version[SourceOf(e)][seq[e]].run = thread[e]
      /\ Quiet(version[SourceOf(e)][seq[e]])
  BY OwnVersion
<1>2. run[thread[e]].status = "RUNNING"
  BY DEF ExecutorInv, HoldsLease
<1>3. RowAgrees(version[SourceOf(e)][seq[e]], run[thread[e]].status, staging[thread[e]])
  BY <1>1 DEF WholeInv, AgreeInv, Agrees
<1> QED
  BY <1>1, <1>2, <1>3 DEF Quiet, IsPublished, RowAgrees

\* Cancellation, an exception, a failure of the parser and the end of a dry run leave no version open.
LEMMA EndWorks ==
  ASSUME PipelineInv, PoolInv, ExecutorInv, ExecutorInv', WholeInv, [PipelineNext]_allvars, NEW e \in Executor,
         Cancelled(e) \/ Fails(e) \/ ParseFails(e) \/ FinishDryRun(e)
  PROVE  WholeInv'
<1>0. /\ PipelineTypeOK /\ StepInv(e) /\ WorkInv(e) /\ phase[e] = "EXECUTING"
      /\ \A r \in RunId \ {thread[e]} : staging'[r] = staging[r]
  BY DEF PipelineInv, PipelineTypeOK, WholeInv, Cancelled, Fails, ParseFails, FinishDryRun, At, RunOf
<1>1. CASE seq[e] = 0
  <2>1. UNCHANGED version /\ \E outcome : Finish(e, outcome)
    <3>1. ~FinishDryRun(e)
      BY <1>0, <1>1 DEF StepInv, BeforeVersion, FinishDryRun, At
    <3> QED
      BY <1>1, <3>1 DEF Cancelled, Fails, ParseFails, CloseOwnVersion
  <2> QED
    BY <1>0, <1>1, <2>1, EndsWithoutVersion
<1>2. CASE seq[e] # 0
  <2>0. PICK s \in Source, q \in DOMAIN version[SourceOf(e)] : s = SourceOf(e) /\ q = seq[e]
    BY <1>0, <1>2, OwnIsOpen
  <2> DEFINE v == version[s][q]
  <2>1. /\ v \in VersionRow /\ v.run = thread[e]
        /\ v.release = "NONE" /\ v.status # "PUBLISHED" /\ v.content = {} /\ (v.status = "HELD" => v.count = Batch)
    BY <1>0, <1>2, <2>0, OwnIsOpen
  <2>2. ASSUME NEW status \in {"REJECTED", "QUARANTINED"}, version' = [version EXCEPT ![s][q].status = status]
        PROVE  /\ OthersKept(s, q)
               /\ LET w == version'[s][q] IN
                  w.run = thread[e] /\ w.release = "NONE" /\ w.status = status /\ w.content = {}
    <3> DEFINE w == [v EXCEPT !.status = status]
    <3>1. /\ w \in VersionRow /\ w.run = v.run /\ w.release = v.release /\ w.content = v.content
          /\ w.status = status
      BY <2>1, <2>2 DEF VersionRow
    <3>2. version' = [version EXCEPT ![s][q] = w]
      BY <2>2
    <3> HIDE DEF w
    <3>3. OthersKept(s, q) /\ version'[s][q] = w
      BY <2>0, <3>1, <3>2, SetRowKeepsOthers
    <3> QED
      BY <2>1, <3>1, <3>3
  <2> DEFINE sets(status) == version' = [version EXCEPT ![s][q].status = status]
  <2>3. \/ \E outcome \in {"CANCELLED", "FAILED", "DRY_RUN_OK"} : Finish(e, outcome) /\ sets("REJECTED")
        \/ Finish(e, "QUARANTINED") /\ sets("QUARANTINED")
        \/ Finish(e, "FAILED") /\ UNCHANGED version /\ v.status \notin {"CANDIDATE", "VALIDATED"}
    <3>1. CASE Cancelled(e)
      <4>1. pc[e] \in {"PARSE", "COPY2", "VALIDATE_DATA", "DIFF_PUBLISH"}
        BY <1>0, <1>2, <3>1 DEF Cancelled, CancelPoints, StepInv, BeforeVersion
      <4>2. v.status \in {"CANDIDATE", "VALIDATED"}
        BY <1>0, <2>0, <4>1 DEF WorkInv
      <4>3. Finish(e, "CANCELLED") /\ sets("REJECTED")
        BY <1>2, <2>0, <3>1, <4>2 DEF Cancelled, CloseOwnVersion, SetStatus
      <4> HIDE DEF sets, v
      <4> QED
        BY <4>3
    <3>2. CASE Fails(e)
      <4>1. Finish(e, "FAILED")
        BY <3>2 DEF Fails
      <4>2. sets("REJECTED") \/ (UNCHANGED version /\ v.status \notin {"CANDIDATE", "VALIDATED"})
        BY <1>2, <2>0, <3>2 DEF Fails, CloseOwnVersion, SetStatus
      <4> HIDE DEF sets, v
      <4> QED
        BY <4>1, <4>2
    <3>3. CASE ParseFails(e)
      <4>1. v.status = "CANDIDATE"
        BY <1>0, <2>0, <3>3 DEF WorkInv, ParseFails, At
      <4>2. Finish(e, "QUARANTINED") /\ sets("QUARANTINED")
        BY <1>2, <2>0, <3>3, <4>1 DEF ParseFails, CloseOwnVersion, SetStatus
      <4> HIDE DEF sets, v
      <4> QED
        BY <4>2
    <3>4. CASE FinishDryRun(e)
      <4>1. Finish(e, "DRY_RUN_OK") /\ sets("REJECTED")
        BY <2>0, <3>4 DEF FinishDryRun, SetStatus
      <4> HIDE DEF sets, v
      <4> QED
        BY <4>1
    <3> QED
      BY <3>1, <3>2, <3>3, <3>4
  <2>4. \E outcome : Finish(e, outcome) /\ OthersKept(s, q) /\ version'[s][q].run = thread[e]
                     /\ RowAgrees(version'[s][q], outcome, {})
    <3>1. ASSUME NEW outcome \in {"CANCELLED", "FAILED", "DRY_RUN_OK"}, Finish(e, outcome), sets("REJECTED")
          PROVE  OthersKept(s, q) /\ version'[s][q].run = thread[e] /\ RowAgrees(version'[s][q], outcome, {})
      BY <2>2, <3>1 DEF RowAgrees, IsPublished
    <3>2. ASSUME Finish(e, "QUARANTINED"), sets("QUARANTINED")
          PROVE  OthersKept(s, q) /\ version'[s][q].run = thread[e] /\ RowAgrees(version'[s][q], "QUARANTINED", {})
      BY <2>2, <3>2 DEF RowAgrees, IsPublished
    <3>3. ASSUME Finish(e, "FAILED"), UNCHANGED version, v.status \notin {"CANDIDATE", "VALIDATED"}
          PROVE  OthersKept(s, q) /\ version'[s][q].run = thread[e] /\ RowAgrees(version'[s][q], "FAILED", {})
      <4>1. OthersKept(s, q)
        <5>1. OthersKept(s, 0) /\ 0 \notin DOMAIN version'[s]
          BY <3>3, NoneTouched
        <5> QED
          BY <5>1 DEF OthersKept
      <4> QED
        BY <2>1, <3>3, <4>1 DEF RowAgrees, IsPublished
    <3> HIDE DEF sets, v
    <3> QED
      BY <2>3, <3>1, <3>2, <3>3
  <2>5. PICK outcome, w : /\ Finish(e, outcome) /\ OthersKept(s, q) /\ version'[s][q] = w /\ w.run = thread[e]
                          /\ RowAgrees(w, outcome, {})
    BY <2>4
  <2> QED
    BY <1>0, <1>2, <2>0, <2>5, EndsWithVersion
<1> QED
  BY <1>1, <1>2

\* The validation of the file inserts an open version under a RUNNING run, or quarantines both.
LEMMA ValidateFileWorks ==
  ASSUME PipelineInv, PoolInv, ExecutorInv, ExecutorInv', WholeInv, [PipelineNext]_allvars, NEW e \in Executor,
         NEW valid \in BOOLEAN, ValidateFile(e, valid)
  PROVE  WholeInv'
<1>0. /\ PipelineTypeOK /\ phase[e] = "EXECUTING" /\ run[thread[e]].status = "RUNNING" /\ UNCHANGED staging
      /\ pc \in [Executor -> Steps] /\ seq \in [Executor -> 0..MaxVersions]
      /\ run \in [RunId -> RunRow] /\ phase \in [Executor -> {"IDLE", "STARTING", "EXECUTING", "FINISHED"}]
      /\ bytes \in [Executor -> Bytes \cup {NULL}]
  BY DEF PipelineInv, PipelineTypeOK, TypeOK, ValidateFile, At, ExecutorInv, HoldsLease
<1>1. PICK s, q, w :
        /\ s = SourceOf(e) /\ q = Len(version[s]) + 1 /\ w = version'[s][q]
        /\ w = [run |-> thread[e], bytes |-> bytes[e], status |-> IF valid THEN "CANDIDATE" ELSE "QUARANTINED",
                count |-> {}, release |-> "NONE", content |-> {}]
  BY NewVersion, ZenonT(60)
<1>2. /\ s \in Source /\ OthersKept(s, q) /\ q \in DOMAIN version'[s] /\ q \notin DOMAIN version[s]
      /\ thread[e] \in RunId
      /\ \A t \in Source : \A i \in DOMAIN version[t] : version[t][i].run # thread[e]
  BY <1>1, NewVersion
<1>3. /\ w.run = thread[e] /\ w.release = "NONE" /\ w.content = {}
      /\ w.status = IF valid THEN "CANDIDATE" ELSE "QUARANTINED"
  BY <1>1
<1>4. Spare({e}, thread[e])
  BY <1>0, OwnIsSpare
<1>5. CASE valid = TRUE
  <2>1. /\ pc' = [pc EXCEPT ![e] = "PARSE"] /\ seq' = [seq EXCEPT ![e] = q] /\ UNCHANGED <<run, thread, phase>>
    BY <1>1, <1>5 DEF ValidateFile, Goto, vars
  <2>2. WorkInv(e)'
    <3>1. version'[SourceOf(e)'][seq'[e]] = w /\ pc'[e] = "PARSE"
      BY <1>0, <1>1, <2>1 DEF SourceOf
    <3> QED
      BY <1>3, <1>5, <3>1 DEF WorkInv
  <2>3. Agrees(version[s][q])'
    <3>1. RowAgrees(w, "RUNNING", {})
      BY <1>3, <1>5 DEF RowAgrees, IsPublished
    <3> QED
      BY <1>0, <1>1, <1>3, <2>1, <3>1 DEF Agrees, RowAgrees
  <2> QED
    BY <1>0, <1>2, <2>1, <2>2, <2>3, ExecutorWorks
<1>6. CASE valid = FALSE
  <2>1. Finish(e, "QUARANTINED")
    BY <1>6 DEF ValidateFile
  <2>2. /\ \A d \in Executor \ {e} : /\ thread'[d] = thread[d] /\ phase'[d] = phase[d]
                                     /\ pc'[d] = pc[d] /\ seq'[d] = seq[d]
        /\ WorkInv(e)'
        /\ \A r \in RunId \ {thread[e]} : run'[r] = run[r]
        /\ run'[thread[e]].status = "QUARANTINED"
    <3>1. run[thread[e]] \in RunRow
      BY <1>0, <1>2
    <3>2. run'[thread[e]].status = "QUARANTINED"
      BY <1>0, <1>2, <2>1, <3>1 DEF Finish, FinishRun, RunRow
    <3> QED
      BY <1>0, <2>1, <3>2 DEF Finish, FinishRun, StopsExecuting, WorkInv
  <2>3. Agrees(version[s][q])'
    <3>1. RowAgrees(w, "QUARANTINED", {})
      BY <1>3, <1>6 DEF RowAgrees, IsPublished
    <3> QED
      BY <1>1, <1>3, <2>2, <3>1 DEF Agrees, RowAgrees
  <2>4. \A t \in Source : \A i \in DOMAIN version[t] : version[t][i].run = thread[e] => t = s /\ i = q
    BY <1>2
  <2> QED
    BY <1>0, <1>2, <2>2, <2>3, <2>4, ExecutorWorks
<1> QED
  BY <1>5, <1>6

\* The validation of the data counts the whole file.
LEMMA ValidateDataWorks ==
  ASSUME PipelineInv, PoolInv, ExecutorInv, ExecutorInv', WholeInv, [PipelineNext]_allvars, NEW e \in Executor,
         NEW outcome \in {"PASS", "HOLD", "QUARANTINE"}, ValidateData(e, outcome)
  PROVE  WholeInv'
<1>0. /\ PipelineTypeOK /\ StepInv(e) /\ phase[e] = "EXECUTING" /\ pc[e] = "VALIDATE_DATA"
      /\ UNCHANGED <<staging, options>> /\ seq[e] # 0
      /\ pc \in [Executor -> Steps] /\ thread[e] \in RunId /\ staging[thread[e]] = Batch
      /\ run[thread[e]].status = "RUNNING"
  <2>1. PipelineTypeOK /\ StepInv(e) /\ phase[e] = "EXECUTING" /\ pc[e] = "VALIDATE_DATA"
        /\ UNCHANGED <<staging, options>> /\ WorkInv(e)
    BY DEF PipelineInv, ValidateData, At, WholeInv
  <2> QED
    BY <2>1, Types DEF PipelineTypeOK, StepInv, BeforeVersion, WorkInv, ExecutorInv, HoldsLease
<1>1. PICK s \in Source, q \in DOMAIN version[SourceOf(e)] : s = SourceOf(e) /\ q = seq[e]
  BY <1>0, OwnIsOpen
<1> DEFINE v == version[s][q]
           dry == options[thread[e]].dry
           status == CASE outcome = "PASS" -> "VALIDATED"
                       [] outcome = "HOLD" -> "HELD"
                       [] outcome = "QUARANTINE" -> "QUARANTINED"
           proposed == outcome = "HOLD" /\ ~dry
           release == IF proposed THEN "PENDING" ELSE v.release
           w == [v EXCEPT !.status = status, !.count = Batch, !.release = release]
<1>2. v \in VersionRow /\ v.run = thread[e] /\ v.release = "NONE" /\ v.content = {}
  BY <1>0, <1>1, OwnIsOpen
<1>3. version' = [version EXCEPT ![s][q] = w]
  <2>1. s = SourceOf(e) /\ q = seq[e] /\ staging[thread[e]] = Batch
    BY <1>0, <1>1
  <2> QED
    BY <2>1, ZenonT(60) DEF ValidateData, RunOf
<1>4. \/ Finish(e, status) /\ (outcome = "QUARANTINE" \/ proposed)
      \/ /\ outcome # "QUARANTINE" /\ ~proposed
         /\ pc' = [pc EXCEPT ![e] = IF dry THEN "DRY_RUN" ELSE "DIFF_PUBLISH"]
         /\ UNCHANGED <<vars, seq>>
  BY DEF ValidateData, RunOf, Goto
<1>5. /\ status \in {"VALIDATED", "HELD", "QUARANTINED"} /\ release \in {"NONE", "PENDING"}
      /\ (outcome = "QUARANTINE" <=> status = "QUARANTINED") /\ (outcome = "HOLD" <=> status = "HELD")
      /\ (release = "NONE" <=> ~proposed) /\ (proposed <=> outcome = "HOLD" /\ ~dry)
      /\ outcome = "QUARANTINE" \/ proposed =>
           (status = "QUARANTINED" /\ release = "NONE") \/ (status = "HELD" /\ release = "PENDING")
  BY <1>2
<1> HIDE DEF status, dry, release
<1>6. /\ w \in VersionRow /\ w.run = thread[e] /\ w.release = release /\ w.content = {}
      /\ w.status = status /\ w.count = Batch
  <2> HIDE DEF v
  <2> QED
    BY <1>2, <1>5 DEF VersionRow, Batch
<1> HIDE DEF w
<1>7. OthersKept(s, q) /\ version'[s][q] = w
  <2>1. q \in DOMAIN version[s] /\ w \in VersionRow
    BY <1>1, <1>6
  <2>2. PICK row \in VersionRow : row = w
    BY <2>1
  <2>3. version' = [version EXCEPT ![s][q] = row]
    BY <1>3, <2>2
  <2>4. OthersKept(s, q) /\ version'[s][q] = row
    BY <2>1, <2>3, SetRowKeepsOthers
  <2> QED
    BY <2>2, <2>4
<1>8. CASE Finish(e, status) /\ (outcome = "QUARANTINE" \/ proposed)
  <2>1. RowAgrees(w, status, {})
    <3> HIDE DEF proposed
    <3>1. (status = "QUARANTINED" /\ release = "NONE") \/ (status = "HELD" /\ release = "PENDING")
      BY <1>5, <1>8
    <3> QED
      BY <1>6, <3>1 DEF RowAgrees, IsPublished
  <2>2. PICK end : Finish(e, end) /\ RowAgrees(w, end, {})
    BY <1>8, <2>1
  <2>3. OthersKept(SourceOf(e), seq[e]) /\ version'[SourceOf(e)][seq[e]] = w /\ w.run = thread[e]
    BY <1>1, <1>6, <1>7
  <2> QED
    BY <1>0, <2>2, <2>3, EndsWithVersion
<1>9. CASE /\ outcome # "QUARANTINE" /\ ~proposed
           /\ pc' = [pc EXCEPT ![e] = IF dry THEN "DRY_RUN" ELSE "DIFF_PUBLISH"]
           /\ UNCHANGED <<vars, seq>>
  <2>1. /\ UNCHANGED <<run, thread, phase>> /\ pc'[e] = IF dry THEN "DRY_RUN" ELSE "DIFF_PUBLISH"
        /\ \A d \in Executor \ {e} : pc'[d] = pc[d] /\ seq'[d] = seq[d]
    BY <1>0, <1>9 DEF vars
  <2>2. WorkInv(e)'
    <3>1. version'[SourceOf(e)'][seq'[e]] = w
      BY <1>1, <1>7, <1>9, <2>1 DEF SourceOf
    <3>2. pc'[e] = "DIFF_PUBLISH" => w.status = "VALIDATED" /\ w.count = Batch
      BY <1>5, <1>6, <1>9, <2>1
    <3>3. staging'[thread'[e]] = Batch /\ pc'[e] \in {"DRY_RUN", "DIFF_PUBLISH"}
      BY <1>0, <2>1
    <3> QED
      BY <3>1, <3>2, <3>3 DEF WorkInv
  <2>3. Agrees(version[s][q])'
    <3>1. status \in {"VALIDATED", "HELD"} /\ release = "NONE"
      BY <1>5, <1>9
    <3>2. RowAgrees(w, "RUNNING", {})
      BY <1>6, <3>1 DEF RowAgrees, IsPublished
    <3> QED
      BY <1>0, <1>6, <1>7, <2>1, <3>2 DEF Agrees, RowAgrees
  <2>4. Spare({e}, thread[e])
    BY <1>0, OwnIsSpare
  <2>5. version[s][q].run = thread[e] /\ version[s][q].release = "NONE"
    BY <1>2
  <2> QED
    BY <1>0, <1>7, <2>1, <2>2, <2>3, <2>4, <2>5, ExecutorWorks
<1> QED
  BY <1>4, <1>8, <1>9

\* What is published is what was counted: the run's own staging, or for a release the staging the
\* version was held with.
LEMMA PublishWorks ==
  ASSUME PipelineInv, PoolInv, ExecutorInv, ExecutorInv', WholeInv, TypeOK', [PipelineNext]_allvars,
         NEW e \in Executor, DiffPublish(e) \/ Release(e)
  PROVE  WholeInv'
<1>0. /\ PipelineTypeOK /\ StepInv(e) /\ WorkInv(e) /\ phase[e] = "EXECUTING" /\ VersionsInv
      /\ run[thread[e]].status = "RUNNING" /\ SourceOf(e) \in Source /\ thread[e] \in RunId
  <2>1. PipelineTypeOK /\ StepInv(e) /\ WorkInv(e) /\ phase[e] = "EXECUTING" /\ VersionsInv
    BY DEF PipelineInv, WholeInv, DiffPublish, Release, At
  <2> QED
    BY <2>1, Mine DEF ExecutorInv, HoldsLease
<1>1. PICK s \in Source, q \in DOMAIN version[SourceOf(e)], r \in RunId :
        /\ s = SourceOf(e) /\ PublishFrom(e, s, q, r)
        /\ staging[r] = Batch /\ version[s][q].count = Batch
        /\ \/ version[s][q].run = thread[e] /\ version[s][q].release = "NONE" /\ ~options[thread[e]].dry
           \/ version[s][q].run # thread[e] /\ version[s][q].release = "APPLIED"
        /\ IF options[thread[e]].release = 0 THEN r = thread[e] ELSE q = options[thread[e]].release
        /\ \A t \in Source : \A i \in DOMAIN version[t] : version[t][i].run = thread[e] => t = s /\ i = q
  <2>1. CASE DiffPublish(e)
    <3>1. pc[e] = "DIFF_PUBLISH" /\ PublishFrom(e, SourceOf(e), seq[e], thread[e])
      BY <2>1 DEF DiffPublish, At, RunOf
    <3>2. seq[e] # 0 /\ ~options[thread[e]].dry /\ options[thread[e]].release = 0
      BY <1>0, <3>1 DEF StepInv, BeforeVersion
    <3>3. /\ seq[e] \in DOMAIN version[SourceOf(e)] /\ version[SourceOf(e)][seq[e]].run = thread[e]
          /\ version[SourceOf(e)][seq[e]].release = "NONE"
      BY <1>0, <3>2, OwnIsOpen
    <3>4. staging[thread[e]] = Batch /\ version[SourceOf(e)][seq[e]].count = Batch
      BY <1>0, <3>1 DEF WorkInv
    <3>5. \A t \in Source : \A i \in DOMAIN version[t] :
            version[t][i].run = thread[e] => t = SourceOf(e) /\ i = seq[e]
      BY <1>0, OnlyOwnVersion
    <3> QED
      BY <1>0, <3>1, <3>2, <3>3, <3>4, <3>5
  <2>2. CASE Release(e)
    <3> DEFINE p == options[thread[e]].release
               v == version[SourceOf(e)][p]
    <3>1. pc[e] = "RELEASE" /\ PublishFrom(e, SourceOf(e), p, v.run) /\ v = Released(e)
      BY <2>2 DEF Release, At, RunOf, Released
    <3>2. p # 0 /\ seq[e] = 0
      BY <1>0, <3>1 DEF StepInv, BeforeVersion
    <3>3. p \in DOMAIN version[SourceOf(e)] /\ v.release = "APPLIED" /\ v.run \in RunId /\ v.run # thread[e]
      BY <1>0, <3>1, <3>2, WorkingRun
    <3>4. RowAgrees(v, run[v.run].status, staging[v.run])
      BY <1>0, <3>3 DEF WholeInv, AgreeInv, Agrees
    <3>5. v.status = "HELD" /\ v.count = Batch
      <4>1. v.status \in {"CANDIDATE", "VALIDATED", "HELD"}
        BY <3>1, SMTT(40) DEF PublishFrom, MayPublish
      <4>2. run[v.run].status = "HELD"
        BY <3>3, <3>4 DEF RowAgrees
      <4> QED
        BY <3>4, <4>1, <4>2 DEF RowAgrees
    <3>6. staging[v.run] = Batch
      BY <1>0, <3>1, <3>5 DEF WorkInv
    <3>7. \A t \in Source : \A i \in DOMAIN version[t] : version[t][i].run # thread[e]
      BY <1>0, <3>2, OnlyOwnVersion
    <3> QED
      BY <1>0, <3>1, <3>2, <3>3, <3>5, <3>6, <3>7
  <2> QED
    BY <2>1, <2>2
<1>2. /\ version' = [version EXCEPT ![s] = VersionsAfter(s, q, staging[r])] /\ staging[r] = Batch
      /\ FinishRun(e, "SUCCEEDED") /\ pc' = [pc EXCEPT ![e] = "PURGE"]
      /\ UNCHANGED <<bytes, seq, archived, staging, options>>
  BY <1>1 DEF PublishFrom, Goto
<1>3. version[s][q] \in VersionRow /\ q \in DOMAIN version[s] /\ version[s][q].run \in RunId
      /\ RowHolds(s, version[s][q], run, options)
  BY <1>0, <1>1, Types DEF VersionsInv
<1>4. OthersKept(s, q)
  <2>1. PICK content \in SUBSET Batch : content = staging[r]
    BY <1>1
  <2>2. version' = [version EXCEPT ![s] = VersionsAfter(s, q, content)]
    BY <1>2, <2>1
  <2>3. /\ version[s][q].run = thread[e] \/ version[s][q].release # "NONE"
        /\ version[s][q].release \in {"NONE", "APPLIED"} /\ ~options[version[s][q].run].dry
    BY <1>1, <1>3 DEF RowHolds
  <2>4. Touches(e, s, q)
    BY <1>3, <2>2, <2>3, PublishTouches
  <2> QED
    BY <2>4 DEF Touches
<1>5. LET w == version'[s][q] IN
      /\ w.run = version[s][q].run /\ w.status = "PUBLISHED" /\ w.content = Batch /\ w.count = Batch
      /\ w.release = version[s][q].release
  <2> DEFINE new == [version[s][q] EXCEPT !.status = "PUBLISHED", !.content = Batch]
  <2>1. /\ new.run = version[s][q].run /\ new.status = "PUBLISHED" /\ new.content = Batch
        /\ new.count = version[s][q].count /\ new.release = version[s][q].release
    BY <1>3 DEF VersionRow
  <2>2. version'[s] = VersionsAfter(s, q, Batch)
    BY <1>0, <1>2 DEF PipelineTypeOK
  <2>3. VersionsAfter(s, q, Batch)[q] = new
    BY <1>3 DEF VersionsAfter
  <2> HIDE DEF new
  <2> QED
    BY <1>1, <2>1, <2>2, <2>3
<1>6. /\ thread' = thread /\ phase' = [phase EXCEPT ![e] = "FINISHED"]
      /\ \A p \in RunId \ {thread[e]} : run'[p] = run[p]
      /\ run'[thread[e]].status = "SUCCEEDED" /\ run'[thread[e]].source = run[thread[e]].source
      /\ phase \in [Executor -> {"IDLE", "STARTING", "EXECUTING", "FINISHED"}]
      /\ pc \in [Executor -> Steps]
  <2>1. run \in [RunId -> RunRow] /\ run[thread[e]] \in RunRow
    BY <1>0 DEF PipelineTypeOK, TypeOK
  <2>2. run'[thread[e]].status = "SUCCEEDED" /\ run'[thread[e]].source = run[thread[e]].source
    BY <1>0, <1>2, <2>1 DEF FinishRun, RunRow
  <2> QED
    BY <1>0, <1>2, <2>1, <2>2 DEF FinishRun, PipelineTypeOK, TypeOK
<1>7. \A d \in Executor \ {e} : /\ thread'[d] = thread[d] /\ phase'[d] = phase[d]
                                /\ pc'[d] = pc[d] /\ seq'[d] = seq[d]
  BY <1>2, <1>6
<1>8. WorkInv(e)'
  <2>1. pc'[e] = "PURGE" /\ phase'[e] = "FINISHED" /\ run'[thread'[e]].status = "SUCCEEDED"
    BY <1>2, <1>6
  <2>2. SourceOf(e)' = s /\ options'[thread'[e]] = options[thread[e]]
    BY <1>1, <1>2, <1>6 DEF SourceOf
  <2>3. options[thread[e]].release # 0 => Released(e)'.status = "PUBLISHED"
    BY <1>1, <1>5, <2>2 DEF Released
  <2>4. options[thread[e]].release = 0 => staging'[thread[e]] = Batch
    BY <1>1, <1>2
  <2> QED
    BY <1>6, <2>1, <2>2, <2>3, <2>4 DEF WorkInv
<1>9. Agrees(version[s][q])'
  <2>1. CASE version[s][q].run = thread[e] /\ version[s][q].release = "NONE"
    BY <1>5, <1>6, <2>1 DEF Agrees, RowAgrees, IsPublished
  <2>2. CASE version[s][q].run # thread[e] /\ version[s][q].release = "APPLIED"
    <3>1. run[version[s][q].run].status = "HELD"
      BY <1>3, <2>2 DEF WholeInv, AgreeInv, Agrees, RowAgrees
    <3>2. run'[version[s][q].run].status = "HELD"
      BY <1>3, <1>6, <2>2, <3>1
    <3> QED
      BY <1>5, <2>2, <3>2 DEF Agrees, RowAgrees
  <2> QED
    BY <1>1, <2>1, <2>2
<1>10. \/ version[s][q].run = thread[e] /\ version[s][q].release = "NONE"
       \/ version[s][q].release = "APPLIED" /\ version'[s][q].status = "PUBLISHED"
  BY <1>1, <1>5
<1> QED
  BY <1>0, <1>1, <1>2, <1>4, <1>6, <1>7, <1>8, <1>9, <1>10, ExecutorWorks

\* A step that is no executor's and touches neither the staging nor the status of a run that was taken.
LEMMA OutsideWorks ==
  ASSUME PipelineInv, PoolInv, ExecutorInv, ExecutorInv', WholeInv, [PipelineNext]_allvars,
         UNCHANGED <<thread, phase, ctx, staging>>,
         NEW s \in Source, OthersKept(s, 0), 0 \notin DOMAIN version'[s],
         \A r \in RunId : Taken(r) => run'[r].status = run[r].status
  PROVE  WholeInv'
<1>1. 0 \notin DOMAIN version[s]
  BY DEF OthersKept
<1>2. PICK E \in SUBSET Executor, m \in {NULL} : E = {} /\ m = NULL
  OBVIOUS
<1>3. /\ \A d \in Executor \ E : /\ thread'[d] = thread[d] /\ phase'[d] = phase[d]
                                 /\ pc'[d] = pc[d] /\ seq'[d] = seq[d]
                                 /\ phase[d] = "EXECUTING" \/ pc[d] = "PURGE" => thread[d] # m
  <2>1. ASSUME NEW d \in Executor, phase[d] = "EXECUTING" \/ pc[d] = "PURGE" PROVE thread[d] # m
    <3>1. thread[d] \in RunId
      BY <2>1, WorkingRun DEF WholeInv, WorkInv
    <3> QED
      BY <1>2, <3>1, NullAssumption
  <2> QED
    BY <2>1 DEF ctx
<1>4. /\ \A d \in E : WorkInv(d)'
      /\ \A r \in RunId \ {m} : Taken(r) => run'[r].status = run[r].status
      /\ \A r \in RunId : staging'[r] = staging[r] \/ Spare(E, r)
  BY <1>2
<1>5. \A t \in Source : \A i \in DOMAIN version[t] : version[t][i].run = m => t = s /\ i = 0
  BY <1>2, Types, NullAssumption DEF PipelineInv
<1> QED
  BY <1>1, <1>3, <1>4, <1>5, WorkStep

\* A run that is taken from the queue has no version yet.
LEMMA ClaimWorks ==
  ASSUME PipelineInv, PoolInv, ExecutorInv, ExecutorInv', WholeInv, [PipelineNext]_allvars,
         NEW e \in Executor, NEW r \in RunId, Claim(e, r), StartsExecuting(e)
  PROVE  WholeInv'
<1>0. /\ PipelineTypeOK /\ VersionsInv /\ run[r].status = "QUEUED" /\ thread' = [thread EXCEPT ![e] = r]
      /\ phase' = [phase EXCEPT ![e] = "EXECUTING"]
      /\ pc' = [pc EXCEPT ![e] = "START"] /\ seq' = [seq EXCEPT ![e] = 0]
      /\ UNCHANGED <<staging, version>>
      /\ \A q \in RunId \ {r} : run'[q] = run[q]
  BY DEF PipelineInv, PipelineTypeOK, TypeOK, Claim, StartsExecuting, data
<1>1. run[r].source \in Source
  BY <1>0 DEF PoolInv
<1>2. PICK s \in Source, E \in SUBSET Executor : s = run[r].source /\ E = {e}
  BY <1>1
<1>3. OthersKept(s, 0) /\ 0 \notin DOMAIN version[s] /\ 0 \notin DOMAIN version'[s]
  BY <1>0, NoneTouched
<1>4. \A d \in Executor \ E : /\ thread'[d] = thread[d] /\ phase'[d] = phase[d]
                              /\ pc'[d] = pc[d] /\ seq'[d] = seq[d]
                              /\ phase[d] = "EXECUTING" \/ pc[d] = "PURGE" => thread[d] # r
  <2>1. ASSUME NEW d \in Executor, phase[d] = "EXECUTING" \/ pc[d] = "PURGE" PROVE thread[d] # r
    <3>1. Taken(thread[d])
      BY <2>1, WorkingRun DEF WholeInv, WorkInv
    <3> QED
      BY <1>0, <3>1 DEF Taken
  <2> QED
    BY <1>0, <1>2, <2>1 DEF PipelineTypeOK, TypeOK
<1>5. \A d \in E : WorkInv(d)'
  <2>1. pc'[e] = "START"
    BY <1>0 DEF PipelineTypeOK
  <2> QED
    BY <1>2, <2>1 DEF WorkInv
<1>6. \A t \in Source : \A i \in DOMAIN version[t] : version[t][i].run # r
  BY <1>0 DEF VersionsInv, RowHolds
<1>7. /\ \A q \in RunId \ {r} : Taken(q) => run'[q].status = run[q].status
      /\ \A q \in RunId : staging'[q] = staging[q] \/ Spare(E, q)
  BY <1>0
<1>8. \A t \in Source : \A i \in DOMAIN version[t] : version[t][i].run = r => t = s /\ i = 0
  BY <1>6
<1> QED
  BY <1>3, <1>4, <1>5, <1>7, <1>8, WorkStep

\* The reclaimer takes a run that nobody executes, and leaves no version of it open.
LEMMA ReclaimWorks ==
  ASSUME PipelineInv, PoolInv, ExecutorInv, ExecutorInv', WholeInv, [PipelineNext]_allvars,
         NEW r \in RunId, NEW child \in RunId \cup {NULL}, ReclaimRun(r, child)
  PROVE  WholeInv'
<1>0. /\ PipelineTypeOK /\ VersionsInv /\ run \in [RunId -> RunRow]
      /\ run[r].status = "RUNNING" /\ run[r].lease = "EXPIRED" /\ UNCHANGED <<thread, phase, ctx>>
      /\ staging' = [staging EXCEPT ![r] = {}] /\ staging \in [RunId -> SUBSET Batch]
      /\ version' = [t \in Source |-> RejectOpen(version[t], r)]
  BY DEF PipelineInv, PipelineTypeOK, TypeOK, ReclaimRun, Reclaim
<1>1. PICK s \in Source : s = run[r].source
  BY <1>0 DEF PoolInv
<1>2. /\ run'[r].status = "ABANDONED"
      /\ \A q \in RunId \ {r} : Taken(q) => run'[q].status = run[q].status
  <2>1. child # r /\ run[r] \in RunRow
    BY <1>0, NullAssumption DEF ReclaimRun, Reclaim
  <2>2. run'[r].status = "ABANDONED"
    BY <1>0, <2>1 DEF ReclaimRun, Reclaim, RunRow
  <2>3. \A q \in RunId \ {r, child} : run'[q] = run[q]
    BY <1>0 DEF ReclaimRun, Reclaim
  <2>4. child \in RunId => run[child].status = "UNUSED" \/ run'[child] = run[child]
    BY <1>0, <2>1 DEF ReclaimRun, Reclaim
  <2> QED
    BY <2>2, <2>3, <2>4 DEF Taken
<1>3. /\ OthersKept(s, 0) /\ 0 \notin DOMAIN version'[s] /\ 0 \notin DOMAIN version[s]
      /\ \A t \in Source : \A i \in DOMAIN version'[t] :
           version[t][i].run = r => version'[t][i].status \notin {"CANDIDATE", "VALIDATED"}
  <2>1. /\ OthersKept(s, 0) /\ 0 \notin DOMAIN version'[s]
        /\ \A t \in Source : \A i \in DOMAIN version'[t] :
             version[t][i].run = r => version'[t][i].status \notin {"CANDIDATE", "VALIDATED"}
    BY <1>0, <1>2, RejectOpenKeeps
  <2> QED
    BY <2>1 DEF OthersKept
<1>4. PICK E \in SUBSET Executor : E = {}
  OBVIOUS
<1>5. \A d \in Executor \ E : /\ thread'[d] = thread[d] /\ phase'[d] = phase[d]
                              /\ pc'[d] = pc[d] /\ seq'[d] = seq[d]
                              /\ phase[d] = "EXECUTING" \/ pc[d] = "PURGE" => thread[d] # r
  <2>1. ASSUME NEW d \in Executor, phase[d] = "EXECUTING" PROVE thread[d] # r
    BY <1>0, <2>1 DEF ExecutorInv, HoldsLease
  <2>2. ASSUME NEW d \in Executor, pc[d] = "PURGE" PROVE thread[d] # r
    BY <1>0, <2>2 DEF WholeInv, WorkInv
  <2> QED
    BY <1>0, <2>1, <2>2 DEF ctx
<1>6. ASSUME NEW t \in Source, NEW i \in DOMAIN version[t], version[t][i].run = r
      PROVE  RowAgrees(version[t][i], "RUNNING", {}) /\ version[t][i].release = "NONE"
  BY <1>0, <1>6 DEF WholeInv, AgreeInv, Agrees, RowAgrees
<1>7. /\ \A d \in E : WorkInv(d)'
      /\ \A q \in RunId : staging'[q] = staging[q] \/ Spare(E, q)
  <2>1. Spare(E, r)
    <3>1. \A d \in Executor : phase[d] = "EXECUTING" \/ pc[d] = "PURGE" => thread[d] # r
      BY <1>4, <1>5
    <3>2. \A t \in Source : \A i \in DOMAIN version[t] : version[t][i].run = r => version[t][i].release = "NONE"
      BY <1>6
    <3> QED
      BY <1>0, <3>1, <3>2 DEF Spare
  <2> QED
    BY <1>0, <1>4, <2>1
<1>8. CASE \A t \in Source : \A i \in DOMAIN version[t] : version[t][i].run # r
  BY <1>2, <1>3, <1>5, <1>7, <1>8, WorkStep, SMTT(40)
<1>9. ASSUME NEW t \in Source, NEW i \in DOMAIN version[t], version[t][i].run = r
      PROVE  WholeInv'
  <2>1. i \in DOMAIN version'[t] /\ OthersKept(t, i) /\ Kept(version[t][i], version'[t][i])
    BY <1>3 DEF OthersKept
  <2>2. Agrees(version[t][i])'
    <3> DEFINE v == version[t][i]
               w == version'[t][i]
    <3>1. /\ RowAgrees(v, "RUNNING", {}) /\ v.release = "NONE" /\ Kept(v, w) /\ w.run = r
          /\ w.status \notin {"CANDIDATE", "VALIDATED"}
      BY <1>3, <1>6, <1>9, <2>1 DEF Kept
    <3>2. ~IsPublished(v)
      BY <3>1 DEF RowAgrees
    <3> HIDE DEF v, w
    <3>3. ~IsPublished(w) /\ w.release = "NONE" /\ (w.status = "HELD" => w.count = Batch)
      BY <3>1, <3>2 DEF Kept, IsPublished, RowAgrees
    <3>4. RowAgrees(w, "ABANDONED", {})
      BY <3>1, <3>3 DEF RowAgrees
    <3> QED
      BY <1>2, <3>1, <3>4 DEF w, Agrees, RowAgrees
  <2>3. \A u \in Source : \A j \in DOMAIN version[u] : version[u][j].run = r => u = t /\ j = i
    BY <1>0, <1>9 DEF VersionsInv, RowHolds
  <2>4. version[t][i].release = "NONE"
    BY <1>6, <1>9
  <2> QED
    BY <1>2, <1>5, <1>7, <1>9, <2>1, <2>2, <2>3, <2>4, WorkStep
<1> QED
  BY <1>8, <1>9

\* Requests, the clock, operators, heartbeats and reviewers touch no run that was taken.
LEMMA QueueWorks ==
  ASSUME PipelineInv, PoolInv, ExecutorInv, ExecutorInv', WholeInv, [PipelineNext]_allvars, QueueStep
  PROVE  WholeInv'
<1>0. PipelineTypeOK /\ run \in [RunId -> RunRow] /\ \A q \in RunId : run[q] \in RunRow
  BY DEF PipelineInv, PipelineTypeOK, TypeOK
<1>1. ASSUME UNCHANGED <<thread, phase, ctx, staging, version>>, NEW s \in Source,
             \A q \in RunId : Taken(q) => run'[q].status = run[q].status
      PROVE  WholeInv'
  <2>1. OthersKept(s, 0) /\ 0 \notin DOMAIN version'[s]
    BY <1>1, NoneTouched
  <2> QED
    BY <1>1, <2>1, OutsideWorks
<1>2. ASSUME NEW s \in Source, NEW r \in RunId, NEW due \in BOOLEAN, NEW o \in Options, RequestRun(s, r, due, o)
      PROVE  WholeInv'
  <2>1. UNCHANGED <<thread, phase, ctx, staging, version>>
    BY <1>2 DEF RequestRun, Enqueue
  <2>2. \A q \in RunId : Taken(q) => run'[q].status = run[q].status
    BY <1>0, <1>2 DEF RequestRun, Enqueue, Taken
  <2> QED
    BY <1>1, <2>1, <2>2
<1>3. ASSUME NEW r \in RunId, BecomeDue(r) \/ RequestCancel(r) \/ LeaseExpires(r), UNCHANGED <<ctx, data>>
      PROVE  WholeInv'
  <2>1. run[r].status # "UNUSED" /\ UNCHANGED <<thread, phase, ctx, staging, version>>
    BY <1>3 DEF BecomeDue, RequestCancel, LeaseExpires, Active, data
  <2>2. run[r].source \in Source
    BY <2>1 DEF PoolInv
  <2>3. \A q \in RunId : Taken(q) => run'[q].status = run[q].status
    BY <1>0, <1>3 DEF BecomeDue, RequestCancel, LeaseExpires, Taken, RunRow
  <2> QED
    BY <1>1, <2>1, <2>2, <2>3
<1>4. ASSUME NEW s \in Source, SetSourceStatus(s), UNCHANGED <<ctx, data>>
      PROVE  WholeInv'
  BY <1>1, <1>4 DEF SetSourceStatus, data
<1>5. ASSUME NEW e \in Executor, Heartbeat(e), UNCHANGED <<ctx, data>>
      PROVE  WholeInv'
  <2>1. /\ phase[e] = "EXECUTING" /\ UNCHANGED <<thread, phase, ctx, staging, version>>
        /\ run' = [run EXCEPT ![thread[e]].lease = "VALID"]
    BY <1>5 DEF Heartbeat, data
  <2>2. SourceOf(e) \in Source /\ thread[e] \in RunId
    BY <1>0, <2>1, Mine
  <2>3. \A q \in RunId : run'[q].status = run[q].status
    BY <1>0, <2>1, <2>2 DEF RunRow
  <2> QED
    BY <1>1, <2>1, <2>2, <2>3
<1>6. ASSUME NEW e \in Executor, NEW r \in RunId, Claim(e, r), StartsExecuting(e)
      PROVE  WholeInv'
  BY <1>6, ClaimWorks
<1>7. ASSUME NEW e \in Executor, Crash(e), StopsExecuting(e), UNCHANGED data
      PROVE  WholeInv'
  BY <1>7, LeaveWorks
<1> QED
  BY <1>2, <1>3, <1>4, <1>5, <1>6, <1>7 DEF QueueStep

\* The decision of a reviewer touches no run that was taken, and counts and publishes nothing.
LEMMA DecisionWorks ==
  ASSUME PipelineInv, PoolInv, ExecutorInv, ExecutorInv', WholeInv, [PipelineNext]_allvars,
         NEW s \in Source, NEW q \in Pending(s),
         RejectRelease(s, q) \/ \E r \in RunId : ApproveRelease(s, q, r)
  PROVE  WholeInv'
<1>0. PipelineTypeOK /\ run \in [RunId -> RunRow]
  BY DEF PipelineInv, PipelineTypeOK, TypeOK
<1>1. ASSUME NEW rel \in {"APPLIED", "REJECTED"}, version' = [version EXCEPT ![s][q].release = rel],
             UNCHANGED <<thread, phase, ctx, staging>>,
             \A r \in RunId : Taken(r) => run'[r].status = run[r].status
      PROVE  WholeInv'
  <2>1. OthersKept(s, 0) /\ 0 \notin DOMAIN version'[s]
    BY <1>1, Decided
  <2> QED
    BY <1>1, <2>1, OutsideWorks
<1>2. CASE RejectRelease(s, q)
  BY <1>1, <1>2 DEF RejectRelease, vars
<1>3. ASSUME NEW r \in RunId, ApproveRelease(s, q, r) PROVE WholeInv'
  <2>1. /\ version' = [version EXCEPT ![s][q].release = "APPLIED"]
        /\ UNCHANGED <<thread, phase, ctx, staging>>
    BY <1>3 DEF ApproveRelease, Enqueue
  <2>2. \A p \in RunId : Taken(p) => run'[p].status = run[p].status
    BY <1>0, <1>3 DEF ApproveRelease, Enqueue, Taken
  <2> QED
    BY <1>1, <2>1, <2>2
<1> QED
  BY <1>2, <1>3

\* The empty database satisfies the invariant.
LEMMA WholeStarts == PipelineInit => WholeInv
<1> SUFFICES ASSUME PipelineInit PROVE WholeInv
  OBVIOUS
<1>1. version = [s \in Source |-> <<>>] /\ pc = [e \in Executor |-> "NONE"] /\ phase = [e \in Executor |-> "IDLE"]
  BY DEF PipelineInit, Init
<1>2. AgreeInv
  BY <1>1 DEF AgreeInv
<1> QED
  BY <1>1, <1>2 DEF WholeInv, WorkInv

\* Every step of the pipeline keeps the invariant.
LEMMA WholeKeeps ==
  ASSUME PipelineInv, PoolInv, ExecutorInv, ExecutorInv', WholeInv, TypeOK', [PipelineNext]_allvars
  PROVE  WholeInv'
<1>1. CASE UNCHANGED allvars
  BY <1>1 DEF allvars, vars, ctx, data, WholeInv, AgreeInv, Agrees, WorkInv, SourceOf, Released
<1> QED
  BY <1>1, QueueWorks, ReclaimWorks, EarlyWorks, ValidateFileWorks, StagingWorks, EndWorks, ValidateDataWorks,
     PublishWorks, PurgeWorks, LeaveWorks, DecisionWorks, SMTT(40)
  DEF PipelineNext

\* The invariants hold of the pipeline when no heartbeat fails.
LEMMA WholeHolds == ASSUME HeartbeatReliable PROVE PipelineSpec => []WholeInv
<1>1. Spec => []ExecutorInv
  BY LeasesAreHeld, PoolOnlyAssumption
<1>2. PipelineSpec => []ExecutorInv
  BY <1>1, Implements, PTL DEF ImplementsQueue
<1> QED
  BY <1>2, QueueHolds, PipelineStarts, PipelineKeeps, WholeStarts, WholeKeeps, PTL DEF PipelineSpec

\* With heartbeats that get through, what is published is the whole file and what was counted, also
\* when executors die at any step and their runs are resumed, cancelled or released later.
THEOREM WholeFile == ASSUME HeartbeatReliable PROVE PipelineSpec => []WholeFilePublished
<1>1. WholeInv => WholeFilePublished
  BY DEF WholeInv, AgreeInv, Agrees, RowAgrees, WholeFilePublished
<1> QED
  BY <1>1, WholeHolds, PTL

\* With heartbeats that get through, a run and the version it inserted tell the same story in every
\* state.
THEOREM SameStory == ASSUME HeartbeatReliable PROVE PipelineSpec => []RunAndVersionAgree
<1>1. PipelineInv /\ WholeInv => RunAndVersionAgree
  <2> SUFFICES ASSUME PipelineInv, WholeInv PROVE RunAndVersionAgree
    OBVIOUS
  <2>1. \A s \in Source : \A q \in DOMAIN version[s] :
          Agrees(version[s][q]) /\ RowHolds(s, version[s][q], run, options)
    BY DEF WholeInv, AgreeInv, PipelineInv, VersionsInv
  <2> QED
    BY <2>1 DEF RunAndVersionAgree, Agrees, RowAgrees, RowHolds
<1> QED
  BY <1>1, ListsHold, WholeHolds, PTL

-----------------------------------------------------------------------------
(* The VALIDATE step compares the staged records with those in force       *)
(* (module Validation).  What the bounds guarantee for every list, every   *)
(* file and every configuration.                                           *)

(* The records in force are those the file keeps and those it drops; the   *)
(* file holds those it keeps and those it adds.                            *)
LEMMA DiffCounts ==
  ASSUME NEW staged, NEW current,
         IsFiniteSet(DOMAIN staged), IsFiniteSet(DOMAIN current)
  PROVE  LET d == DiffPreview(staged, current)
             kept == Cardinality(DOMAIN current \cap DOMAIN staged)
         IN /\ kept \in Nat /\ d.previous \in Nat /\ d.removed \in Nat /\ d.added \in Nat
            /\ d.removed = d.previous - kept
            /\ d.added = Cardinality(DOMAIN staged) - kept
<1> DEFINE S == DOMAIN staged
           C == DOMAIN current
<1>1. /\ IsFiniteSet(C \ S) /\ Cardinality(C \ S) = Cardinality(C) - Cardinality(C \cap S)
      /\ IsFiniteSet(S \ C) /\ Cardinality(S \ C) = Cardinality(S) - Cardinality(S \cap C)
  BY FS_Difference
<1>2. IsFiniteSet(C \cap S) /\ S \cap C = C \cap S
  BY FS_Intersection
<1>3. /\ Cardinality(C) \in Nat /\ Cardinality(S) \in Nat /\ Cardinality(C \cap S) \in Nat
      /\ Cardinality(C \ S) \in Nat /\ Cardinality(S \ C) \in Nat
  BY <1>1, <1>2, FS_CardinalityType
<1> QED
  BY <1>1, <1>2, <1>3 DEF DiffPreview

(* Whatever a file that is published without review contains, it keeps the *)
(* list in force but for the removals both bounds allow: validate_data     *)
(* holds a removal above EITHER of them.                                   *)
THEOREM PassKeepsTheList ==
  ASSUME NEW Field, NEW cfg \in Bounds(Field, Nat), NEW m \in Measures(Field, Nat),
         NEW staged, NEW current,
         IsFiniteSet(DOMAIN staged), IsFiniteSet(DOMAIN current),
         Outcome(cfg, m, DiffPreview(staged, current)) = "PASS"
  PROVE  LET before == Cardinality(DOMAIN current)
             kept == Cardinality(DOMAIN current \cap DOMAIN staged)
         IN /\ kept + cfg.maxRemovedAbs >= before
            /\ 100 * kept + cfg.maxRemovedPct * before >= 100 * before
<1> DEFINE d == DiffPreview(staged, current)
           kept == Cardinality(DOMAIN current \cap DOMAIN staged)
<1>1. /\ kept \in Nat /\ d.previous \in Nat /\ d.removed \in Nat
      /\ d.removed = d.previous - kept
  BY DiffCounts
<1>2. d.previous = Cardinality(DOMAIN current)
  BY DEF DiffPreview
<1>3. cfg.maxRemovedAbs \in Nat /\ cfg.maxRemovedPct \in Nat
  BY DEF Bounds
<1>4. cfg.maxRemovedPct * d.previous \in Nat
  BY <1>1, <1>3
<1>5. ~LargeChange(cfg, d)
  BY DEF Outcome
<1>6. CASE d.previous > 0
  <2>1. ~(d.removed > cfg.maxRemovedAbs) /\ ~(100 * d.removed > cfg.maxRemovedPct * d.previous)
    BY <1>5, <1>6 DEF LargeChange, ManyRemoved
  <2> HIDE DEF d, kept
  <2>2. /\ kept + cfg.maxRemovedAbs >= d.previous
        /\ 100 * kept + cfg.maxRemovedPct * d.previous >= 100 * d.previous
    BY <2>1, <1>1, <1>3, <1>4
  <2> QED
    BY <2>2, <1>2 DEF kept
<1>7. CASE d.previous = 0
  <2> HIDE DEF d, kept
  <2>1. /\ kept + cfg.maxRemovedAbs >= d.previous
        /\ 100 * kept + cfg.maxRemovedPct * d.previous >= 100 * d.previous
    BY <1>1, <1>3, <1>4, <1>7
  <2> QED
    BY <2>1, <1>2 DEF kept
<1> QED
  BY <1>1, <1>6, <1>7

(* A file that shares nothing with the list in force (a truncated file, or *)
(* one whose keys changed: the signature of a parser bug) is never         *)
(* published without review, unless all removals are allowed.              *)
THEOREM ReplacedListIsReviewed ==
  ASSUME NEW Field, NEW cfg \in Bounds(Field, Nat), NEW m \in Measures(Field, Nat),
         NEW staged, NEW current,
         IsFiniteSet(DOMAIN staged), IsFiniteSet(DOMAIN current),
         DOMAIN current # {}, DOMAIN current \cap DOMAIN staged = {},
         cfg.maxRemovedPct < 100
  PROVE  Outcome(cfg, m, DiffPreview(staged, current)) # "PASS"
<1> DEFINE before == Cardinality(DOMAIN current)
<1> SUFFICES ASSUME Outcome(cfg, m, DiffPreview(staged, current)) = "PASS"
             PROVE  FALSE
  OBVIOUS
<1>1. Cardinality(DOMAIN current \cap DOMAIN staged) = 0
  BY FS_EmptySet
<1>2. before \in Nat /\ before # 0
  BY FS_CardinalityType, FS_EmptySet
<1>3. 100 * 0 + cfg.maxRemovedPct * before >= 100 * before
  BY <1>1, PassKeepsTheList
<1>4. cfg.maxRemovedPct \in Nat
  BY DEF Bounds
<1> HIDE DEF before
<1> QED
  BY <1>2, <1>3, <1>4

(* Between two files with the same measures, the one that keeps no more of *)
(* the list in force and adds no less is never treated more leniently.     *)
THEOREM LargerChangeIsNotMoreLenient ==
  ASSUME NEW Field, NEW cfg \in Bounds(Field, Nat), NEW m \in Measures(Field, Nat),
         NEW staged, NEW worse, NEW current,
         IsFiniteSet(DOMAIN staged), IsFiniteSet(DOMAIN worse), IsFiniteSet(DOMAIN current),
         DOMAIN current \cap DOMAIN worse \subseteq DOMAIN staged,
         DOMAIN staged \ DOMAIN current \subseteq DOMAIN worse,
         Outcome(cfg, m, DiffPreview(worse, current)) = "PASS"
  PROVE  Outcome(cfg, m, DiffPreview(staged, current)) = "PASS"
<1> DEFINE d == DiffPreview(staged, current)
           w == DiffPreview(worse, current)
<1>1. /\ d.previous \in Nat /\ d.removed \in Nat /\ d.added \in Nat
      /\ w.removed \in Nat /\ w.added \in Nat
  BY DiffCounts
<1>2. w.previous = d.previous
  BY DEF DiffPreview
<1>3. d.removed <= w.removed
  <2>1. DOMAIN current \ DOMAIN staged \in SUBSET (DOMAIN current \ DOMAIN worse)
    OBVIOUS
  <2>2. IsFiniteSet(DOMAIN current \ DOMAIN worse)
    BY FS_Difference
  <2> QED
    BY <2>1, <2>2, FS_Subset DEF DiffPreview
<1>4. d.added <= w.added
  <2>1. DOMAIN staged \ DOMAIN current \in SUBSET (DOMAIN worse \ DOMAIN current)
    OBVIOUS
  <2>2. IsFiniteSet(DOMAIN worse \ DOMAIN current)
    BY FS_Difference
  <2> QED
    BY <2>1, <2>2, FS_Subset DEF DiffPreview
<1>5. ~Untrusted(cfg, m) /\ ~LargeChange(cfg, w)
  BY DEF Outcome
<1>6. /\ cfg.maxRemovedAbs \in Nat /\ cfg.maxRemovedPct \in Nat
      /\ cfg.maxAddedAbs \in Nat /\ cfg.maxAddedPct \in Nat
  BY DEF Bounds
<1>7. cfg.maxRemovedPct * d.previous \in Nat /\ cfg.maxAddedPct * d.previous \in Nat
  BY <1>1, <1>6
<1> HIDE DEF d, w
<1>8. ~LargeChange(cfg, d)
  <2> SUFFICES ASSUME d.previous > 0
               PROVE  ~ManyRemoved(cfg, d) /\ ~ManyAdded(cfg, d)
    BY DEF LargeChange
  <2>1. ~ManyRemoved(cfg, w) /\ ~ManyAdded(cfg, w)
    BY <1>2, <1>5 DEF LargeChange
  <2>2. ~ManyRemoved(cfg, d)
    BY <2>1, <1>1, <1>2, <1>3, <1>6, <1>7 DEF ManyRemoved
  <2>3. ~ManyAdded(cfg, d)
    BY <2>1, <1>1, <1>2, <1>4, <1>6, <1>7 DEF ManyAdded
  <2> QED
    BY <2>2, <2>3
<1> QED
  BY <1>5, <1>8 DEF Outcome, d
=============================================================================
