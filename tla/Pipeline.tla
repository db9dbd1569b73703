------------------------------- MODULE Pipeline -------------------------------
(***************************************************************************)
(* What an executor does with a run (pipeline/runner.py): fetch, archive,  *)
(* validate, parse in batches, validate again, publish; the release of a   *)
(* held version; cancellation, errors, crashes, and the resumption of a    *)
(* run whose lease ran out.  The queue is that of RunQueue, whose actions  *)
(* are used here as they are.  Each action is one database transaction of  *)
(* the code, with the program steps up to the next one.                    *)
(*                                                                         *)
(* The rows of the published tables are left to module Publish: here the   *)
(* result of a publish is the set of staged batches it was made from.      *)
(***************************************************************************)
EXTENDS RunQueue, Sequences

CONSTANTS
  Bytes,        \* contents of the publisher's file (sha256)
  Options,      \* options a run may be requested with
  MaxVersions   \* bound: versions of a source

Batch == {1, 2}                                 \* a file is staged in two COPY batches
\* dry_run, force_refetch, reparse_sha256; release # 0 stands for run_kind RELEASE_HELD of that seq.
RunOptions == [dry : BOOLEAN, force : BOOLEAN, reparse : Bytes \cup {NULL}, release : 0..MaxVersions]

ASSUME OptionsAssumption == Options \subseteq {o \in RunOptions : o.release = 0}
ASSUME PoolOnlyAssumption == Caller = {}     \* run_once is left to RunQueue
ASSUME EveryOutcomeAssumption == Terminal \ {"ABANDONED"} \subseteq Outcomes
ASSUME BytesAssumption == NULL \notin Bytes
ASSUME VersionsAssumption == MaxVersions \in Nat

VARIABLES
  options,    \* ingestion_run.options and run_kind
  archived,   \* run_step ARCHIVE of a run is DONE: its sha256, or NULL
  staging,    \* staging_record: batches staged under a run id
  version,    \* list_version: for each source a sequence, the place is seq
  pc,         \* the step the executor is at
  bytes,      \* ctx.raw_sha256
  seq         \* ctx.version_id, 0 before the version is inserted

ctx == <<pc, bytes, seq>>
data == <<archived, staging, version, options>>
allvars == <<vars, ctx, data>>

VersionRow == [run     : RunId,
               bytes   : Bytes,
               status  : {"CANDIDATE", "VALIDATED", "HELD", "QUARANTINED", "PUBLISHED", "SUPERSEDED", "REJECTED"},
               count   : SUBSET Batch,                 \* record_count: what was validated
               release : {"NONE", "PENDING", "APPLIED", "REJECTED", "EXPIRED"},
               content : SUBSET Batch]                 \* what was published, {} if nothing was

Steps == {"NONE", "START", "FETCH", "ARCHIVE", "VALIDATE_FILE", "PARSE", "COPY1", "COPY2", "VALIDATE_DATA",
          "DRY_RUN", "DIFF_PUBLISH", "RELEASE", "PURGE"}

\* Type invariant; an executor is at a step of the pipeline exactly while it executes a run, and
\* a version is only inserted by a run of its own source.
PipelineTypeOK ==
  /\ TypeOK
  /\ options \in [RunId -> RunOptions]
  /\ archived \in [RunId -> Bytes \cup {NULL}]
  /\ staging \in [RunId -> SUBSET Batch]
  /\ version \in [Source -> Seq(VersionRow)]
  /\ pc \in [Executor -> Steps]
  /\ bytes \in [Executor -> Bytes \cup {NULL}]
  /\ seq \in [Executor -> 0..MaxVersions]
  /\ \A e \in Executor : phase[e] = "EXECUTING" <=> pc[e] \notin {"NONE", "PURGE"}
  /\ \A s \in Source : \A q \in DOMAIN version[s] : run[version[s][q].run].source = s

NoOptions == [dry |-> FALSE, force |-> FALSE, reparse |-> NULL, release |-> 0]

PipelineInit ==
  /\ Init
  /\ options = [r \in RunId |-> NoOptions]
  /\ archived = [r \in RunId |-> NULL]
  /\ staging = [r \in RunId |-> {}]
  /\ version = [s \in Source |-> <<>>]
  /\ pc = [e \in Executor |-> "NONE"]
  /\ bytes = [e \in Executor |-> NULL]
  /\ seq = [e \in Executor |-> 0]

-----------------------------------------------------------------------------
(* The queue *)

RequestRun(s, r, due, o) ==
  /\ Enqueue(s, r, due)
  /\ options' = [options EXCEPT ![r] = o]
  /\ UNCHANGED <<archived, staging, version, ctx>>

\* execute: a new RunContext.
StartsExecuting(e) ==
  /\ pc' = [pc EXCEPT ![e] = "START"]
  /\ bytes' = [bytes EXCEPT ![e] = NULL]
  /\ seq' = [seq EXCEPT ![e] = 0]
  /\ UNCHANGED data

\* Mutant: the step of the executor outlives its run.
StopsExecutingKeepsStep(e) ==
  /\ bytes' = [bytes EXCEPT ![e] = NULL]
  /\ seq' = [seq EXCEPT ![e] = 0]
  /\ UNCHANGED pc

StopsExecuting(e) ==
  /\ pc' = [pc EXCEPT ![e] = "NONE"]
  /\ bytes' = [bytes EXCEPT ![e] = NULL]
  /\ seq' = [seq EXCEPT ![e] = 0]

QueueStep ==
  \/ \E s \in Source, r \in RunId, due \in BOOLEAN, o \in Options : RequestRun(s, r, due, o)
  \/ \E e \in Executor, r \in RunId : Claim(e, r) /\ StartsExecuting(e)
  \/ \E e \in Executor : Crash(e) /\ StopsExecuting(e) /\ UNCHANGED data
  \/ /\ \/ \E r \in RunId : BecomeDue(r) \/ RequestCancel(r) \/ LeaseExpires(r)
        \/ \E s \in Source : SetSourceStatus(s)
        \/ \E e \in Executor : Heartbeat(e)
     /\ UNCHANGED <<ctx, data>>

\* Versions of run r that are not decided yet become REJECTED.
RejectOpen(versions, r) ==
  [q \in DOMAIN versions |->
     IF versions[q].run = r /\ versions[q].status \in {"CANDIDATE", "VALIDATED"}
       THEN [versions[q] EXCEPT !.status = "REJECTED"] ELSE versions[q]]

\* Mutant: the abandoned run itself goes back to the queue.
ReclaimRunInPlace(r, child) ==
  /\ run[r].status = "RUNNING" /\ run[r].lease = "EXPIRED" /\ child = NULL
  /\ run' = [run EXCEPT ![r] = QueuedRow(run[r].source, TRUE, run[r].parent, run[r].attempt)]
  /\ staging' = [staging EXCEPT ![r] = {}]
  /\ UNCHANGED <<thread, phase, sourceActive, archived, version, options, ctx>>

\* reclaim_abandoned: the run's open versions are rejected, its staging is deleted, and the
\* resumed run has the same options.
ReclaimRun(r, child) ==
  /\ Reclaim(r, child)
  /\ version' = [s \in Source |-> RejectOpen(version[s], r)]
  /\ staging' = [staging EXCEPT ![r] = {}]
  /\ options' = IF child = NULL THEN options ELSE [options EXCEPT ![child] = options[r]]
  /\ UNCHANGED <<archived, ctx>>

-----------------------------------------------------------------------------
(* Steps of an executor; r is its run, s the source of r *)

RunOf(e) == thread[e]
SourceOf(e) == run[thread[e]].source
At(e, step) == phase[e] = "EXECUTING" /\ pc[e] = step
Goto(e, step) == pc' = [pc EXCEPT ![e] = step]

Published(s) == {q \in DOMAIN version[s] : version[s][q].status = "PUBLISHED"}
SetStatus(s, q, status) == version' = [version EXCEPT ![s][q].status = status]

\* finish_run, and execute returns to the pool.
Finish(e, outcome) == FinishRun(e, outcome) /\ StopsExecuting(e)

\* _list_ingest begins: the bytes archived by the run this one resumes are used, or those it is
\* asked to parse again (a manual load archives its file first), else the publisher is contacted.
Start(e) ==
  /\ At(e, "START") /\ options[RunOf(e)].release = 0
  /\ LET parent == run[RunOf(e)].parent
         resumed == IF parent = NULL THEN NULL ELSE archived[parent]
         known == IF resumed # NULL THEN resumed ELSE options[RunOf(e)].reparse
     IN IF known # NULL
          THEN /\ archived' = [archived EXCEPT ![RunOf(e)] = known]
               /\ bytes' = [bytes EXCEPT ![e] = known]
               /\ Goto(e, "VALIDATE_FILE")
          ELSE Goto(e, "FETCH") /\ UNCHANGED <<archived, bytes>>
  /\ UNCHANGED <<vars, seq, staging, version, options>>

\* _fetch answers 304: the request was conditional on the published version, which the publisher
\* still serves.
NotModified(e) ==
  /\ At(e, "FETCH") /\ ~options[RunOf(e)].force
  /\ Published(SourceOf(e)) # {}
  /\ Finish(e, "NO_CHANGE")
  /\ UNCHANGED data

\* The publisher serves any file; it may have put out a new one at any time.
Fetch(e, b) ==
  /\ At(e, "FETCH")
  /\ bytes' = [bytes EXCEPT ![e] = b]
  /\ Goto(e, "ARCHIVE")
  /\ UNCHANGED <<vars, seq, data>>

\* Versions of s with the executor's bytes that still wait for somebody.
SameBytesPending(e) ==
  {q \in DOMAIN version[SourceOf(e)] : /\ version[SourceOf(e)][q].bytes = bytes[e]
                                       /\ version[SourceOf(e)][q].status \in {"HELD", "QUARANTINED"}}

\* _archive: the run ends here when the bytes are those of the published version, or of one that
\* is held or quarantined.
Archive(e) ==
  LET s == SourceOf(e)
      compare == ~options[RunOf(e)].force /\ ~options[RunOf(e)].dry
      same == \E q \in Published(s) : version[s][q].bytes = bytes[e]
  IN /\ At(e, "ARCHIVE")
     /\ archived' = [archived EXCEPT ![RunOf(e)] = bytes[e]]
     /\ IF compare /\ same THEN Finish(e, "NO_CHANGE")
        ELSE IF compare /\ SameBytesPending(e) # {}
          THEN \E q \in SameBytesPending(e) : /\ \A i \in SameBytesPending(e) : i <= q
                                              /\ Finish(e, version[s][q].status)
        ELSE Goto(e, "VALIDATE_FILE") /\ UNCHANGED <<vars, bytes, seq>>
     /\ UNCHANGED <<staging, version, options>>

\* _validate_file: the version row is inserted under the next seq.
ValidateFile(e, valid) ==
  LET s == SourceOf(e)
      q == Len(version[s]) + 1
      new == [run |-> RunOf(e), bytes |-> bytes[e], status |-> "CANDIDATE", count |-> {},
              release |-> "NONE", content |-> {}]
  IN /\ At(e, "VALIDATE_FILE") /\ q <= MaxVersions
     /\ version' = [version EXCEPT ![s] = Append(@, IF valid THEN new ELSE [new EXCEPT !.status = "QUARANTINED"])]
     /\ IF valid THEN Goto(e, "PARSE") /\ seq' = [seq EXCEPT ![e] = q] /\ UNCHANGED <<vars, bytes>>
        ELSE Finish(e, "QUARANTINED")
     /\ UNCHANGED <<archived, staging, options>>

\* _parse begins with the purge of what is staged under the run id.
PurgeStaging(e) ==
  /\ At(e, "PARSE")
  /\ staging' = [staging EXCEPT ![RunOf(e)] = {}]
  /\ Goto(e, "COPY1")
  /\ UNCHANGED <<vars, bytes, seq, archived, version, options>>

\* Mutant: what is left in the last batch is not flushed.
CopyFullBatchesOnly(e) ==
  \/ /\ At(e, "COPY1") /\ 1 \notin staging[RunOf(e)]
     /\ staging' = [staging EXCEPT ![RunOf(e)] = @ \cup {1}]
     /\ Goto(e, "VALIDATE_DATA")
     /\ UNCHANGED <<vars, bytes, seq, archived, version, options>>
  \/ FALSE

\* flush: one batch is copied; its rows may not be there yet (primary key).
Copy(e) ==
  \/ /\ At(e, "COPY1") /\ 1 \notin staging[RunOf(e)]
     /\ staging' = [staging EXCEPT ![RunOf(e)] = @ \cup {1}]
     /\ Goto(e, "COPY2")
     /\ UNCHANGED <<vars, bytes, seq, archived, version, options>>
  \/ /\ At(e, "COPY2") /\ 2 \notin staging[RunOf(e)]
     /\ staging' = [staging EXCEPT ![RunOf(e)] = @ \cup {2}]
     /\ Goto(e, "VALIDATE_DATA")
     /\ UNCHANGED <<vars, bytes, seq, archived, version, options>>

\* Mutant: the insert of the proposal does not end a run that is held.
ValidateDataHoldGoesOn(e, outcome) ==
  LET s == SourceOf(e)
      status == CASE outcome = "PASS" -> "VALIDATED"
                  [] outcome = "HOLD" -> "HELD"
                  [] outcome = "QUARANTINE" -> "QUARANTINED"
  IN /\ At(e, "VALIDATE_DATA")
     /\ version' = [version EXCEPT ![s][seq[e]].status = status,
                                   ![s][seq[e]].count = staging[RunOf(e)],
                                   ![s][seq[e]].release = IF outcome = "HOLD" THEN "PENDING" ELSE @]
     /\ IF outcome = "QUARANTINE" THEN Finish(e, status)
        ELSE Goto(e, "DIFF_PUBLISH") /\ UNCHANGED <<vars, bytes, seq>>
     /\ UNCHANGED <<archived, staging, options>>

\* _validate_data sets the status whatever it is, counts what is staged, and inserts the proposal
\* to release a version that is held.  Even a staging area that was purged may pass: only a source
\* with min_records above 0 quarantines it, and the annexes ship 0.
ValidateData(e, outcome) ==
  LET s == SourceOf(e)
      dry == options[RunOf(e)].dry
      status == CASE outcome = "PASS" -> "VALIDATED"
                  [] outcome = "HOLD" -> "HELD"
                  [] outcome = "QUARANTINE" -> "QUARANTINED"
      proposed == outcome = "HOLD" /\ ~dry
  IN /\ At(e, "VALIDATE_DATA")
     /\ version' = [version EXCEPT ![s][seq[e]].status = status,
                                   ![s][seq[e]].count = staging[RunOf(e)],
                                   ![s][seq[e]].release = IF proposed THEN "PENDING" ELSE @]
     /\ IF outcome = "QUARANTINE" \/ proposed THEN Finish(e, status)
        ELSE Goto(e, IF dry THEN "DRY_RUN" ELSE "DIFF_PUBLISH") /\ UNCHANGED <<vars, bytes, seq>>
     /\ UNCHANGED <<archived, staging, options>>

FinishDryRun(e) ==
  /\ At(e, "DRY_RUN")
  /\ SetStatus(SourceOf(e), seq[e], "REJECTED")
  /\ Finish(e, "DRY_RUN_OK")
  /\ UNCHANGED <<archived, staging, options>>

-----------------------------------------------------------------------------
(* Publishing *)

\* What publish_version makes of the versions of s when it publishes q: the published one and the
\* held ones before q are superseded, and every other pending release of the source expires.
VersionsAfter(s, q, content) ==
  [i \in DOMAIN version[s] |->
     IF i = q THEN [version[s][q] EXCEPT !.status = "PUBLISHED", !.content = content]
     ELSE [version[s][i] EXCEPT
             !.status = IF @ = "PUBLISHED" \/ (@ = "HELD" /\ i < q) THEN "SUPERSEDED" ELSE @,
             !.release = IF @ = "PENDING" THEN "EXPIRED" ELSE @]]

\* publish_version accepts q; what it refuses ends in Fails.
MayPublish(s, q) ==
  /\ version[s][q].status \in {"CANDIDATE", "VALIDATED", "HELD"}
  /\ \A i \in DOMAIN version[s] : i > q => version[s][i].status \notin {"PUBLISHED", "SUPERSEDED"}

\* The publishing transaction: q gets what is staged under run r, and the executor's run is closed.
PublishFrom(e, s, q, r) ==
  /\ MayPublish(s, q)
  /\ version' = [version EXCEPT ![s] = VersionsAfter(s, q, staging[r])]
  /\ FinishRun(e, "SUCCEEDED")
  /\ Goto(e, "PURGE")
  /\ UNCHANGED <<bytes, seq, archived, staging, options>>

DiffPublish(e) ==
  /\ At(e, "DIFF_PUBLISH")
  /\ PublishFrom(e, SourceOf(e), seq[e], RunOf(e))

\* _release_held, first transaction: the version must still be held with all its staging.  The
\* code compares numbers of rows; the batches of a file differ in size.
CheckRelease(e) ==
  LET v == version[SourceOf(e)][options[RunOf(e)].release] IN
  /\ At(e, "START") /\ options[RunOf(e)].release # 0
  /\ IF v.status = "HELD" /\ staging[v.run] = v.count
       THEN Goto(e, "RELEASE") /\ UNCHANGED <<vars, bytes, seq>>
       ELSE Finish(e, "FAILED")
  /\ UNCHANGED data

Release(e) ==
  LET s == SourceOf(e)
      q == options[RunOf(e)].release
  IN At(e, "RELEASE") /\ PublishFrom(e, s, q, version[s][q].run)

\* The transaction after a publish deletes the staging it was made from.
Purge(e) ==
  LET q == options[RunOf(e)].release
      from == IF q = 0 THEN RunOf(e) ELSE version[SourceOf(e)][q].run
  IN /\ phase[e] = "FINISHED" /\ pc[e] = "PURGE"
     /\ staging' = [staging EXCEPT ![from] = {}]
     /\ StopsExecuting(e)
     /\ UNCHANGED <<vars, archived, version, options>>

\* The purge fails: _finish_internal closes the run again.
PurgeFails(e) ==
  /\ pc[e] = "PURGE" /\ FailAfterFinish(e)
  /\ StopsExecuting(e)
  /\ UNCHANGED data

\* execute has returned, or its process dies between the publish and the purge.
Returns(e) == Return(e) /\ StopsExecuting(e) /\ UNCHANGED data

-----------------------------------------------------------------------------
(* Cancellation, errors, reviewers *)

\* Where check_cancel, or the fetcher, looks at the request.  It may come too late for any of them.
CancelPoints == {"FETCH", "VALIDATE_FILE", "PARSE", "COPY2", "VALIDATE_DATA", "DIFF_PUBLISH"}

\* The version the executor inserted becomes `status` unless it is decided already.
CloseOwnVersion(e, status) ==
  LET s == SourceOf(e) IN
  IF seq[e] # 0 /\ version[s][seq[e]].status \in {"CANDIDATE", "VALIDATED"}
    THEN SetStatus(s, seq[e], status) ELSE UNCHANGED version

\* _finish_cancelled
Cancelled(e) ==
  /\ phase[e] = "EXECUTING" /\ pc[e] \in CancelPoints /\ run[RunOf(e)].cancel
  /\ CloseOwnVersion(e, "REJECTED")
  /\ staging' = [staging EXCEPT ![RunOf(e)] = {}]
  /\ Finish(e, "CANCELLED")
  /\ UNCHANGED <<archived, options>>

\* Mutant: the exception handler forgets the version.
FailsVersionLeftOpen(e) ==
  /\ phase[e] = "EXECUTING"
  /\ Finish(e, "FAILED")
  /\ UNCHANGED data

\* _finish_internal for an exception at any step, _finish_fetch_failure for one of the publisher:
\* there is no version then.
Fails(e) ==
  /\ phase[e] = "EXECUTING"
  /\ CloseOwnVersion(e, "REJECTED")
  /\ Finish(e, "FAILED")
  /\ UNCHANGED <<archived, staging, options>>

\* _finish_data_failure: the parser fails, or a row of the batch is already staged.
ParseFails(e) ==
  /\ At(e, "COPY1") \/ At(e, "COPY2")
  /\ CloseOwnVersion(e, "QUARANTINED")
  /\ Finish(e, "QUARANTINED")
  /\ UNCHANGED <<archived, staging, options>>

Pending(s) == {q \in DOMAIN version[s] : version[s][q].release = "PENDING"}

\* decide for a LARGE_CHANGE_RELEASE: approval queues the release, unless the source is busy.
ApproveRelease(s, q, r) ==
  /\ q \in Pending(s)
  /\ Enqueue(s, r, TRUE)
  /\ options' = [options EXCEPT ![r] = [NoOptions EXCEPT !.release = q]]
  /\ version' = [version EXCEPT ![s][q].release = "APPLIED"]
  /\ UNCHANGED <<archived, staging, ctx>>

\* A rejection closes the proposal only.
RejectRelease(s, q) ==
  /\ q \in Pending(s)
  /\ version' = [version EXCEPT ![s][q].release = "REJECTED"]
  /\ UNCHANGED <<vars, ctx, archived, staging, options>>

-----------------------------------------------------------------------------
PipelineNext ==
  \/ QueueStep
  \/ \E r \in RunId, child \in RunId \cup {NULL} : ReclaimRun(r, child)
  \/ \E e \in Executor : Start(e) \/ NotModified(e) \/ Archive(e)
  \/ \E e \in Executor, b \in Bytes : Fetch(e, b)
  \/ \E e \in Executor, valid \in BOOLEAN : ValidateFile(e, valid)
  \/ \E e \in Executor : PurgeStaging(e) \/ Copy(e) \/ ParseFails(e)
  \/ \E e \in Executor, outcome \in {"PASS", "HOLD", "QUARANTINE"} : ValidateData(e, outcome)
  \/ \E e \in Executor : FinishDryRun(e) \/ DiffPublish(e) \/ CheckRelease(e) \/ Release(e)
  \/ \E e \in Executor : Purge(e) \/ PurgeFails(e) \/ Returns(e) \/ Cancelled(e) \/ Fails(e)
  \/ \E s \in Source : \E q \in Pending(s), r \in RunId : ApproveRelease(s, q, r)
  \/ \E s \in Source : \E q \in Pending(s) : RejectRelease(s, q)

PipelineSpec == PipelineInit /\ [][PipelineNext]_allvars

-----------------------------------------------------------------------------
(* Properties *)

\* Everything the pipeline does is something the queue allows: the pipeline implements RunQueue,
\* whose properties hold of it.
ImplementsQueue == Spec

IsPublished(v) == v.status = "PUBLISHED" \/ v.content # {}

\* What is published is the whole file, and for a released version what the validation counted:
\* not a staging area that was purged, or filled in part, by another executor.
WholeFilePublished ==
  \A s \in Source : \A q \in DOMAIN version[s] : IsPublished(version[s][q]) =>
    version[s][q].content = Batch /\ version[s][q].count = Batch

\* A version that was held is only published after its release was approved, and a dry run never
\* publishes, also when runs are executed twice, resumed or finish late.
PublishedWasAllowed ==
  \A s \in Source : \A q \in DOMAIN version[s] : IsPublished(version[s][q]) =>
    version[s][q].release \in {"NONE", "APPLIED"} /\ ~options[version[s][q].run].dry

\* A run and the version it inserted tell the same story, of what happened to both since:
\* a version that is still open belongs to a RUNNING run; one that was published without a review to
\* a run that says so, or that FAILED with its staging left because the purge after the publish did;
\* one that was published by a review to a run that is still HELD, as one that waits for the review
\* does unless a dry run left it; and a run that says HELD, QUARANTINED, SUCCEEDED, CANCELLED or
\* DRY_RUN_OK left its own version so, or what a review or a later version made of it.
RunAndVersionAgree ==
  \A s \in Source : \A q \in DOMAIN version[s] :
    LET v == version[s][q]
        status == run[v.run].status
    IN /\ v.status \in {"CANDIDATE", "VALIDATED"} => status = "RUNNING"
       /\ IsPublished(v) /\ v.release = "NONE" =>
            status = "SUCCEEDED" \/ (status = "FAILED" /\ staging[v.run] # {})
       /\ IsPublished(v) /\ v.release # "NONE" => status = "HELD"
       /\ v.status = "HELD" => status = "HELD" \/ (options[v.run].dry /\ v.release = "NONE")
       /\ status = "HELD" => v.status \in {"HELD", "PUBLISHED", "SUPERSEDED"} /\ v.release # "NONE"
       /\ status = "QUARANTINED" => v.status = "QUARANTINED"
       /\ status = "SUCCEEDED" => IsPublished(v) /\ v.release = "NONE"
       /\ status \in {"CANCELLED", "DRY_RUN_OK"} => v.status = "REJECTED"

=============================================================================
