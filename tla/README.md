# Sanctions-list ingestion: TLA+ models, checks and proofs

The repository ingests sanctions lists: it downloads each publisher's file, archives, validates and
parses it, publishes it as a new version of the list, and pins the versions that screening uses in a
*snapshot*. Postgres is the only coordinator: the run queue, leases, checkpoints, locks and published
data are rows. This directory models that core in TLA+, checks it with TLC and proves with TLAPS every
safety property that it checks. Definitions carry the names of the code where TLA+ allows it; `PROJECT.json` maps every
definition to the lines it stands for.

    tlc -config RunQueue.cfg MCRunQueue       # a run: see the table below
    tlapm Pipeline_proofs.tla                 # the proofs

## Inventory

| component | state | operations | what makes it hard | what makes it correct |
|---|---|---|---|---|
| Run queue `pipeline/runs.py` | `ingestion_run` rows: status, lease, cancel request, parent, attempt; `run_step` | enqueue, claim (SKIP LOCKED), heartbeat, cancel, finish, reclaim and resume | many writers; leases that run out under a live executor; crashes | one active run per source; every run ends; bounded resumption |
| Worker pool `ops/worker.py`, inline `runner.run_once` | threads, futures, a heartbeat thread for each run | poll, execute, shut down | claim, work and close are separate transactions; an inline run has an hour's lease and no heartbeat | no two executors for a source |
| Runner `pipeline/runner.py` | `RunContext` in memory; `list_version`, `staging_record` | FETCH, ARCHIVE, VALIDATE_FILE, PARSE, VALIDATE_DATA, DIFF_PUBLISH, RELEASE_HELD; cancel, dry run, failure | a transaction per step, crashes between them, resumption, late executors | whole files only; nothing unapproved; run and version agree |
| Publish `pipeline/publish.py` | `record_version` intervals, `list_version`, `removal_candidate`, `screening_snapshot` | diff, apply, supersede, snapshot | one source is locked, but a snapshot reads all; READ COMMITTED | old snapshots reproducible; newest version wins; removed parties keep blocking |
| Removals `pipeline/removals.py` | candidates and their proposals | assess, resolve | reviewers race with publishes | a party stops blocking only by review |
| Review `review.py` | `proposed_change` | decide, by kind | a decision starts work that may fail later | a decision takes effect, once |
| Source state `pipeline/source_state.py` | failures, breaker, due times | on_success, on_failure, breaker_allows | the half-open probe is persisted by a question | breaker closes again; politeness |
| Planner `ops/autopilot.py`, `scheduling/schedule.py` | due times, staleness incidents | plan, watchdog, chores, gate | delayed retries hold a source's slot | every source is pulled in time |
| Supervisor `ops/scheduler.py` | the day's housekeeping | tick: reclaim, purge, agent, autopilot, poll, alerts | one failing part must not stop the others | queued work is claimed, abandoned work reclaimed |
| Configuration `sources/config_service.py` | source, config versions, proposals | update, roll back, decide, set_status | optimistic locking, maker-checker | no lost update, no self-approval |
| Agent `agent/*` | cycles, actions, budgets | run_cycle, guarded tools, extraction | time limits, budgets, failures in the middle of a tick | limits hold; ingestion never depends on it |
| Enrichment, notices `enrichment/*` | enrichment records, requests, notices, links, signals | batch, on demand, match | partial failure, superseding | one current result per subject and provider |
| EU annexes `sources/l1/eu_annex.py` | curated entries | propose, apply, render | an approval meets changed entries | applied entries are the verified ones |
| Incidents, alerts `ops/*` | incidents, alert marks | open, resolve, dispatch | duplicates; a failing sender | one open incident per key |
| HTTP client `http/*`, blob store `storage/blobstore.py` | `fetch_evidence`, `raw_artifact`, files under their hash | guarded GET with redirects, validators, retries; put_file | retries against cancellation, 304 for bytes that were held, two writers of one name, crashes | what is published has evidence, or was named by the run that re-parsed it, and a whole blob; a pull ends |
| Validation `pipeline/validate.py` | none | measure against bounds | thresholds that are asymmetric on purpose | a large change is never published without review |
| API, console, CLI `api/*`, `cli.py` | forms, roles | edit, decide, run, cancel, import | stale forms | every change goes through the components above |
| Adapters, canonical model | none | parse | publishers' formats | unit tests reach them |

They interact through the tables: the supervisor (and users, the agent, reviewers) inserts QUEUED
runs; pools claim and execute them; the runner calls publish; publish files removal candidates, which
the chores assess and reviewers decide, whose decision makes a snapshot or queues a release run.

`PROJECT.json` lists the hazards, each with its line, and the properties that would catch it.

## Plan

Done, in this order: **RunQueue** (the queue with executors as black boxes), **Publish** over
**ScreeningView** (versions, rows, removals, snapshots; the promise to screening as a refinement), **Pipeline**
(EXTENDS RunQueue, opens the executor, implements the queue), **SourceState** (one source between planner, guards
and its row), **ConfigChange**, **Fetch**, **Supervisor**, **Enrichment**, **Curation** (each of its own), and
**Validation** (a pure function: which verdict the pipeline's `ValidateData` gets).

Their proofs followed the same order, in a module `*_proofs` for each; Validation, which has no state, is proved at the end
of `Pipeline_proofs`, and Supervisor, whose proofs are few, at the end of `Publish_proofs`.

To come: the daily retention of staging (`_daily`) against releases, and links between notices and parties.

Parameters are CONSTANTS with named assumptions, there is one action for each operation, and no module
declares a RECURSIVE operator, so that all of them can be proved about.

## Modules

### RunQueue

`run` is the table `ingestion_run`, `thread` and `phase` say what each executor works on,
`sourceActive` is `source.status = 'ACTIVE'`. An executor is a thread of a pool (`Slot`) or a process in
`run_once` (`Caller`).

| action | code |
|---|---|
| `Enqueue` | `enqueue_run`, with and without a later `not_before` (`BecomeDue`) |
| `RequestCancel` | `request_cancel` |
| `Claim` | `WorkerPool.poll` with `claim_next`; any due row, since SKIP LOCKED may pass over the first |
| `RunOnceQueue`, `RunOnceStart`, `RunOnceFails` | the two transactions of `run_once`: the second sets RUNNING without looking at the status, so it may revive a cancelled run, or meet the unique index |
| `Heartbeat`, `LeaseExpires` | the heartbeat thread; the passing of `lease_seconds`. A lease is VALID or EXPIRED, time is abstract |
| `FinishRun`, `FailAfterFinish` | `finish_run` by run id alone; the second closing when the work after a publish fails |
| `Return`, `Crash` | `execute` returns, the process dies |
| `Reclaim` | `reclaim_abandoned` for one row: ABANDONED, and a child if the chain is short and the source active |
| `SetSourceStatus` | `ConfigService.set_status` |

A late executor is part of the model: after `LeaseExpires` and `Reclaim` the thread still executes and
may still close its row, ABANDONED or not, as in the code.

### Publish and ScreeningView

A version has a file (what each key lists), a status, its release proposal and whether it was public. `row` is
`record_version`: an interval for each (source, key, first seq). Publishing and resolving are
transactions of several steps, `Begin*`, `InsertSnapshot`, `PinVersions`, `Commit*` or `Rollback`,
because under READ COMMITTED the list of held removals, the snapshot id and the pinned versions are
read at three moments. Row locks are guards (`Publishing`, `LockedCandidate`, `InPublish`). `Stage`,
`Drop`, `DecideRelease`, `ReleaseEnds` are what the pipeline and reviewers do to versions meanwhile;
`Assess`, `BlameParser`, `RejectRemoval` are the rest of the removals. "VALIDATED" stands for CANDIDATE
too, "REJECTED" for QUARANTINED, "PENDING" for EVIDENCE_FOUND: publishing treats them alike.

`ScreeningView` is the promise without versions and rows: a set of blocking parties and a set of removals
under review. `BlocksUntilReviewed` says that Publish implements it, with `blocked` mapped to the
parties that are listed or have an open candidate.

### Pipeline

EXTENDS RunQueue and conjoins its actions: `Claim(e, r) /\ StartsExecuting(e)`, `Finish` =
`FinishRun /\ StopsExecuting`, `ReclaimRun` = `Reclaim` with the rejection of open versions and the purge of
staging. Each action is a transaction of the runner with the program steps up to the next one: `Start` (with the
checkpoint of the parent, or `reparse_sha256`), `NotModified`, `Fetch`, `Archive`, `ValidateFile`,
`PurgeStaging`, `Copy` (two batches), `ValidateData`, `FinishDryRun`, `DiffPublish`, `CheckRelease`, `Release`,
`Purge`, `PurgeFails`; `Cancelled`, `Fails`, `ParseFails` from any step the code allows; `ApproveRelease` and
`RejectRelease` by reviewers. The publisher's file, the verdict of the validations and the time of every
failure are inputs. A file is two batches, and the result of a publish is the set of batches it
was made from; the rows themselves are Publish's. A count of staged rows is the set of staged batches.

### SourceState

One row of `source`, the setting `maintenance_mode`, whether an unconsumed `signal` exists, the active run
and where `autopilot_cycle` stands. `RunQueue` proves that a source has one active run, so it is one record, `run`;
leases are taken to hold (late executors are Pipeline's). Time passes in units (`Advance`): a time stamp in the past is
an age, one in the future the time left, each capped where no guard tells the difference. `contactAge` is
the publisher's own view: the time since it was last contacted, whatever the row says.

| action | code |
|---|---|
| `RunNow`, `Watchdog`, `Plan` | `enqueue_guarded` (`Admitted`, `EnqueueGuarded`) for the console and the agent, the watchdog, the planner; a refusal changes nothing, but a breaker past its retry time is HALF_OPEN once asked, also when the slot is taken |
| `ScheduleRetry`, `ApproveRelease`, `RunInline` | the ways around the guards: the agent's delayed retry, a release from review, the CLI |
| `Chores` | the end of a pause |
| `Claim`, `Contact`, `Archive` | `claim_next`, the contact recorded before the download, the ARCHIVE checkpoint |
| `Publish`, `NoChange`, `DryRunEnds`, `DataProblem`, `Fails`, `Cancelled` | how a run ends and what it writes to the row (`OnSuccess`, `OnDataProblem`, `OnFailure`) |
| `CrashAndReclaim` | the process dies, the reclaimer queues the resuming run or gives up |
| `SetStatus`, `ApplyConfig`, `ToggleMaintenance`, `SignalArrives` | operators and publishers |

`kind` and `origin` stand for run_kind, options, trigger and requester. A forced re-fetch is a PULL: the model lets any PULL
end in any outcome. `enqueue_guarded` is one step: the row is read and the run inserted in one transaction, and what may change
between is another run of the same source that starts and ends within it. Cron schedules, curated lists and DRAFT sources are left out.

### ConfigChange

One source, its `source_config_version` and `proposed_change` rows and what each user has loaded into the edit form (`form`),
which is how a change can be based on a version long replaced. A configuration is a required URL, an optional block with
a URL of its own (`sanctions_map`) and a bound that is not sensitive. `Replaces` says which changes of a URL the code holds to be
sensitive: either URL is replaced by another one; a block that appears or goes is none.

| action | code |
|---|---|
| `Load`, `Edit` | `source_detail`, `patch_source` with `update_source`: optimistic lock (`Unchanged`), sensitive paths become a proposal |
| `AgentProposes`, `Rollback`, `SeedOverwrites` | `propose_config_change`, `rollback`, `import_seed` |
| `RequestActivation`, `ApproveActivation`, `ApproveChange`, `Reject` | `request_activation`, `decide_change` through `review.decide` |
| `SetStatus`, `PausePasses`, `AutoResume` | `set_status`, the clock, `chores` |

### Fetch

One pull of a source (`pull.phase` walks through host check, request, body, failure, wait, archive and decision), the rows of
`fetch_evidence` and `raw_artifact`, the published file, and the blob store with `put_file` in steps for the pull and another thread.
`Check`, `Redirected`, `NotModified`, `Answered`, `RequestFails` are `fetch_to_file`; `CancelSeen` and the attempts are
`fetch_with_retry`; `Look` to the row are `put_file` and `archive_raw`. The publisher answers as it likes. `Reparse` is a run for archived
bytes (`reparse`, the agent's `reparse_archived`, and `load-manual`, whose put and row are another writer's): it asks for a row of
`raw_artifact` and no evidence, and `reparsed` collects what such runs name. `EndRun` publishes, holds or drops the file, `Release` publishes a held one.

### Supervisor

`pc` is the next step of `Supervisor.tick`: chores and the agent's cycle, watchdog, planner, poll, alerts. The agent does anything its
tools and limits allow (`Takes`), ends, fails or times out; any step may raise, which ends the tick. Two kinds of incidents
matter, STALE and CORE_SOURCE_DISABLED, each with severity, acknowledgement and the age of its last alert. Runs end and resolve
incidents (`Settled`), people acknowledge, resolve, pause, switch off and resume.

### Enrichment

`records` is `enrichment_record` of one provider, `batch` its run, `request` the lookups on demand. `store_result` is two steps,
`StoreReads` and a commit, because nothing locks the subject between them; `overlapped` remembers the subjects where two stores did overlap.
`Subjects` is the query of a batch with the filter `wants` after its LIMIT. `KeysOf` says which records of the provider a subject may match. `Decide` is the review of a match; a proposal names one
record, so it is a field of that record, and `Open` is the unique index, which covers open proposals only: a match that was decided can be proposed again.

### Curation

Acts are collected as notices (`Collect`), turned into proposals by the extractor (`ExtractAnnexAct`, by hand
`AnnexExtractNotice`) or from a CSV (`AnnexImportCsv`), decided (`Approve`, `Reject`), and the active entries are rendered
(`BuildReads`, then `Archive`, since entries and date are read in two statements) and published. While an act has an open proposal there is
no second one (`Proposed`); once it is decided, there may be. The model's answer is any set of names, of
which `verify` accepts those in the text.

The steps after the archive are one action, with the verdict that Validation gives for the content (`Holds`): a large change is held
with a proposal for its release (`Hold`, `ApproveRelease`, `RejectRelease`, `Release`), an error while parsing quarantines
(`ParserFails`), and a file with the bytes of a version that is published, held or quarantined ends the run in `Archive`. `Reparse` takes any archived file, an older one
than is published too, since a curated file carries no publication date the regression check could compare.

### Validation

`Outcome` is `validate_data` without its warnings, over the counts of `diff_preview` on two maps from keys to hashes. Percentages are
natural numbers and quotients are compared by multiplying, so the rounding of floats is left out. `MCPipeline` checks on small
lists that the outcomes are exactly the three `ValidateData` of Pipeline may take.

## What the runs show

| run | bounds | shows |
|---|---|---|
| `queue` | 1 source, 7 run ids given out in order, 1 pool thread, 1 inline caller, 1 request (queued or inline), heartbeats that get through, fairness | `TypeOK`, `OneActivePerSource`, `ResumeChainBounded`, `ActiveRunEnds` |
| `publish` | 2 sources, 1 key, 2 contents, 2 sessions, 3 versions, 3 snapshots | `PublishTypeOK`, `ReconstructsEveryVersion`, `HeldIsOffTheList`, `SerialSnapshotIsExact`, `BlocksUntilReviewed` |
| `pipeline` | 1 source, 3 ids, 2 threads, 2 files, 2 versions, 2 requests, reliable heartbeats; plain, dry and re-parsing runs | `PipelineTypeOK`, `WholeFilePublished`, `RunAndVersionAgree`, `ExclusiveExecution`, `PublishedWasAllowed`, `ImplementsQueue` |
| `source` | cadence 4, politeness 3 less 1 of grace, staleness ceiling 6, threshold 2, waits up to 2 and 4; two acts of users, agent, publisher or crashes; fairness | `SourceTypeOK`, `PolitePulls`, `NoPullInBackoff`, `OnlyNewDataIsFresh`, `PulledAgain` |
| `config` | 2 admins, 1 operator, the agent, 2 URLs of which 1 is allowed, seeds with and without a block, 3 versions, 2 proposals, 2 changes of status | `ConfigTypeOK`, `OneVersionInForce`, `FourEyes`, `NoLostUpdate` |
| `fetch` | 2 files, 1 allowed and 1 forbidden host, 3 attempts, 1 redirect, 1 other writer; fairness | `FetchTypeOK`, `PublishedIsProven`, `CancelStopsRetries`, `UnchangedMeansPublished`, `PullEnds` |
| `supervisor` | 1 core list, 2 kinds of incidents, 1 enqueue and 1 incident write per cycle; fairness | `SupervisorTypeOK`, `CoreOffIsReported`, `AlertsGoOut`, `StaleIsPulled` |
| `enrichment` | 3 subjects (1 unwanted, 1 that may be dropped and matches either of 2 keys), batches of 2, 1 error, 1 proposal, 1 lookup on demand, 1 refresh period, 1 stopped batch | `EnrichmentTypeOK`, `SerialStoreIsCurrent`, `ReviewIsAsked` |
| `curation` | 1 act, 2 vessels of which its text names 1, 1 analyst who is also a reviewer, another reviewer, 2 proposals, 2 disturbances (failures, crashes, re-parses); fairness | `CurationTypeOK`, `ListedWasApproved`, `ApprovedIsPublished` |

Runs that find a disagreement between the code and what the repository says of it:

| run | property | disagreement |
|---|---|---|
| `snapshot_skew` | `UnconfirmedRemovalIsHeld` | overlapping snapshot transactions: the latest snapshot pins a version without the hold that came with it (removals.py:3) |
| `half_published` | `WholeFilePublished` | a late executor revives its rejected version and publishes what it staged after the purge (publish.py:3, architecture.md:124) |
| `starvation` | `WantedAreEnriched` | with 2 unwanted subjects in front of 1 wanted one and batches of 2, no batch ever asks about the wanted one (base.py:163). The shipped `companies_house` source has this shape: it wants British companies only, of four lists, 300 at a time (README.md:4, config_models.py:146) |

Every property of a passing run has a mutant: a plausible mistake in one mapped definition (the operators
under a `Mutant:` comment) with which TLC finds the property violated in the same configuration.

### Met while modelling

The modules do what the code does here, and no run is spent on it.

*Pipeline and source.* Releasing an older held version expires the proposal of a newer held one as "superseded by a newer
published version" (publish.py:442); nothing can release that one any more. It stays HELD, so every later pull of the same bytes ends
as UNCHANGED_PENDING (runner.py:338). The same befalls a version whose release was rejected, or was approved and then failed. A dry run that
dies or fails between HELD and REJECTED leaves a held version without a proposal (runner.py:600, runbook.md:58). A source with `min_records` 0, as the annexes ship
it, does not quarantine an empty staging area. A manual load is published without `fetch_evidence`: its run is the record (cli.py:277). A resumed run of a resumed run that had not archived downloads
again (runner.py:146, README.md:17). A re-parse that fails or is cancelled moves the politeness clock, and a failure counts against the source (runner.py:845,
architecture.md:134). An agent's retry is queued, and queued runs are claimed, while maintenance mode is on (runbook.md:141, tools.py:206);
`schedule_retry` asks neither breaker nor politeness. A run that resumes a download from its archive publishes new data and is not counted as fresh,
because `fetched` belongs to the run that died (runner.py:64). A forced re-fetch is refused while the breaker is open (runbook.md:89).

*Configuration.* An optional block with a URL (`sanctions_map`) can be set or removed by one admin: only a changed value is sensitive, so one admin replaces its URL in two edits, first to
nothing and then to another one, though architecture.md:245 and admin-guide.md:44 ask for approval. `FourEyes` is about a URL that one version replaces. DRAFT, PAUSED, ACTIVE, or the end of a pause, activates a source without the approval of admin-guide.md:101.
Auto-resume and the trusted seed skip `check_hosts`. The EXPIRED mark of a conflicting proposal is rolled back by the exception that follows
it (config_service.py:390). Maker and checker are compared by recorded name, so `cli:ann` and `ann` are two people.
`ApproveActivation` does not look at what the status has become meanwhile.

*Supervisor.* A step that keeps raising keeps every later step of the tick from happening: `AlertsGoOut` and `StaleIsPulled` assume that steps
do not raise for ever. An alert is marked sent though no channel delivered it; a sender that raises rolls the marks back and alerts go
out twice. Two openings of one incident race for its unique key, and the loser raises. The day's budget is read once per cycle.

*Enrichment.* Two overlapping stores leave two current records of a subject. A decision may be about a record that has been superseded: an uncertain answer that arrives while
its match has an open proposal gets none of its own, and when that one is decided, the current record stays NEEDS_REVIEW. A request whose provider raises stays REQUESTED.

*Curation.* An act whose text could not be fetched is stored without it, never fetched again, and cannot be extracted. An act that both adds and removes becomes one ADD
proposal, which re-adds what it delists. A verified entry without an IMO number makes a proposal impossible to approve. The change a file is curated
as of is not moved by a REMOVE, and is read in a statement of its own. With `max_removed_pct` 5, removing one entry of fewer than twenty is held for a
second review although the removal was approved; until that, the list does not follow the entries. A re-parse of an archived file puts an earlier list in force (runner.py:382
compares publication dates, which curated files lack).

### Why the bounds are enough

*Queue.* Seven ids are one run, requested or inline, with the three that may resume it, and three more: `run_once` may revive its row after the reclaimer
gave it up, and a second line of resumed runs begins, so that a chain that is one too long would show. A rival request beside that run needs the
proof (`OneActive`), which has no bound. Sources interact with each other only through the threads, so one source and both kinds of executor
give every race for its slot. Ids are given out in order, which takes the place of symmetry where liveness is checked. *Publish.* A party of one source interacts with another one only through
snapshots; two sources with one key, two contents and three versions give add, change, remove, relist, and
a held version overtaken by another. Two sessions are what the skew of a snapshot needs. *Pipeline.*
Two files and versions, plain, dry and re-parsing runs give a file that is held, read again from the archive and overtaken.
Two threads and three ids give a run, the run that resumes it and a late executor (or another request);
late executors, which come with heartbeats that fail, are the subject of `half_published` and of the proofs. Two batches are the least of which a part can be missing. `Pausable` is empty here: pausing matters to the reclaimer only
(resume or not), and `queue` covers it with `Pausable = {s1}`. The proofs below remove the bounds for what they cover.
*Source.* The planner, the runs and their
outcomes go on for ever; the two acts bound only what others do (requests, pauses, maintenance, signals, cancellations, crashes), and
two give, for instance, a crash during a download with a manual pull after it, or a pause during a delayed retry. Three failures
are counted apart, where every wait is at its maximum (`WaitsSaturate`); politeness and cadence differ, so a slot may be
impolite, and the grace, at most a tenth of the interval in the code, is a third of it, so that an error of one unit shows.
*Config.* Two admins are what four eyes take; three versions and two proposals give an edit under a proposal under another edit, with a rollback or an import
between them; seeds with a block let its URL be replaced too. *Fetch.* Three attempts give a retry after a retry and a last one; a second file tells a publisher's new file from the one held or published.
*Supervisor.* One source suffices, since incidents carry its key; the limits of 1 are reached in every cycle. *Enrichment.* One refresh makes every record stale once, one lookup overlaps every store of the batch, and a subject with two keys gets a match that is not the one
under review. In `starvation` the unwanted subjects just fill a batch. *Curation.* With two proposals an approval meets entries and the run of another one; the act can be proposed again. One
of two entries may go (`AnnexLimits`: 50 %), as one of twenty may with the shipped 5 %, so that both ways a removal can go are there:
one passes, both at once are held. Two disturbances give a crash or a failure of a run that was re-parsed.

`CHECK_DEADLOCK FALSE` where ids, versions and snapshots run out or a console falls silent; `source`, `enrichment`, `starvation` and `curation`
check for deadlock.

### Fairness

In `queue` it is only what the loops of `run_forever` and the pool justify: a due run that
could be claimed all the time is claimed (a poll every two seconds), an expired lease is reclaimed (every tick),
`not_before` passes, an executor that neither crashes nor stays behind comes to an end, and the lease of a run
that nobody executes runs out. The last is strong fairness, since such a run can be claimed and lost again and
again. Nothing is assumed of operators or crashes. Of heartbeats the run does assume something: `RunQueue.cfg` sets `HeartbeatReliable`, so a pool's lease
does not run out under a live executor (an inline caller has no heartbeat, and its lease may); without it the instance does not fit the time of a run, and
the safety of the queue rests on the theorems, which do not assume it. The run ids are finite, so executors
cannot crash infinitely often with new runs; `ResumeChainBounded` is what bounds the real chain.

In `source` the autopilot's transactions take turns for ever (`run_forever` goes on after a tick that failed), a queued run is
claimed, a run goes on and ends, and time passes, all by weak fairness. No outcome is favoured: a source whose pulls fail for ever is still
pulled again, which is what `PulledAgain` says. It excuses a source that in the end stays paused or disabled, or under maintenance.

In `fetch` the executor of the pull goes on, and time-outs see to it that every request is answered or fails; the publisher and the other
thread owe nothing. In `supervisor` ticks begin, the agent's cycle ends, at its time-out if not before, a refusal by
breaker or politeness passes, and every step of the tick succeeds some time when it is tried again and again (strong fairness, since an exception ends the tick before the later steps):
a database that fails at the same step for ever is excluded,
an agent that fails or times out in every cycle is not. In `starvation` batches are started and end, and a provider asked about a subject
again and again answers some time: the wanted subject waits although all that is granted. In `curation` the planner and the executors go on, and nobody has to extract or decide; so a version that is
held or quarantined may wait for ever, and `ApprovedIsPublished` says that the approved entries end published or in such a version (`Waits`).

## What is proved

For every value of the constants; the instance a run checks is one of them. Each module has one inductive invariant (or a few, one resting
on the other) which says of the states on the way what the property says of their end; TLC checked it on the instance of the run, with
`Seq(S)` read element by element, before it was proved.

Some theorems say more than a run asks: what a row, a decision, a version or a snapshot may never become again. They are
defined in the proof modules (marked * below); TLC had checked each on the instance of the run (for Pipeline without
reliable heartbeats: 7.6 million states) before it was proved.

**RunQueue**, for every number of sources, runs and executors:

| theorem | states |
|---|---|
| `TypeCorrect` | `Spec => []TypeOK` |
| `OneActive` | `Spec => []OneActivePerSource`; inductive with `TypeOK`: the index guards every insert and `RunOnceStart`, `Reclaim` hands its slot to the child |
| `ChainBounded` | `Spec => []ResumeChainBounded`; `LineageInv` adds that parents and the runs of executors are not UNUSED, without which a parent's attempt could change after its child was numbered |
| `Leases` | `Spec => []RunningIsLeased`: a RUNNING row carries a lease |
| `Exclusive` | `Spec => []ExclusiveExecution`; `ExecutorInv` says that an executing thread's run is RUNNING with a valid lease and owned by that thread (`HoldsLease`), and that a finished one's is terminal; exclusion of two threads then follows from `OneActive` |
| `OneThreadPerRun` | without inline callers no run is worked on by two threads, whatever heartbeats do: a run that was claimed once is never QUEUED again |
| `EndedStay` * | `Spec => EndedRunsStay`: a run that ended keeps its end. `finish_run` and `FailAfterFinish` write by run id alone; `ClosedByItself` says that the run of an executor which has closed it was not given up, so that the second closing may turn a run FAILED but never revives an ABANDONED one |

**Pipeline** implements RunQueue, so what is proved of the queue holds of it:

| theorem | states |
|---|---|
| `Implements` | `PipelineSpec => ImplementsQueue`: every pipeline step is a step of RunQueue or leaves it alone |
| `PipelineExclusive` | `PipelineSpec => []ExclusiveExecution`, from that and `Exclusive` |
| `PipelineTypeCorrect` | `PipelineSpec => []PipelineTypeOK` |
| `PublishedAllowed` | `PipelineSpec => []PublishedWasAllowed`, without any assumption on heartbeats. `PipelineInv` adds what an executor knows at each program step (`StepInv`: which version is its own, that nobody has proposed or published that one, that a dry run is never about to publish), that a version belongs to one ingest run (`VersionsInv`), and that a run that releases was requested by an approval (`ReleaseInv`) |
| `WholeFile`, `SameStory` | `PipelineSpec => []WholeFilePublished` and `[]RunAndVersionAgree`. `WholeInv` adds to `PipelineInv` what is staged at each program step and for a release (`WorkInv`), and how the status of a run and that of its version go together (`AgreeInv`): for each end a run reports, what its version is or what a review or a later version made of it. It is inductive only while an executor that works holds its lease (`ExecutorInv`, from RunQueue), hence the hypothesis `HeartbeatReliable`; without it `half_published` shows the property false |
| `OneListMovesForward` * | `PipelineSpec => []OneListInForce /\ ListGoesForward`, with or without reliable heartbeats: a source never has two published versions, and its list is only replaced by a later one |
| `PublicationsAreFinal` * | `PipelineSpec => PublicationsStand`, likewise: no late executor, crash, resumption or reviewer changes what was published; `ContentIsPublished` says that only versions that were published have content |

**Validation**, for every list, file and configuration:

| theorem | states |
|---|---|
| `PassKeepsTheList` | a file published without review keeps the list in force but for `maxRemovedAbs` records and `maxRemovedPct` percent of it: both bounds hold, from `DiffCounts`, which relates the counts of the diff to the sets of keys |
| `ReplacedListIsReviewed` | a file that shares no key with a list in force is never published without review, unless all removals are allowed |
| `LargerChangeIsNotMoreLenient` | of two files with the same measures, the one that keeps no more and adds no less never gets a milder outcome |

**Publish**, for every number of sources, keys, versions, sessions and snapshots:

| theorem | states |
|---|---|
| `PublishTypeCorrect` | `PublishSpec => []PublishTypeOK` |
| `EveryVersionIsReconstructed` | `PublishSpec => []ReconstructsEveryVersion`; `VersionInv`: what is in force is the last that was published; `RowInv`: intervals begin and end at published versions, and those of a key never overlap; `TxnInv`: a version under publication has nothing newer published, and no two sessions publish one source. `ReadBackInv` is the property in a form that is inductive with them |
| `NeverHeldAndListed` | `PublishSpec => []HeldIsOffTheList`, inductive with the same invariants: a party that a publish lists is taken off the candidates in the same commit, and one whose row it closes has no other candidate |
| `SerialSnapshots` | `PublishSpec => []SerialSnapshotIsExact`; `IdInv` says that snapshot ids are handed out once, `SerialInv` that until two transactions overlap the one at work is alone and holds and pins what it will commit |
| `BlocksUntilDecided` | `PublishSpec => BlocksUntilReviewed`: under the mapping of `blocked` to the parties that are listed or held, each step is a step of ScreeningView or a stutter; `ReviewInv` says that a removal somebody is deciding has its proposal locked, so it was filed and nobody else decides it |
| `RowsNeverChange` * | `PublishSpec => RowsAreImmutable`: the trigger `record_version_guard` never has anything to refuse |
| `SnapshotsListPublishedFiles` * | `PublishSpec => []SnapshotsListFiles`, also when transactions overlap: a snapshot lists of each source what one published version listed. `SnapshotInv` adds that ids under way are unused and that what is pinned was published |
| `ScreeningReproduces` * | `PublishSpec => ScreeningIsReproducible`: a snapshot reads the same rows for ever, since a row that is opened or closed later belongs to a later version than those it pins |

**SourceState**, for every cadence, interval, threshold and backoff:

| theorem | states |
|---|---|
| `SourceTypeCorrect` | `Spec => []SourceTypeOK`: every wait stays within cadence, interval and backoffs |
| `BreakerCounts` | `Spec => []BreakerCountsFailures`: the breaker is closed exactly below the threshold |
| `PullsArePolite`, `BackoffIsRespected` | `Spec => PolitePulls`, `Spec => NoPullInBackoff`; the invariant adds `RowTellsContact` (the row never claims an older attempt than the publisher saw, which the write before the download keeps), `BackoffWhileOpen` (only an open breaker backs off) and `StillAdmitted` (what the guards saw when a run was queued still holds until it contacts the publisher, since every step that moves the clock or opens the breaker ends the run) |
| `FreshnessIsEarned` | `Spec => OnlyNewDataIsFresh` |

**ConfigChange**, for every number of people, URLs, versions and proposals:

| theorem | states |
|---|---|
| `ConfigTypeCorrect`, `OneInForce` | `Spec => []ConfigTypeOK`, `Spec => []OneVersionInForce`: exactly one version is in force, the one the row names |
| `ReviewedByAnother` | `Spec => []FourEyes`, for both URLs of a configuration; the invariant adds that a proposal names the version its author wrote (`ProposalNamesItsVersion`), which no other one names (`OneProposalEach`), and that a version was made from an earlier one (`BaseIsEarlier`) |
| `NothingLost` | `Spec => NoLostUpdate`, an action property, from the same invariant: `update_source` and `decide` compare the version a change was made from with the one in force |
| `HistoryKept` * | `Spec => HistoryIsKept`: the history is append-only; a version keeps its number, configuration, author and base, and its status only moves on |
| `AgentNeverDecides` * | `Spec => []AgentOnlyProposes`: what the agent wrote is in force only after an admin approved it (config_service.py:3) |

**Fetch**, for every number of files, hosts, attempts, redirects and other writers:

| theorem | states |
|---|---|
| `FetchTypeCorrect`, `AttemptsAreOnRecord` | `Spec => []FetchTypeOK`, `Spec => []EveryAttemptLeavesARow`: every attempt that ended has its row of evidence |
| `ProvenWhenPublished` | `Spec => []PublishedIsProven`: what is published or held has evidence or was named by the run that re-parsed it, has a row, and its blob is whole; `StoreIsWhole` says that no name of the blob store holds a part of a file, `GotIsOnRecord` that the file of a pull has evidence before it is archived and is archived before it is parsed |
| `CancelIsHeeded` | `Spec => []CancelStopsRetries`; `WaitsOnlyOnce`: a pull that waits has begun nothing since it was cancelled |
| `UnchangedIsPublished` | `Spec => UnchangedMeansPublished`; `ValidatorsArePublished`: the validators a pull sends are those of the published file |

**Enrichment**, for every number of subjects, lookups, batch sizes and limits:

| theorem | states |
|---|---|
| `EnrichmentTypeCorrect` | `Spec => []EnrichmentTypeOK`; `RequestInv` says that a request which is done names a record of its subject |
| `LastStoredIsCurrent` | `Spec => []SerialStoreIsCurrent`; `StoreInv` says that what a store has read is still the current record when it commits, unless stores of the subject overlapped, and `HasCurrent` that a subject with records has a current one, so a store that read none is the first |
| `UncertainIsReviewed` | `Spec => []ReviewIsAsked`, inductive with the two before: the index on open proposals keeps a match from being asked about twice, and a verdict stays on the record it was given for |
| `AnsweredStaysAnswered` * | `Spec => []HasCurrent`: a subject that was ever answered about has a current record, even where stores overlap (and leave two) |
| `VerdictsStand` * | `Spec => VerdictsAreFinal`: records are only added, a superseded one is never current again, and a verdict is given once, on a record whose proposal waits for it |

**Curation**, for every number of acts, entries, people and proposals:

| theorem | states |
|---|---|
| `CurationTypeCorrect` | `Spec => []CurationTypeOK`; `OneOpen` is the index on open proposals |
| `ApprovedWhenListed` | `Spec => []ListedWasApproved`. The published list was read from the entries several steps and transactions before, so `ListsInv` says the same of every list on the way: the entries in force, what a run read of them, what it archived and what is published. It holds because a decision is final (`Kept`) and the marker only grows; `AgentQuotes` says that the agent's verified entries are in the text of the act |
| `DecisionsAreFinal`, `ListChangesByApproval` * | `Spec => DecidedOnce`, `Spec => OnlyApprovalsChangeTheList`: a proposal is decided once, by another than its author; an entry comes or goes only with the approval of a proposal that verified it |
| `PublishedGoesForward` * | `Spec => BackByReparseOnly`: the published list goes back to an earlier change only when an archived file is parsed again, or what that run held is released. A resumed run publishes the file its predecessor archived, a release one that waited, and still neither goes back: `AsOfOrder` orders what is published, held, under way and newest while a source has one run at a time, which RunQueue proves, and a release supersedes what was held before |

**Supervisor**, for every limit of the agent (at the end of `Publish_proofs`):

| theorem | states |
|---|---|
| `SupervisorTypeCorrect` | `Spec => []SupervisorTypeOK`: no cycle does more than its limits allow |
| `CoreOffStaysReported` | `Spec => []CoreOffIsReported`; proved together with its converse and `PausedIsOff` (a pause is a list that is off), one step of the tick, the agent, users and runs after the other |
| `CoreReportsAreTrue` * | `Spec => []CoreReportIsTrue`, the converse |

The theorems rest on the named ASSUMEs of the modules, which TLC evaluates in every run. RunQueue: executors of the two kinds are different, NULL is no id, reported outcomes
are terminal. Pipeline: no inline callers, every outcome may be reported, bytes are not NULL. Publish: NULL is neither a key nor a number
nor a file. SourceState: positive intervals, grace and override floor below the politeness interval, a bound on failures not below the
threshold. ConfigChange: room for the first version. Supervisor: its limits are numbers. Enrichment: NULL is neither a number nor a lookup. Curation: the agent is neither an analyst nor a reviewer
(its recorded name is `agent:supervisor`, which no person goes by).
`WholeFile`, `SameStory` and `EndedStay` assume `HeartbeatReliable`, `OneThreadPerRun` and `EndedStay` assume `Caller = {}`, and `Exclusive` has both conditions in the
property. Without them they are false, as `half_published` shows of the first; what then still holds, with late executors, is the subject of `PublishedAllowed`, `Implements`,
`OneListMovesForward` and `PublicationsAreFinal`.

The proofs corrected the models in one place: that a proposal's dedupe key is unique among open proposals only, so that a match or an act which was decided can be proposed
again, came to light when the invariants of Enrichment and Curation were written down.

Every invariant and action property of a passing run has its theorem. Only model-checked: the liveness properties `ActiveRunEnds`, `PulledAgain`, `PullEnds`, `AlertsGoOut`, `StaleIsPulled`,
`ApprovedIsPublished` (liveness under fairness is beyond TLAPS), and `UnconfirmedRemovalIsHeld`, `WantedAreEnriched` and the unconditional reading of
`WholeFilePublished`, which are false.

## What is not modelled

Batches of runs, priorities, progress and metrics do not change what the modelled parts do.
Child tables, change events and the cross-list table are derived from the rows in the same transaction.
`run_once` is modelled in RunQueue, not in Pipeline, and the instances of Pipeline never force a re-fetch. A cancel request may be noticed late at every point where
the code looks for it. Late executors are Pipeline's: Curation, Fetch and Enrichment take leases to hold. Except in
SourceState clocks are abstract: a lease is valid or expired, a run due or not, an alert recent or long ago.

Left out of the parts that are modelled: TLS and the pinning of addresses, the token bucket (it delays requests and decides nothing), reading blobs back
and the S3 store (I/O of a service); incidents opened by runs and the channels of alerts; the agent's read tools, tracing and dollars; links between notices and parties
and their matching (scores over text); leads of the sanctions map (they change no entry), and foreign files loaded by hand in place of a curated one; cron schedules; the daily retention of staging, which needs a
clock in days. Left out altogether: the parsers and the canonical model, which are functions of publishers' formats, the presentation
of console and CLI, and the chat analyst, which only reads.
