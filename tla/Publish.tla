------------------------------- MODULE Publish -------------------------------
(***************************************************************************)
(* Publishing of list versions and handling of removals: publish_version   *)
(* and create_snapshot (pipeline/publish.py), assess and resolve           *)
(* (pipeline/removals.py), the two decisions of review.decide they belong  *)
(* to, and the tables and records_as_of of migrations/sql/0001_init.sql.   *)
(*                                                                         *)
(* Database sessions run their transactions under READ COMMITTED, the      *)
(* default that db/engine.py leaves in place: a statement sees what was    *)
(* committed when the statement starts.  A transaction that makes a        *)
(* snapshot is therefore four steps: its writes with the read of the held  *)
(* removals, the INSERT of the snapshot, the read of the published         *)
(* versions, the commit.  Writes that others cannot see before the commit  *)
(* are made at the commit; row locks are guards.                           *)
(***************************************************************************)
EXTENDS Integers, Sequences, FiniteSets

CONSTANTS
  Source,
  Key,            \* source_key: identifies a party within a source
  Content,        \* content hashes
  Session,        \* concurrent database sessions
  NULL,
  OneRun,         \* TRUE: executors whose run was taken from them do not go on (see RunQueue)
  MaxVersions,    \* bound: versions of all sources together
  MaxSnapshots    \* bound: snapshot ids

ASSUME PublishNullAssumption == NULL \notin Source \cup Key \cup Content \cup Session \cup Nat
ASSUME OneRunAssumption == OneRun \in BOOLEAN
ASSUME PublishBoundAssumption == MaxVersions \in Nat /\ MaxSnapshots \in Nat

VARIABLES
  version,       \* list_version: for each source a sequence, the place is seq
  releaseRun,    \* active runs of kind RELEASE_HELD, by source and seq
  row,           \* record_version: content and end of validity, by row id
  candidate,     \* removal_candidate.status, by last_record_version_id
  proposal,      \* rows with a PENDING proposal REMOVAL_CONFIRMATION
  snapshot,      \* screening_snapshot with its snapshot_version rows
  nextSnapshot,  \* the identity sequence of snapshot_id
  txn,           \* what each session is doing
  overlapped     \* history: two transactions that make snapshots have overlapped

pvars == <<version, releaseRun, row, candidate, proposal, snapshot, nextSnapshot, txn, overlapped>>

Seq1 == 1..MaxVersions
File == [Key -> Content \cup {NULL}]
RowId == [source : Source, key : Key, from : Seq1]

\* A version of a list.  "VALIDATED" stands for CANDIDATE too, and "REJECTED" for QUARANTINED.
\* release is the status of its LARGE_CHANGE_RELEASE proposal, public means published_at is set.
Version == [file    : File,
            status  : {"VALIDATED", "HELD", "PUBLISHED", "SUPERSEDED", "REJECTED"},
            release : {"NONE", "PENDING", "APPLIED", "REJECTED", "EXPIRED"},
            public  : BOOLEAN]

\* HOLDING_STATUSES; "PENDING" stands for EVIDENCE_FOUND too.
Holding == {"PENDING", "REJECTED_PARSER"}

\* "RELEASED" stands for CONFIRMED, STILL_LISTED_ELSEWHERE and REJECTED_ID_CHANGE.
CandidateStatus == {"NONE", "RELISTED", "RELEASED"} \cup Holding

Idle == [kind |-> "IDLE", source |-> NULL, seq |-> NULL, row |-> NULL, held |-> {}, id |-> NULL, pin |-> NULL]

Pins == [Source -> 0..MaxVersions]      \* snapshot_version: 0 when the source is not pinned

Row == [hash : Content, to : Seq1 \cup {NULL}]
Snapshot == [held : SUBSET RowId, pin : Pins]

ASSUME PublishRowAssumption == NULL \notin Row \cup Snapshot \cup Pins     \* no row is SQL NULL

Transaction == [kind   : {"IDLE", "PUBLISH", "RESOLVE"},
                source : Source \cup {NULL},
                seq    : Seq1 \cup {NULL},
                row    : RowId \cup {NULL},
                held   : SUBSET RowId,
                id     : (1..MaxSnapshots) \cup {NULL},
                pin    : Pins \cup {NULL}]

\* Type invariant; a row is open (to is NULL) or closed by a later version.
PublishTypeOK ==
  /\ version \in [Source -> Seq(Version)]
  /\ releaseRun \subseteq Source \X Seq1
  /\ row \in [RowId -> {NULL} \cup Row]
  /\ candidate \in [RowId -> CandidateStatus]
  /\ proposal \subseteq RowId
  /\ snapshot \in [1..MaxSnapshots -> {NULL} \cup Snapshot]
  /\ nextSnapshot \in 1..(MaxSnapshots + 1)
  /\ txn \in [Session -> Transaction]
  /\ overlapped \in BOOLEAN
  /\ \A r \in RowId : row[r] # NULL => row[r].to = NULL \/ row[r].to > r.from

PublishInit ==
  /\ version = [s \in Source |-> <<>>]
  /\ releaseRun = {}
  /\ row = [r \in RowId |-> NULL]
  /\ candidate = [r \in RowId |-> "NONE"]
  /\ proposal = {}
  /\ snapshot = [i \in 1..MaxSnapshots |-> NULL]
  /\ nextSnapshot = 1
  /\ txn = [t \in Session |-> Idle]
  /\ overlapped = FALSE

-----------------------------------------------------------------------------
(* The diff of a staged file against the current rows *)

Open(r) == row[r] # NULL /\ row[r].to = NULL
Lists(s, k) == \E r \in RowId : r.source = s /\ r.key = k /\ Open(r)
Unchanged(s, k, hash) ==
  IF hash = NULL THEN ~Lists(s, k)
  ELSE \E r \in RowId : r.source = s /\ r.key = k /\ Open(r) /\ row[r].hash = hash

Changed(s, q) == {k \in Key : ~Unchanged(s, k, version[s][q].file[k])}
Added(s, q) == {k \in Changed(s, q) : ~Lists(s, k)}                             \* ADD and RELIST
Removed(s, q) == {k \in Changed(s, q) : version[s][q].file[k] = NULL}

\* Mutant: the old row is closed one version early.
RowsAfterEarly(s, q) ==
  [r \in RowId |->
     IF r.source # s \/ r.key \notin Changed(s, q) THEN row[r]
     ELSE IF Open(r) THEN [row[r] EXCEPT !.to = q - 1]
     ELSE IF r.from = q /\ version[s][q].file[r.key] # NULL
       THEN [hash |-> version[s][q].file[r.key], to |-> NULL]
     ELSE row[r]]

\* Mutant: rows of removed parties stay open.
RowsAfterKeepRemoved(s, q) ==
  [r \in RowId |->
     IF r.source # s \/ r.key \notin Changed(s, q) \ Removed(s, q) THEN row[r]
     ELSE IF Open(r) THEN [row[r] EXCEPT !.to = q]
     ELSE IF r.from = q THEN [hash |-> version[s][q].file[r.key], to |-> NULL]
     ELSE row[r]]

\* record_version after version q of s is applied: changed and removed rows are closed at q, new
\* ones open at q.
RowsAfter(s, q) ==
  [r \in RowId |->
     IF r.source # s \/ r.key \notin Changed(s, q) THEN row[r]
     ELSE IF Open(r) THEN [row[r] EXCEPT !.to = q]
     ELSE IF r.from = q /\ version[s][q].file[r.key] # NULL
       THEN [hash |-> version[s][q].file[r.key], to |-> NULL]
     ELSE row[r]]

HasOpenCandidate(s, k) == \E r \in RowId : r.source = s /\ r.key = k /\ candidate[r] \in Holding

\* Mutant: a party that reappears keeps its open removal candidate.
CandidatesAfterNoRelist(s, q) ==
  [r \in RowId |->
     IF r.source = s /\ r.key \in Removed(s, q) /\ Open(r) /\ ~HasOpenCandidate(s, r.key) THEN "PENDING"
     ELSE candidate[r]]

\* removal_candidate after version q of s is applied: a removed row gets a candidate unless the
\* key has an open one (ON CONFLICT DO NOTHING); holds of parties that reappear are RELISTED.
CandidatesAfter(s, q) ==
  [r \in RowId |->
     IF r.source = s /\ r.key \in Removed(s, q) /\ Open(r) /\ ~HasOpenCandidate(s, r.key) THEN "PENDING"
     ELSE IF r.source = s /\ r.key \in Added(s, q) /\ candidate[r] \in Holding THEN "RELISTED"
     ELSE candidate[r]]

\* list_version and the release proposals of s after version q is published.
VersionsAfter(s, q) ==
  [i \in DOMAIN version[s] |->
     LET v == version[s][i] IN
       IF i = q THEN [v EXCEPT !.status = "PUBLISHED", !.public = TRUE]
       ELSE [v EXCEPT !.status = IF @ = "PUBLISHED" \/ (@ = "HELD" /\ i < q) THEN "SUPERSEDED" ELSE @,
                      !.release = IF @ = "PENDING" THEN "EXPIRED" ELSE @]]

-----------------------------------------------------------------------------
(* Versions arrive and are reviewed *)

Publishing(s) == \E t \in Session : txn[t].kind = "PUBLISH" /\ txn[t].source = s

\* No run of s works on a version; a late executor may, unless OneRun.
SourceFree(s) ==
  /\ \A q \in Seq1 : <<s, q>> \notin releaseRun
  /\ OneRun => \A q \in DOMAIN version[s] : version[s][q].status # "VALIDATED"

\* The pipeline stages a new file of s and validates it; a large change is held with a proposal
\* and its run ends.  The INSERTs refer to the source row and wait for a publisher's lock on it.
Stage(s, file, held) ==
  /\ Cardinality(UNION {{<<x, i>> : i \in DOMAIN version[x]} : x \in Source}) < MaxVersions
  /\ SourceFree(s) /\ ~Publishing(s)
  /\ version' = [version EXCEPT ![s] = Append(@,
       [file |-> file, public |-> FALSE, status |-> IF held THEN "HELD" ELSE "VALIDATED",
        release |-> IF held THEN "PENDING" ELSE "NONE"])]
  /\ UNCHANGED <<releaseRun, row, candidate, proposal, snapshot, nextSnapshot, txn, overlapped>>

InPublish(s, q) == \E t \in Session : txn[t].source = s /\ txn[t].seq = q

\* The run of a validated version is cancelled, fails or is abandoned.
Drop(s, q) ==
  /\ q \in DOMAIN version[s] /\ version[s][q].status = "VALIDATED" /\ ~InPublish(s, q)
  /\ version' = [version EXCEPT ![s][q].status = "REJECTED"]
  /\ UNCHANGED <<releaseRun, row, candidate, proposal, snapshot, nextSnapshot, txn, overlapped>>

\* review.decide on a LARGE_CHANGE_RELEASE: an approval queues a RELEASE_HELD run, which needs
\* the source to be free.
DecideRelease(s, q, approve) ==
  /\ q \in DOMAIN version[s] /\ version[s][q].release = "PENDING" /\ ~Publishing(s)
  /\ approve => SourceFree(s)
  /\ version' = [version EXCEPT ![s][q].release = IF approve THEN "APPLIED" ELSE "REJECTED"]
  /\ releaseRun' = IF approve THEN releaseRun \cup {<<s, q>>} ELSE releaseRun
  /\ UNCHANGED <<row, candidate, proposal, snapshot, nextSnapshot, txn, overlapped>>

\* A RELEASE_HELD run is cancelled or fails; the version stays HELD, the proposal APPLIED.
ReleaseEnds(s, q) ==
  /\ <<s, q>> \in releaseRun /\ ~InPublish(s, q)
  /\ releaseRun' = releaseRun \ {<<s, q>>}
  /\ UNCHANGED <<version, row, candidate, proposal, snapshot, nextSnapshot, txn, overlapped>>

-----------------------------------------------------------------------------
(* Transactions that make a snapshot *)

Busy == {t \in Session : txn[t].kind # "IDLE"}

\* The row locks of open transactions: candidates that a publisher relists or a reviewer decides.
LockedCandidate(r) ==
  \E t \in Session :
    \/ txn[t].kind = "RESOLVE" /\ txn[t].row = r
    \/ txn[t].kind = "PUBLISH" /\ txn[t].source = r.source /\ r.key \in Added(txn[t].source, txn[t].seq)

Begin(t, transaction) ==
  /\ txn[t].kind = "IDLE"
  /\ txn' = [txn EXCEPT ![t] = transaction]
  /\ overlapped' = (overlapped \/ Busy # {})
  /\ UNCHANGED <<version, releaseRun, row, candidate, proposal, snapshot, nextSnapshot>>

\* No version of s after q has been published.
NothingNewer(s, q) == \A i \in DOMAIN version[s] : version[s][i].status \in {"PUBLISHED", "SUPERSEDED"} => i <= q

\* publish_version up to the read of the held removals: for a validated version from its own
\* run, for a held one from a RELEASE_HELD run.
BeginPublish(t, s, q) ==
  /\ ~Publishing(s)
  /\ q \in DOMAIN version[s]
  /\ version[s][q].status = "VALIDATED" \/ (version[s][q].status = "HELD" /\ <<s, q>> \in releaseRun)
  /\ NothingNewer(s, q)
  /\ ~\E r \in RowId : r.source = s /\ r.key \in Added(s, q) /\ LockedCandidate(r)
  /\ Begin(t, [Idle EXCEPT !.kind = "PUBLISH", !.source = s, !.seq = q,
                           !.held = {r \in RowId : CandidatesAfter(s, q)[r] \in Holding}])

\* Mutant: the held removals are read before the reviewer's decision is written.
BeginResolveReadFirst(t, r) ==
  /\ r \in proposal /\ ~LockedCandidate(r)
  /\ Begin(t, [Idle EXCEPT !.kind = "RESOLVE", !.row = r,
                           !.held = {x \in RowId : candidate[x] \in Holding}])

\* review.decide on a REMOVAL_CONFIRMATION with a releasing resolution, up to the same read.
BeginResolve(t, r) ==
  /\ r \in proposal /\ ~LockedCandidate(r)
  /\ Begin(t, [Idle EXCEPT !.kind = "RESOLVE", !.row = r,
                           !.held = {x \in RowId \ {r} : candidate[x] \in Holding}])

\* create_snapshot: the INSERT takes the next snapshot id, for good.
InsertSnapshot(t) ==
  /\ txn[t].kind # "IDLE" /\ txn[t].id = NULL /\ nextSnapshot <= MaxSnapshots
  /\ txn' = [txn EXCEPT ![t].id = nextSnapshot]
  /\ nextSnapshot' = nextSnapshot + 1
  /\ UNCHANGED <<version, releaseRun, row, candidate, proposal, snapshot, overlapped>>

PublishedSeq(s) ==
  LET published == {q \in DOMAIN version[s] : version[s][q].status = "PUBLISHED"}
  IN IF published = {} THEN 0 ELSE CHOOSE q \in published : TRUE

\* create_snapshot: the published versions are pinned as this statement sees them.
PinVersions(t) ==
  /\ txn[t].id # NULL /\ txn[t].pin = NULL
  /\ txn' = [txn EXCEPT ![t].pin = [s \in Source |->
                           IF txn[t].source = s THEN txn[t].seq ELSE PublishedSeq(s)]]
  /\ UNCHANGED <<version, releaseRun, row, candidate, proposal, snapshot, nextSnapshot, overlapped>>

CommitSnapshot(t) ==
  /\ txn[t].pin # NULL
  /\ snapshot' = [snapshot EXCEPT ![txn[t].id] = [held |-> txn[t].held, pin |-> txn[t].pin]]
  /\ txn' = [txn EXCEPT ![t] = Idle]
  /\ UNCHANGED <<nextSnapshot, overlapped>>

CommitPublish(t) ==
  /\ txn[t].kind = "PUBLISH" /\ CommitSnapshot(t)
  /\ LET s == txn[t].source
         q == txn[t].seq
     IN /\ row' = RowsAfter(s, q)
        /\ candidate' = CandidatesAfter(s, q)
        /\ version' = [version EXCEPT ![s] = VersionsAfter(s, q)]
        /\ releaseRun' = releaseRun \ {<<s, q>>}
  /\ UNCHANGED proposal

CommitResolve(t) ==
  /\ txn[t].kind = "RESOLVE" /\ CommitSnapshot(t)
  /\ candidate' = [candidate EXCEPT ![txn[t].row] = IF @ \in Holding THEN "RELEASED" ELSE @]
  /\ proposal' = proposal \ {txn[t].row}
  /\ UNCHANGED <<version, releaseRun, row>>

\* An exception, a lost connection or a dead process: nothing is kept but the snapshot id.
Rollback(t) ==
  /\ txn[t].kind # "IDLE"
  /\ txn' = [txn EXCEPT ![t] = Idle]
  /\ UNCHANGED <<version, releaseRun, row, candidate, proposal, snapshot, nextSnapshot, overlapped>>

-----------------------------------------------------------------------------
(* Removals without a snapshot *)

\* Mutant: evidence alone releases the party, no reviewer is asked.
AssessReleases(r, evidence) ==
  /\ candidate[r] \in Holding /\ ~LockedCandidate(r)
  /\ candidate' = [candidate EXCEPT ![r] = IF evidence THEN "RELEASED" ELSE @]
  /\ proposal' = proposal \cup {r}
  /\ UNCHANGED <<version, releaseRun, row, snapshot, nextSnapshot, txn, overlapped>>

\* assess: with evidence of a delisting, or with a record that looks like the removed one under
\* another key, a removal is proposed; without either nothing changes.
Assess(r, evidence) ==
  /\ candidate[r] \in Holding /\ ~LockedCandidate(r)
  /\ candidate' = [candidate EXCEPT ![r] = IF evidence THEN "PENDING" ELSE @]
  /\ proposal' = proposal \cup {r}
  /\ UNCHANGED <<version, releaseRun, row, snapshot, nextSnapshot, txn, overlapped>>

\* review.decide: the removal is put down to the parser, and the party stays held.
BlameParser(r) ==
  /\ r \in proposal /\ ~LockedCandidate(r)
  /\ candidate' = [candidate EXCEPT ![r] = IF @ \in Holding THEN "REJECTED_PARSER" ELSE @]
  /\ proposal' = proposal \ {r}
  /\ UNCHANGED <<version, releaseRun, row, snapshot, nextSnapshot, txn, overlapped>>

\* review.decide: the proposal is rejected, and the candidate is left as it is.
RejectRemoval(r) ==
  /\ r \in proposal /\ ~\E t \in Session : txn[t].row = r
  /\ proposal' = proposal \ {r}
  /\ UNCHANGED <<version, releaseRun, row, candidate, snapshot, nextSnapshot, txn, overlapped>>

-----------------------------------------------------------------------------
PublishNext ==
  \/ \E s \in Source, file \in File, held \in BOOLEAN : Stage(s, file, held)
  \/ \E s \in Source, q \in Seq1 : Drop(s, q) \/ ReleaseEnds(s, q)
  \/ \E s \in Source, q \in Seq1, approve \in BOOLEAN : DecideRelease(s, q, approve)
  \/ \E t \in Session, s \in Source, q \in Seq1 : BeginPublish(t, s, q)
  \/ \E t \in Session, r \in RowId : BeginResolve(t, r)
  \/ \E t \in Session : InsertSnapshot(t) \/ PinVersions(t) \/ CommitPublish(t) \/ CommitResolve(t) \/ Rollback(t)
  \/ \E r \in RowId, evidence \in BOOLEAN : Assess(r, evidence)
  \/ \E r \in RowId : BlameParser(r) \/ RejectRemoval(r)

PublishSpec == PublishInit /\ [][PublishNext]_pvars

-----------------------------------------------------------------------------
(* Properties *)

ValidAt(r, q) == row[r] # NULL /\ r.from <= q /\ (row[r].to = NULL \/ row[r].to > q)

\* The sanctions.records_as_of function: the rows a screening decision on snapshot i used.
RecordsAsOf(i) == {r \in RowId : ValidAt(r, snapshot[i].pin[r.source])} \cup snapshot[i].held

Latest(i) == snapshot[i] # NULL /\ \A j \in 1..MaxSnapshots : snapshot[j] # NULL => j <= i

\* Every version that was ever published can still be read back from the rows' validity
\* intervals: each party it listed has exactly one row then, with the content of the file.
ReconstructsEveryVersion ==
  \A s \in Source : \A q \in DOMAIN version[s] : version[s][q].public =>
    \A k \in Key :
      LET rows == {r \in RowId : r.source = s /\ r.key = k /\ ValidAt(r, q)}
      IN /\ Cardinality(rows) <= 1
         /\ {row[r].hash : r \in rows} = {version[s][q].file[k]} \ {NULL}

\* A hold concerns a party that is off the list now, at most one hold per party: a reappearing
\* party is never both listed and held, and a late decision never hits a party that is back.
HeldIsOffTheList ==
  \A r \in RowId : candidate[r] \in Holding =>
    /\ row[r] # NULL /\ ~Lists(r.source, r.key)
    /\ \A x \in RowId : x.source = r.source /\ x.key = r.key /\ candidate[x] \in Holding => x = r

\* While transactions that make snapshots do not overlap, the latest snapshot is what the tables
\* say: the rows that are open and the rows that are held.
SerialSnapshotIsExact ==
  ~overlapped => \A i \in 1..MaxSnapshots : Latest(i) =>
    RecordsAsOf(i) = {r \in RowId : Open(r) \/ candidate[r] \in Holding}

\* "It keeps blocking (held in every screening snapshot) until a human confirms it": a party whose
\* removal is undecided is in the latest snapshot.
UnconfirmedRemovalIsHeld ==
  \A r \in RowId, i \in 1..MaxSnapshots :
    candidate[r] \in Holding /\ Latest(i) =>
      \E x \in RecordsAsOf(i) : x.source = r.source /\ x.key = r.key

\* Publishing implements the promise to screening: parties stop blocking only by a reviewed removal.
View == INSTANCE ScreeningView
          WITH Party <- Source \X Key,
               blocked <- {p \in Source \X Key : Lists(p[1], p[2]) \/ HasOpenCandidate(p[1], p[2])},
               review <- {<<r.source, r.key>> : r \in proposal}

BlocksUntilReviewed == View!Spec
=============================================================================
