---------------------------- MODULE Publish_proofs ----------------------------
(***************************************************************************)
(* Theorems about Publish, for any number of sources, parties, contents,   *)
(* sessions, versions and snapshots.                                       *)
(*                                                                         *)
(* The inductive invariant, PublishInv, adds to the invariants what they   *)
(* rest on: which versions were ever in force (VersionInv), that rows      *)
(* begin and end with such versions and never overlap (RowInv), that a     *)
(* transaction under way may still commit (TxnInv), and that a session     *)
(* which is alone holds and pins what the tables say (SerialInv).          *)
(* BlocksUntilDecided maps each step to a step of ScreeningView; it needs  *)
(* the row locks too (ReviewInv). That snapshots keep what they were       *)
(* committed with rests on SnapshotInv: what it pins was published.        *)
(*                                                                         *)
(* At the end, with names of its own, what the tick and the agent          *)
(* guarantee of their incidents (module Supervisor).                       *)
(***************************************************************************)
EXTENDS Publish, Supervisor, FiniteSetTheorems, SequenceTheorems, TLAPS

\* Version q of s was published once.
IsPublic(s, q) == q \in DOMAIN version[s] /\ version[s][q].public

\* What was published is in force or superseded, and what is in force is the last that was published.
VersionInv ==
  \A s \in Source : \A i \in DOMAIN version[s] :
    /\ version[s][i].public =>
         /\ i \in Seq1 /\ version[s][i].status \in {"PUBLISHED", "SUPERSEDED"}
         /\ \E j \in DOMAIN version[s] : version[s][j].status = "PUBLISHED"
    /\ version[s][i].status = "PUBLISHED" =>
         /\ version[s][i].public
         /\ \A j \in DOMAIN version[s] : version[s][j].public => j <= i

SameParty(r, x) == r.source = x.source /\ r.key = x.key

\* Rows are opened and closed by published versions, and the validity of two rows of a party never
\* overlaps.
RowInv ==
  /\ \A r \in RowId : row[r] # NULL =>
       /\ IsPublic(r.source, r.from)
       /\ row[r].to # NULL => IsPublic(r.source, row[r].to) /\ row[r].to > r.from
  /\ \A r, x \in RowId : \A q \in Seq1 : SameParty(r, x) /\ ValidAt(r, q) /\ ValidAt(x, q) => r = x

\* The version a session publishes is one nothing newer was published than; what it has not reached
\* yet is NULL.
Entitled(x) ==
  /\ x.kind = "PUBLISH" =>
       /\ x.source \in Source /\ x.seq \in DOMAIN version[x.source] \cap Seq1
       /\ version[x.source][x.seq].status \in {"VALIDATED", "HELD"}
       /\ NothingNewer(x.source, x.seq)
  /\ x.kind # "PUBLISH" => x.source = NULL /\ x.seq = NULL
  /\ x.kind = "RESOLVE" => x.row \in RowId
  /\ x.kind = "IDLE" => x.id = NULL
  /\ x.pin # NULL => x.id # NULL

\* No two sessions publish versions of one source.
TxnInv ==
  /\ \A t \in Session : Entitled(txn[t])
  /\ \A t, u \in Session : txn[t].kind = "PUBLISH" /\ txn[u].kind = "PUBLISH" /\ txn[t].source = txn[u].source => t = u

\* A published version is read back from the rows: each valid row has the content of the file, and
\* what the file lists has one.
ReadBackInv ==
  \A s \in Source : \A q \in DOMAIN version[s] : version[s][q].public => \A k \in Key :
    /\ \A r \in RowId : r.source = s /\ r.key = k /\ ValidAt(r, q) => row[r].hash = version[s][q].file[k]
    /\ version[s][q].file[k] # NULL => \E r \in RowId : r.source = s /\ r.key = k /\ ValidAt(r, q)

Held == {r \in RowId : candidate[r] \in Holding}

\* What a session writes into its snapshot when no other makes one meanwhile.
HeldBy(x) ==
  IF x.kind = "PUBLISH"
    THEN {r \in RowId : CandidatesAfter(x.source, x.seq)[r] \in Holding}
    ELSE Held \ {x.row}

PinnedBy(x) == [s \in Source |-> IF x.source = s THEN x.seq ELSE PublishedSeq(s)]

\* Snapshot ids are handed out once.
IdInv ==
  /\ \A i \in 1..MaxSnapshots : snapshot[i] # NULL => i < nextSnapshot
  /\ \A t \in Session : txn[t].id # NULL => txn[t].id < nextSnapshot

\* A session that is alone holds what it will commit.
Exact(x) ==
  /\ x.held = HeldBy(x)
  /\ x.pin # NULL => x.pin = PinnedBy(x)
  /\ x.id # NULL => \A i \in 1..MaxSnapshots : snapshot[i] # NULL => i < x.id

\* While no two sessions that make snapshots overlap, the one at work is alone.
SerialInv ==
  ~overlapped => /\ \A t, u \in Busy : t = u
                 /\ \A t \in Busy : Exact(txn[t])

\* The inductive invariant.
PublishInv ==
  /\ PublishTypeOK /\ VersionInv /\ RowInv /\ TxnInv /\ IdInv
  /\ ReadBackInv /\ HeldIsOffTheList
  /\ SerialInv /\ SerialSnapshotIsExact

\* The types, in the form the proofs use them.
LEMMA PublishTypes ==
  ASSUME PublishTypeOK
  PROVE  /\ \A s \in Source : /\ version[s] \in Seq(Version) /\ Len(version[s]) \in Nat
                              /\ DOMAIN version[s] = 1..Len(version[s])
                              /\ \A i \in DOMAIN version[s] : version[s][i] \in Version
         /\ \A r \in RowId : /\ r.source \in Source /\ r.key \in Key /\ r.from \in Seq1
                             /\ candidate[r] \in CandidateStatus
                             /\ row[r] # NULL => row[r] \in Row
         /\ \A t \in Session : txn[t] \in Transaction
<1>1. ASSUME NEW s \in Source
      PROVE  /\ version[s] \in Seq(Version) /\ Len(version[s]) \in Nat
             /\ DOMAIN version[s] = 1..Len(version[s])
             /\ \A i \in DOMAIN version[s] : version[s][i] \in Version
  <2>1. version[s] \in Seq(Version)
    BY DEF PublishTypeOK
  <2> QED
    BY <2>1, LenProperties, ElementOfSeq
<1>2. \A r \in RowId : row[r] # NULL => row[r] \in Row
  BY DEF PublishTypeOK
<1> QED
  BY <1>1, <1>2 DEF PublishTypeOK, RowId

\* What may happen to the versions outside of a publish: new ones are inserted, and a validated
\* version that nobody publishes is dropped.
VersionKept(s, i, v, w) ==
  /\ w.file = v.file /\ w.public = v.public
  /\ w.status # v.status => v.status = "VALIDATED" /\ w.status = "REJECTED" /\ ~InPublish(s, i)

VersionsKept ==
  \A s \in Source :
    /\ DOMAIN version[s] \subseteq DOMAIN version'[s]
    /\ \A i \in DOMAIN version'[s] :
         \/ i \in DOMAIN version[s] /\ VersionKept(s, i, version[s][i], version'[s][i])
         \/ i \notin DOMAIN version[s] /\ ~version'[s][i].public /\ version'[s][i].status \in {"VALIDATED", "HELD"}

\* The published version of a source stays what it is.
LEMMA PublishedStays ==
  ASSUME VersionsKept, NEW s \in Source
  PROVE  /\ PublishedSeq(s)' = PublishedSeq(s)
         /\ \A q \in DOMAIN version[s] : NothingNewer(s, q) => NothingNewer(s, q)'
<1>1. \A i \in DOMAIN version'[s] : version'[s][i].status \in {"PUBLISHED", "SUPERSEDED"} =>
        i \in DOMAIN version[s] /\ version[s][i].status = version'[s][i].status
  BY DEF VersionsKept, VersionKept
<1>2. \A i \in DOMAIN version[s] : version[s][i].status \in {"PUBLISHED", "SUPERSEDED"} =>
        i \in DOMAIN version'[s] /\ version[s][i].status = version'[s][i].status
  BY DEF VersionsKept, VersionKept
<1>3. {q \in DOMAIN version'[s] : version'[s][q].status = "PUBLISHED"}
        = {q \in DOMAIN version[s] : version[s][q].status = "PUBLISHED"}
  BY <1>1, <1>2
<1>4. PublishedSeq(s)' = PublishedSeq(s)
  <2> DEFINE Chosen(S) == IF S = {} THEN 0 ELSE CHOOSE q \in S : TRUE
  <2>1. /\ PublishedSeq(s) = Chosen({q \in DOMAIN version[s] : version[s][q].status = "PUBLISHED"})
        /\ PublishedSeq(s)' = Chosen({q \in DOMAIN version'[s] : version'[s][q].status = "PUBLISHED"})
    BY DEF PublishedSeq
  <2> HIDE DEF Chosen
  <2> QED
    BY <1>3, <2>1
<1>5. \A q \in DOMAIN version[s] : NothingNewer(s, q) => NothingNewer(s, q)'
  BY <1>1 DEF NothingNewer
<1> QED
  BY <1>4, <1>5

\* The diff of a version against unchanged rows stays what it is, and so does what it makes of the
\* candidates, apart from the status of those that are held.
LEMMA DiffStays ==
  ASSUME VersionsKept, UNCHANGED row, \A r \in RowId : candidate'[r] \in Holding <=> candidate[r] \in Holding,
         NEW s \in Source, NEW q \in DOMAIN version[s]
  PROVE  {r \in RowId : CandidatesAfter(s, q)[r] \in Holding}' = {r \in RowId : CandidatesAfter(s, q)[r] \in Holding}
<1>1. version'[s][q].file = version[s][q].file
  BY DEF VersionsKept, VersionKept
<1>2. \A k \in Key : Lists(s, k)' <=> Lists(s, k)
  BY DEF Lists, Open
<1>3. \A k \in Key : Unchanged(s, k, version[s][q].file[k])' <=> Unchanged(s, k, version[s][q].file[k])
  BY <1>1, <1>2 DEF Unchanged, Open
<1>4. Changed(s, q)' = Changed(s, q)
  BY <1>3 DEF Changed
<1>5. Added(s, q)' = Added(s, q) /\ Removed(s, q)' = Removed(s, q)
  BY <1>1, <1>2, <1>4 DEF Added, Removed, Changed
<1>6. \A k \in Key : HasOpenCandidate(s, k)' <=> HasOpenCandidate(s, k)
  BY DEF HasOpenCandidate
<1>7. \A r \in RowId : Open(r)' <=> Open(r)
  BY DEF Open
<1>8. "PENDING" \in Holding /\ "RELISTED" \notin Holding
  BY DEF Holding
<1>9. ASSUME NEW r \in RowId
      PROVE  CandidatesAfter(s, q)'[r] \in Holding <=> CandidatesAfter(s, q)[r] \in Holding
  <2>1. r.key \in Key
    BY DEF RowId
  <2> DEFINE new == r.source = s /\ r.key \in Removed(s, q) /\ Open(r) /\ ~HasOpenCandidate(s, r.key)
             back == r.source = s /\ r.key \in Added(s, q)
  <2>2. (new' <=> new) /\ (back' <=> back)
    BY <1>5, <1>6, <1>7, <2>1
  <2>3. CandidatesAfter(s, q)[r] = IF new THEN "PENDING" ELSE IF back /\ candidate[r] \in Holding THEN "RELISTED" ELSE candidate[r]
    BY DEF CandidatesAfter
  <2>4. CandidatesAfter(s, q)'[r] = IF new' THEN "PENDING" ELSE IF back' /\ candidate'[r] \in Holding THEN "RELISTED" ELSE candidate'[r]
    BY DEF CandidatesAfter
  <2> HIDE DEF new, back
  <2> QED
    BY <1>8, <2>2, <2>3, <2>4
<1> QED
  BY <1>9

\* A step that makes no snapshot and changes no row keeps the invariant.
LEMMA OutsideKeeps ==
  ASSUME PublishInv, PublishTypeOK', VersionsKept, UNCHANGED <<row, snapshot, nextSnapshot, txn, overlapped>>,
         \A r \in RowId : candidate'[r] \in Holding <=> candidate[r] \in Holding
  PROVE  PublishInv'
<1>0. /\ PublishTypeOK /\ VersionInv /\ RowInv /\ TxnInv /\ IdInv
      /\ ReadBackInv /\ HeldIsOffTheList /\ SerialInv /\ SerialSnapshotIsExact
  BY DEF PublishInv
<1>1. ASSUME NEW s \in Source, NEW i \in DOMAIN version'[s], version'[s][i].public \/ version'[s][i].status = "PUBLISHED"
      PROVE  /\ i \in DOMAIN version[s] /\ version'[s][i].file = version[s][i].file
             /\ version[s][i].public = version'[s][i].public /\ version[s][i].status = version'[s][i].status
  BY <1>0, <1>1 DEF VersionsKept, VersionKept, VersionInv
<1>2. ASSUME NEW s \in Source, NEW i \in DOMAIN version[s]
      PROVE  /\ i \in DOMAIN version'[s] /\ version'[s][i].public = version[s][i].public
             /\ version'[s][i].file = version[s][i].file
             /\ version[s][i].status # "VALIDATED" => version'[s][i].status = version[s][i].status
  BY DEF VersionsKept, VersionKept
<1>3. VersionInv'
  <2>1. ASSUME NEW s \in Source, NEW i \in DOMAIN version'[s], version'[s][i].public
        PROVE  /\ i \in Seq1 /\ version'[s][i].status \in {"PUBLISHED", "SUPERSEDED"}
               /\ \E j \in DOMAIN version'[s] : version'[s][j].status = "PUBLISHED"
    <3>1. /\ i \in DOMAIN version[s] /\ version[s][i].public /\ version[s][i].status = version'[s][i].status
      BY <1>1, <2>1
    <3>2. PICK j \in DOMAIN version[s] : version[s][j].status = "PUBLISHED"
      BY <1>0, <3>1 DEF VersionInv
    <3>3. j \in DOMAIN version'[s] /\ version'[s][j].status = "PUBLISHED"
      BY <1>2, <3>2
    <3> QED
      BY <1>0, <3>1, <3>3 DEF VersionInv
  <2>2. ASSUME NEW s \in Source, NEW i \in DOMAIN version'[s], version'[s][i].status = "PUBLISHED"
        PROVE  version'[s][i].public /\ \A j \in DOMAIN version'[s] : version'[s][j].public => j <= i
    BY <1>0, <1>1, <2>2 DEF VersionInv
  <2> QED
    BY <2>1, <2>2 DEF VersionInv
<1>4. RowInv'
  <2>1. \A r \in RowId : \A q : r.source \in Source /\ IsPublic(r.source, q) => IsPublic(r.source, q)'
    BY <1>2 DEF IsPublic
  <2>2. \A r \in RowId : r.source \in Source
    BY DEF RowId
  <2> QED
    BY <1>0, <2>1, <2>2 DEF RowInv, ValidAt
<1>5. TxnInv'
  <2> SUFFICES ASSUME NEW t \in Session PROVE Entitled(txn[t])'
    BY <1>0 DEF TxnInv
  <2>0. Entitled(txn[t])
    BY <1>0 DEF TxnInv
  <2>1. CASE txn[t].kind = "PUBLISH"
    <3>1. PICK s \in Source, q \in DOMAIN version[txn[t].source] \cap Seq1 : s = txn[t].source /\ q = txn[t].seq
      BY <2>0, <2>1 DEF Entitled
    <3>2. version[s][q].status \in {"VALIDATED", "HELD"} /\ NothingNewer(s, q) /\ InPublish(s, q)
      BY <2>0, <2>1, <3>1 DEF Entitled, InPublish
    <3>3. q \in DOMAIN version'[s] /\ version'[s][q].status = version[s][q].status
      BY <3>1, <3>2 DEF VersionsKept, VersionKept
    <3>4. NothingNewer(s, q)'
      BY <3>1, <3>2, PublishedStays
    <3> QED
      BY <2>0, <2>1, <3>1, <3>2, <3>3, <3>4 DEF Entitled, NothingNewer
  <2> QED
    BY <2>0, <2>1 DEF Entitled
<1>6. IdInv'
  BY <1>0 DEF IdInv
<1>7. ReadBackInv'
  BY <1>0, <1>1 DEF ReadBackInv, ValidAt
<1>8. HeldIsOffTheList'
  BY <1>0 DEF HeldIsOffTheList, Lists, Open
<1>9. SerialInv'
  <2> SUFFICES ASSUME ~overlapped, NEW t \in Busy
               PROVE  HeldBy(txn[t])' = HeldBy(txn[t]) /\ PinnedBy(txn[t])' = PinnedBy(txn[t])
    BY <1>0 DEF SerialInv, Busy, Exact
  <2>1. PinnedBy(txn[t])' = PinnedBy(txn[t])
    BY PublishedStays DEF PinnedBy
  <2>2. CASE txn[t].kind = "PUBLISH"
    <3>1. PICK s \in Source, q \in DOMAIN version[txn[t].source] : s = txn[t].source /\ q = txn[t].seq
      BY <1>0, <2>2 DEF TxnInv, Entitled, Busy
    <3>2. {r \in RowId : CandidatesAfter(s, q)[r] \in Holding}' = {r \in RowId : CandidatesAfter(s, q)[r] \in Holding}
      BY <3>1, DiffStays
    <3> QED
      BY <2>1, <2>2, <3>1, <3>2 DEF HeldBy
  <2>3. CASE txn[t].kind # "PUBLISH"
    BY <2>1, <2>3 DEF HeldBy, Held
  <2> QED
    BY <2>2, <2>3
<1>10. SerialSnapshotIsExact'
  BY <1>0 DEF SerialSnapshotIsExact, Latest, RecordsAsOf, ValidAt, Open
<1> QED
  BY <1>3, <1>4, <1>5, <1>6, <1>7, <1>8, <1>9, <1>10 DEF PublishInv

\* Every published version is read back from the rows as it was.
LEMMA ReadBack == ASSUME PublishInv PROVE ReconstructsEveryVersion
<1> SUFFICES ASSUME NEW s \in Source, NEW q \in DOMAIN version[s], version[s][q].public, NEW k \in Key
             PROVE  LET rows == {r \in RowId : r.source = s /\ r.key = k /\ ValidAt(r, q)}
                    IN /\ Cardinality(rows) <= 1
                       /\ {row[r].hash : r \in rows} = {version[s][q].file[k]} \ {NULL}
  BY DEF ReconstructsEveryVersion
<1> DEFINE rows == {r \in RowId : r.source = s /\ r.key = k /\ ValidAt(r, q)}
<1>1. \A r \in rows : row[r].hash = version[s][q].file[k] /\ row[r].hash \in Content
  BY PublishTypes DEF PublishInv, ReadBackInv, ValidAt, Row
<1>2. \A r, x \in rows : r = x
  BY DEF PublishInv, VersionInv, RowInv, SameParty
<1>3. version[s][q].file[k] # NULL => rows # {}
  BY DEF PublishInv, ReadBackInv
<1> HIDE DEF rows
<1>4. rows = {} \/ \E r : rows = {r}
  BY <1>2
<1>5. Cardinality(rows) <= 1
  <2>1. Cardinality(rows) = 0 \/ Cardinality(rows) = 1
    BY <1>4, FS_EmptySet, FS_Singleton, Zenon
  <2> QED
    BY <2>1
<1>6. {row[r].hash : r \in rows} = {version[s][q].file[k]} \ {NULL}
  <2>1. NULL \notin Content
    BY PublishNullAssumption
  <2> QED
    BY <1>1, <1>3, <2>1
<1> QED
  BY <1>5, <1>6 DEF rows

\* Staging, dropping and reviewing versions leaves the tables of records alone, and of the versions
\* what was published.
LEMMA VersionSteps ==
  ASSUME PublishInv, NEW s \in Source, NEW file, NEW held, NEW q, NEW approve,
         \/ file \in File /\ Stage(s, file, held)
         \/ q \in Seq1 /\ (Drop(s, q) \/ DecideRelease(s, q, approve) \/ ReleaseEnds(s, q))
  PROVE  /\ UNCHANGED <<row, candidate, proposal, snapshot, nextSnapshot, txn, overlapped>>
         /\ PublishTypeOK' /\ VersionsKept
<1>0. /\ PublishTypeOK /\ version \in [Source -> Seq(Version)] /\ version[s] \in Seq(Version)
      /\ DOMAIN version[s] = 1..Len(version[s]) /\ Len(version[s]) \in Nat /\ releaseRun \subseteq Source \X Seq1
  BY PublishTypes DEF PublishInv, PublishTypeOK
<1>1. UNCHANGED <<row, candidate, proposal, snapshot, nextSnapshot, txn, overlapped>>
  BY DEF Stage, Drop, DecideRelease, ReleaseEnds
<1>2. releaseRun' \subseteq Source \X Seq1
  BY <1>0 DEF Stage, Drop, DecideRelease, ReleaseEnds
<1>3. CASE ReleaseEnds(s, q)
  <2>1. UNCHANGED version
    BY <1>3 DEF ReleaseEnds
  <2>2. PublishTypeOK' /\ VersionsKept
    BY <1>0, <1>1, <1>2, <2>1 DEF PublishTypeOK, VersionsKept, VersionKept
  <2> QED
    BY <1>1, <2>2
<1>4. CASE file \in File /\ Stage(s, file, held)
  <2> DEFINE new == [file |-> file, public |-> FALSE, status |-> IF held THEN "HELD" ELSE "VALIDATED",
                     release |-> IF held THEN "PENDING" ELSE "NONE"]
  <2>1. new \in Version /\ ~new.public /\ new.status \in {"VALIDATED", "HELD"}
    BY <1>4 DEF Version
  <2>2. version' = [version EXCEPT ![s] = Append(version[s], new)]
    BY <1>4 DEF Stage
  <2> HIDE DEF new
  <2>3. /\ Append(version[s], new) \in Seq(Version) /\ Len(Append(version[s], new)) = Len(version[s]) + 1
        /\ DOMAIN Append(version[s], new) = 1..(Len(version[s]) + 1)
        /\ \A i \in 1..Len(version[s]) : Append(version[s], new)[i] = version[s][i]
        /\ Append(version[s], new)[Len(version[s]) + 1] = new
    BY <1>0, <2>1, AppendProperties, LenProperties
  <2>4. PublishTypeOK'
    BY <1>0, <1>1, <1>2, <2>2, <2>3 DEF PublishTypeOK
  <2>5. VersionsKept
    BY <1>0, <2>1, <2>2, <2>3 DEF VersionsKept, VersionKept
  <2> QED
    BY <1>1, <2>4, <2>5
<1>5. ASSUME q \in DOMAIN version[s], NEW w \in Version, version' = [version EXCEPT ![s][q] = w],
             VersionKept(s, q, version[s][q], w)
      PROVE  PublishTypeOK' /\ VersionsKept
  <2>1. [version[s] EXCEPT ![q] = w] \in Seq(Version)
    BY <1>0, <1>5, ExceptSeq
  <2>2. /\ version' \in [Source -> Seq(Version)]
        /\ \A x \in Source : DOMAIN version'[x] = DOMAIN version[x]
        /\ \A x \in Source : \A i \in DOMAIN version[x] :
             version'[x][i] = IF x = s /\ i = q THEN w ELSE version[x][i]
    BY <1>0, <1>5, <2>1
  <2>3. VersionsKept
    BY <1>5, <2>2 DEF VersionsKept, VersionKept
  <2>4. PublishTypeOK'
    BY <1>0, <1>1, <1>2, <2>2 DEF PublishTypeOK
  <2> QED
    BY <2>3, <2>4
<1>6. CASE Drop(s, q)
  <2>1. /\ q \in DOMAIN version[s] /\ version[s][q].status = "VALIDATED" /\ ~InPublish(s, q)
        /\ version' = [version EXCEPT ![s][q] = [version[s][q] EXCEPT !.status = "REJECTED"]]
    BY <1>6 DEF Drop
  <2>2. version[s][q] \in Version
    BY <1>0, <2>1, PublishTypes
  <2>3. /\ [version[s][q] EXCEPT !.status = "REJECTED"] \in Version
        /\ VersionKept(s, q, version[s][q], [version[s][q] EXCEPT !.status = "REJECTED"])
    BY <2>1, <2>2 DEF VersionKept, Version
  <2> QED
    BY <1>1, <1>5, <2>1, <2>3
<1>7. CASE DecideRelease(s, q, approve)
  <2>1. PICK d \in {"APPLIED", "REJECTED"} :
          q \in DOMAIN version[s] /\ version' = [version EXCEPT ![s][q] = [version[s][q] EXCEPT !.release = d]]
    BY <1>7 DEF DecideRelease
  <2>2. version[s][q] \in Version
    BY <1>0, <2>1, PublishTypes
  <2>3. /\ [version[s][q] EXCEPT !.release = d] \in Version
        /\ VersionKept(s, q, version[s][q], [version[s][q] EXCEPT !.release = d])
    BY <2>2 DEF VersionKept, Version
  <2> QED
    BY <1>1, <1>5, <2>1, <2>3
<1> QED
  BY <1>1, <1>3, <1>4, <1>6, <1>7

\* They keep the invariant.
LEMMA VersionStepsKeep ==
  ASSUME PublishInv, NEW s \in Source, NEW file, NEW held, NEW q, NEW approve,
         \/ file \in File /\ Stage(s, file, held)
         \/ q \in Seq1 /\ (Drop(s, q) \/ DecideRelease(s, q, approve) \/ ReleaseEnds(s, q))
  PROVE  PublishInv'
BY VersionSteps, OutsideKeeps

\* Assessments, and decisions that leave a party held, keep the invariant.
LEMMA RemovalStepsKeep ==
  ASSUME PublishInv, NEW r \in RowId, NEW evidence,
         Assess(r, evidence) \/ BlameParser(r) \/ RejectRemoval(r)
  PROVE  PublishInv'
<1>0. PublishTypeOK /\ candidate \in [RowId -> CandidateStatus]
  BY DEF PublishInv, PublishTypeOK
<1>1. /\ UNCHANGED <<version, releaseRun, row, snapshot, nextSnapshot, txn, overlapped>>
      /\ proposal' \subseteq RowId
  BY <1>0 DEF Assess, BlameParser, RejectRemoval, PublishTypeOK
<1>2. /\ candidate' \in [RowId -> CandidateStatus]
      /\ \A x \in RowId : candidate'[x] \in Holding <=> candidate[x] \in Holding
  BY <1>0 DEF Assess, BlameParser, RejectRemoval, CandidateStatus, Holding
<1>3. PublishTypeOK' /\ VersionsKept
  BY <1>0, <1>1, <1>2 DEF PublishTypeOK, VersionsKept, VersionKept
<1> QED
  BY <1>1, <1>2, <1>3, OutsideKeeps

\* A step of one session before its commit, or its rollback, keeps the invariant.
LEMMA SessionKeeps ==
  ASSUME PublishInv, UNCHANGED <<version, releaseRun, row, candidate, proposal, snapshot>>,
         NEW t \in Session, NEW x \in Transaction, txn' = [txn EXCEPT ![t] = x], Entitled(x),
         nextSnapshot' \in 1..(MaxSnapshots + 1), nextSnapshot' >= nextSnapshot,
         x.id # NULL => x.id < nextSnapshot',
         x.kind = "PUBLISH" => txn[t].source = x.source \/ ~Publishing(x.source),
         overlapped' \in BOOLEAN, overlapped => overlapped',
         ~overlapped' /\ x.kind # "IDLE" => Exact(x) /\ Busy \subseteq {t}
  PROVE  PublishInv'
<1>0. /\ PublishTypeOK /\ VersionInv /\ RowInv /\ TxnInv /\ IdInv
      /\ ReadBackInv /\ HeldIsOffTheList /\ SerialInv /\ SerialSnapshotIsExact
      /\ nextSnapshot \in 1..(MaxSnapshots + 1) /\ txn \in [Session -> Transaction]
  BY DEF PublishInv, PublishTypeOK
<1>1. PublishTypeOK'
  BY <1>0 DEF PublishTypeOK
<1>2. VersionInv' /\ RowInv' /\ ReadBackInv' /\ HeldIsOffTheList'
  BY <1>0 DEF VersionInv, RowInv, IsPublic, ValidAt, ReadBackInv, HeldIsOffTheList, Lists, Open
<1>3. /\ txn'[t] = x
      /\ \A u \in Session \ {t} : txn'[u] = txn[u]
  BY <1>0
<1>4. TxnInv'
  <2>1. \A y : Entitled(y) => Entitled(y)'
    BY DEF Entitled, NothingNewer
  <2>2. ASSUME NEW u \in Session PROVE Entitled(txn'[u])
    BY <1>0, <1>3 DEF TxnInv
  <2>3. ASSUME NEW u \in Session PROVE Entitled(txn[u])'
    BY <2>1, <2>2
  <2>4. ASSUME NEW u \in Session \ {t}, txn[u].kind = "PUBLISH", x.kind = "PUBLISH", txn[u].source = x.source
        PROVE FALSE
    BY <1>0, <2>4, PublishNullAssumption DEF TxnInv, Publishing, Entitled
  <2> QED
    BY <1>0, <1>3, <2>3, <2>4 DEF TxnInv
<1>5. IdInv'
  BY <1>0, <1>3, PublishTypes DEF IdInv, Transaction
<1>6. SerialInv'
  <2> SUFFICES ASSUME ~overlapped' PROVE (\A u, v \in Busy' : u = v) /\ \A u \in Busy' : Exact(txn[u])'
    BY DEF SerialInv
  <2>1. ASSUME NEW y, Entitled(y), Exact(y) PROVE Exact(y)'
    <3>0. VersionsKept
      BY DEF VersionsKept, VersionKept
    <3>1. PinnedBy(y)' = PinnedBy(y)
      BY <3>0, PublishedStays DEF PinnedBy
    <3>2. HeldBy(y)' = HeldBy(y)
      <4>1. CASE y.kind = "PUBLISH"
        <5>1. PICK s \in Source, q \in DOMAIN version[y.source] : s = y.source /\ q = y.seq
          BY <2>1, <4>1 DEF Entitled
        <5>2. {r \in RowId : CandidatesAfter(s, q)[r] \in Holding}' = {r \in RowId : CandidatesAfter(s, q)[r] \in Holding}
          BY <3>0, <5>1, DiffStays
        <5> QED
          BY <4>1, <5>1, <5>2 DEF HeldBy
      <4>2. CASE y.kind # "PUBLISH"
        BY <4>2 DEF HeldBy, Held
      <4> QED
        BY <4>1, <4>2
    <3> QED
      BY <2>1, <3>1, <3>2 DEF Exact
  <2>2. \A u \in Busy' : (u = t /\ x.kind # "IDLE") \/ (u \in Busy /\ u # t)
    BY <1>3 DEF Busy
  <2>3. \A u, v \in Busy' : u = v
    BY <1>0, <2>2 DEF SerialInv
  <2>4. ASSUME NEW u \in Busy' PROVE Exact(txn'[u]) /\ Entitled(txn'[u])
    BY <1>0, <1>3, <2>2, <2>4 DEF SerialInv, Busy, TxnInv
  <2> QED
    BY <2>1, <2>3, <2>4
<1>7. SerialSnapshotIsExact'
  BY <1>0 DEF SerialSnapshotIsExact, Latest, RecordsAsOf, ValidAt, Open
<1> QED
  BY <1>1, <1>2, <1>4, <1>5, <1>6, <1>7 DEF PublishInv

\* The steps of a session up to its commit keep the invariant.
LEMMA SessionStepsKeep ==
  ASSUME PublishInv, NEW t \in Session,
         \/ \E s \in Source, q \in Seq1 : BeginPublish(t, s, q)
         \/ \E r \in RowId : BeginResolve(t, r)
         \/ InsertSnapshot(t) \/ PinVersions(t) \/ Rollback(t)
  PROVE  PublishInv'
<1>0. /\ PublishTypeOK /\ VersionInv /\ TxnInv /\ IdInv /\ SerialInv
      /\ nextSnapshot \in 1..(MaxSnapshots + 1) /\ txn \in [Session -> Transaction] /\ overlapped \in BOOLEAN
      /\ txn[t] \in Transaction /\ Entitled(txn[t])
  BY PublishTypes DEF PublishInv, PublishTypeOK, TxnInv
<1>1. Idle \in Transaction /\ Entitled(Idle) /\ Idle.kind = "IDLE" /\ Idle.id = NULL
  BY DEF Idle, Transaction, Entitled
<1>2. ASSUME NEW x \in Transaction, x.kind # "IDLE", x.id = NULL, x.pin = NULL, Entitled(x), x.held = HeldBy(x),
             x.kind = "PUBLISH" => ~Publishing(x.source), Begin(t, x)
      PROVE  PublishInv'
  <2>1. /\ UNCHANGED <<version, releaseRun, row, candidate, proposal, snapshot, nextSnapshot>>
        /\ txn' = [txn EXCEPT ![t] = x] /\ overlapped' = (overlapped \/ Busy # {})
    BY <1>2 DEF Begin
  <2>2. Exact(x)
    BY <1>2 DEF Exact
  <2>3. nextSnapshot' \in 1..(MaxSnapshots + 1) /\ nextSnapshot' >= nextSnapshot
    BY <1>0, <2>1, PublishBoundAssumption
  <2>4. /\ x.kind = "PUBLISH" => txn[t].source = x.source \/ ~Publishing(x.source)
        /\ ~overlapped' /\ x.kind # "IDLE" => Exact(x) /\ Busy \subseteq {t}
        /\ overlapped' \in BOOLEAN /\ (overlapped => overlapped') /\ (x.id # NULL => x.id < nextSnapshot')
    BY <1>0, <1>2, <2>1, <2>2
  <2> QED
    BY <1>2, <2>1, <2>3, <2>4, SessionKeeps
<1>3. ASSUME NEW s \in Source, NEW q \in Seq1, BeginPublish(t, s, q) PROVE PublishInv'
  <2> DEFINE held == {r \in RowId : CandidatesAfter(s, q)[r] \in Holding}
  <2>1. PICK x : x = [Idle EXCEPT !.kind = "PUBLISH", !.source = s, !.seq = q, !.held = held]
    OBVIOUS
  <2>2. /\ q \in DOMAIN version[s] /\ version[s][q].status \in {"VALIDATED", "HELD"} /\ NothingNewer(s, q)
        /\ ~Publishing(s) /\ Begin(t, x)
    BY <1>3, <2>1 DEF BeginPublish
  <2>3. held \in SUBSET RowId
    OBVIOUS
  <2> HIDE DEF held
  <2>4. /\ x \in Transaction /\ x.kind = "PUBLISH" /\ x.source = s /\ x.seq = q /\ x.held = held
        /\ x.id = NULL /\ x.pin = NULL
    BY <2>1, <2>3 DEF Idle, Transaction
  <2>5. Entitled(x)
    BY <2>2, <2>4 DEF Entitled
  <2>6. x.held = HeldBy(x)
    BY <2>4 DEF HeldBy, held
  <2> QED
    BY <1>2, <2>2, <2>4, <2>5, <2>6
<1>4. ASSUME NEW r \in RowId, BeginResolve(t, r) PROVE PublishInv'
  <2> DEFINE held == {y \in RowId \ {r} : candidate[y] \in Holding}
  <2>1. PICK x : x = [Idle EXCEPT !.kind = "RESOLVE", !.row = r, !.held = held]
    OBVIOUS
  <2>2. Begin(t, x)
    BY <1>4, <2>1 DEF BeginResolve
  <2>3. held \in SUBSET RowId /\ held = Held \ {r}
    BY DEF Held
  <2> HIDE DEF held
  <2>4. /\ x \in Transaction /\ x.kind = "RESOLVE" /\ x.row = r /\ x.held = held /\ x.source = NULL /\ x.seq = NULL
        /\ x.id = NULL /\ x.pin = NULL
    BY <2>1, <2>3 DEF Idle, Transaction
  <2>5. Entitled(x) /\ x.held = HeldBy(x)
    BY <2>3, <2>4 DEF Entitled, HeldBy
  <2> QED
    BY <1>2, <2>2, <2>4, <2>5
<1>5. ASSUME InsertSnapshot(t) PROVE PublishInv'
  <2>1. /\ UNCHANGED <<version, releaseRun, row, candidate, proposal, snapshot, overlapped>>
        /\ txn[t].kind # "IDLE" /\ txn[t].id = NULL /\ nextSnapshot <= MaxSnapshots /\ nextSnapshot' = nextSnapshot + 1
    BY <1>5 DEF InsertSnapshot
  <2>2. PICK x : x = [txn[t] EXCEPT !.id = nextSnapshot]
    OBVIOUS
  <2>3. txn' = [txn EXCEPT ![t] = x]
    BY <1>5, <2>2 DEF InsertSnapshot
  <2>4. /\ x \in Transaction /\ x.id = nextSnapshot /\ x.kind = txn[t].kind /\ x.source = txn[t].source
        /\ x.seq = txn[t].seq /\ x.row = txn[t].row /\ x.held = txn[t].held /\ x.pin = txn[t].pin
    BY <1>0, <2>1, <2>2, PublishBoundAssumption DEF Transaction
  <2>5. Entitled(x) /\ x.pin = NULL
    BY <1>0, <2>1, <2>4, PublishNullAssumption DEF Entitled
  <2>6. ASSUME ~overlapped' PROVE Exact(x) /\ Busy \subseteq {t}
    <3>1. Busy \subseteq {t} /\ txn[t].held = HeldBy(txn[t])
      BY <1>0, <2>1, <2>6 DEF SerialInv, Exact, Busy
    <3>2. x.held = HeldBy(x)
      BY <2>4, <3>1 DEF HeldBy
    <3> QED
      BY <1>0, <2>4, <2>5, <3>1, <3>2 DEF Exact, IdInv
  <2>7. /\ nextSnapshot' \in 1..(MaxSnapshots + 1) /\ nextSnapshot' >= nextSnapshot /\ x.id < nextSnapshot'
        /\ overlapped' \in BOOLEAN /\ (overlapped => overlapped')
    BY <1>0, <2>1, <2>4, PublishBoundAssumption
  <2> QED
    BY <2>1, <2>3, <2>4, <2>5, <2>6, <2>7, SessionKeeps
<1>6. ASSUME PinVersions(t) PROVE PublishInv'
  <2>1. /\ UNCHANGED <<version, releaseRun, row, candidate, proposal, snapshot, nextSnapshot, overlapped>>
        /\ txn[t].id # NULL /\ txn[t].pin = NULL
    BY <1>6 DEF PinVersions
  <2>2. PICK pin, x : pin = PinnedBy(txn[t]) /\ x = [txn[t] EXCEPT !.pin = pin]
    OBVIOUS
  <2>3. txn' = [txn EXCEPT ![t] = x]
    BY <1>6, <2>2 DEF PinVersions, PinnedBy
  <2>4. pin \in Pins
    <3>1. \A s \in Source : PublishedSeq(s) \in 0..MaxVersions
      <4> SUFFICES ASSUME NEW s \in Source PROVE PublishedSeq(s) \in 0..MaxVersions
        OBVIOUS
      <4>1. \A q \in {i \in DOMAIN version[s] : version[s][i].status = "PUBLISHED"} : q \in 0..MaxVersions
        BY <1>0, PublishBoundAssumption DEF VersionInv, Seq1
      <4> QED
        BY <4>1, PublishBoundAssumption DEF PublishedSeq
    <3>2. txn[t].source \in Source => txn[t].seq \in 0..MaxVersions
      BY <1>0, PublishNullAssumption, PublishBoundAssumption DEF Entitled, Seq1
    <3> QED
      BY <2>2, <3>1, <3>2 DEF PinnedBy, Pins
  <2>5. /\ x \in Transaction /\ x.id = txn[t].id /\ x.kind = txn[t].kind /\ x.source = txn[t].source
        /\ x.seq = txn[t].seq /\ x.row = txn[t].row /\ x.held = txn[t].held /\ x.pin = pin
    BY <1>0, <2>2, <2>4 DEF Transaction
  <2>6. Entitled(x) /\ x.kind # "IDLE"
    BY <1>0, <2>1, <2>5 DEF Entitled
  <2>7. ASSUME ~overlapped' PROVE Exact(x) /\ Busy \subseteq {t}
    <3>1. Busy \subseteq {t} /\ Exact(txn[t])
      BY <1>0, <2>1, <2>5, <2>6, <2>7 DEF SerialInv, Busy
    <3>2. x.held = HeldBy(x) /\ x.pin = PinnedBy(x)
      BY <2>2, <2>5, <3>1 DEF Exact, HeldBy, PinnedBy
    <3> QED
      BY <2>5, <3>1, <3>2 DEF Exact
  <2>8. /\ nextSnapshot' \in 1..(MaxSnapshots + 1) /\ nextSnapshot' >= nextSnapshot /\ (x.id # NULL => x.id < nextSnapshot')
        /\ overlapped' \in BOOLEAN /\ (overlapped => overlapped')
    BY <1>0, <2>1, <2>5, PublishBoundAssumption DEF IdInv
  <2> QED
    BY <2>1, <2>3, <2>5, <2>6, <2>7, <2>8, SessionKeeps
<1>7. ASSUME Rollback(t) PROVE PublishInv'
  <2>1. /\ UNCHANGED <<version, releaseRun, row, candidate, proposal, snapshot, nextSnapshot, overlapped>>
        /\ txn' = [txn EXCEPT ![t] = Idle]
    BY <1>7 DEF Rollback
  <2>2. /\ nextSnapshot' \in 1..(MaxSnapshots + 1) /\ nextSnapshot' >= nextSnapshot
        /\ overlapped' \in BOOLEAN /\ (overlapped => overlapped')
    BY <1>0, <2>1, PublishBoundAssumption
  <2> QED
    BY <1>1, <2>1, <2>2, SessionKeeps
<1> QED
  BY <1>3, <1>4, <1>5, <1>6, <1>7

\* Outside of a publish the rows that are open are those that are valid at the published version.
LEMMA OpenIsCurrent ==
  ASSUME PublishTypeOK, VersionInv, RowInv, NEW r \in RowId
  PROVE  Open(r) <=> ValidAt(r, PublishedSeq(r.source))
<1> DEFINE published == {p \in DOMAIN version[r.source] : version[r.source][p].status = "PUBLISHED"}
<1>0. /\ r.source \in Source /\ r.from \in Seq1 /\ (row[r] # NULL => row[r] \in Row)
      /\ DOMAIN version[r.source] = 1..Len(version[r.source]) /\ Len(version[r.source]) \in Nat
  BY PublishTypes
<1>1. CASE published = {}
  <2>1. \A i : ~IsPublic(r.source, i)
    BY <1>0, <1>1 DEF VersionInv, IsPublic
  <2> QED
    BY <2>1 DEF RowInv, Open, ValidAt
<1>2. CASE published # {}
  <2>1. PublishedSeq(r.source) \in published
    BY <1>2 DEF PublishedSeq
  <2>2. PICK p \in published : p = PublishedSeq(r.source)
    BY <2>1
  <2>3. p \in Nat /\ \A i : IsPublic(r.source, i) => i \in Seq1 /\ i <= p
    BY <1>0, <2>2 DEF VersionInv, IsPublic
  <2>4. row[r] # NULL => r.from <= p /\ (row[r].to # NULL => row[r].to \in Seq1 /\ row[r].to <= p)
    BY <2>3 DEF RowInv
  <2> QED
    BY <2>2, <2>3, <2>4, PublishBoundAssumption DEF Open, ValidAt, Seq1
<1> QED
  BY <1>1, <1>2

\* What a publish starts from: the versions published before are older, the rows that are valid
\* at the new version are the open ones, and no row begins with it.
LEMMA BeforePublish ==
  ASSUME PublishTypeOK, VersionInv, RowInv,
         NEW s \in Source, NEW q \in DOMAIN version[s] \cap Seq1,
         version[s][q].status \in {"VALIDATED", "HELD"}, NothingNewer(s, q)
  PROVE  /\ \A i \in DOMAIN version[s] : version[s][i].public => i \in Seq1 /\ i < q
         /\ \A r \in RowId : r.source = s /\ row[r] # NULL =>
              r.from < q /\ (row[r].to # NULL => row[r].to \in Seq1 /\ row[r].to < q)
         /\ \A r, x \in RowId : r.source = s /\ SameParty(r, x) /\ Open(r) /\ Open(x) => r = x
<1>0. q \in Nat /\ Seq1 \subseteq Nat /\ NULL \notin Seq1
  BY PublishBoundAssumption, PublishNullAssumption DEF Seq1
<1>1. \A i \in DOMAIN version[s] : version[s][i].public => i \in Seq1 /\ i < q
  <2>1. ~version[s][q].public
    BY DEF VersionInv
  <2> SUFFICES ASSUME NEW i \in DOMAIN version[s], version[s][i].public PROVE i \in Seq1 /\ i < q
    OBVIOUS
  <2>2. i \in Seq1 /\ version[s][i].status \in {"PUBLISHED", "SUPERSEDED"}
    BY DEF VersionInv
  <2>3. i <= q /\ i # q
    BY <2>1, <2>2 DEF NothingNewer
  <2> QED
    BY <1>0, <2>2, <2>3
<1>2. \A r \in RowId : r.source = s /\ row[r] # NULL =>
        r.from < q /\ (row[r].to # NULL => row[r].to \in Seq1 /\ row[r].to < q)
  BY <1>1 DEF RowInv, IsPublic
<1>3. \A r \in RowId : r.source = s /\ Open(r) => ValidAt(r, q)
  BY <1>0, <1>2, PublishTypes DEF Open, ValidAt
<1>4. ASSUME NEW r \in RowId, NEW x \in RowId, r.source = s, SameParty(r, x), Open(r), Open(x) PROVE r = x
  <2>1. ValidAt(r, q) /\ ValidAt(x, q) /\ q \in Seq1
    BY <1>3, <1>4 DEF SameParty
  <2> QED
    BY <1>4, <2>1 DEF RowInv
<1> QED
  BY <1>1, <1>2, <1>4

\* What a publish makes of the rows.  Rows of other sources stay; before the new version nothing
\* changes; from it on the open rows are those of unchanged parties and one new row for each
\* party that the file adds or changes.
LEMMA RowsPublished ==
  ASSUME PublishTypeOK, VersionInv, RowInv,
         NEW s \in Source, NEW q \in DOMAIN version[s] \cap Seq1,
         version[s][q].status \in {"VALIDATED", "HELD"}, NothingNewer(s, q),
         row' = RowsAfter(s, q), NEW r \in RowId
  PROVE  /\ r.source # s => row'[r] = row[r]
         /\ row[r] # NULL => row'[r] # NULL /\ row'[r].hash = row[r].hash
         /\ row'[r] # NULL => \/ row'[r] = row[r]
                              \/ r.source = s /\ row[r] # NULL /\ row'[r].to = q
                              \/ r.source = s /\ r.from = q /\ row'[r].to = NULL
         /\ row'[r] \in {NULL} \cup Row
         /\ r.source = s =>
              /\ \A i \in Seq1 : i < q => (ValidAt(r, i)' <=> ValidAt(r, i))
              /\ \A i \in Seq1 : i >= q => (ValidAt(r, i)' <=> Open(r)')
              /\ r.key \notin Changed(s, q) => (Open(r)' <=> Open(r))
              /\ r.key \in Changed(s, q) => (Open(r)' <=> r.from = q /\ version[s][q].file[r.key] # NULL)
         /\ r.source = s /\ r.key \in Changed(s, q) /\ Open(r)' => row'[r].hash = version[s][q].file[r.key]
<1>0. /\ q \in Nat /\ Seq1 \subseteq Nat /\ NULL \notin Seq1 /\ q \in Seq1 /\ r.from \in Seq1 /\ r.key \in Key
      /\ (row[r] # NULL => row[r] \in Row)
  BY PublishTypes, PublishBoundAssumption, PublishNullAssumption DEF Seq1
<1>1. version[s][q].file[r.key] \in Content \cup {NULL}
  BY <1>0, PublishTypes DEF Version, File
<1>2. r.source = s /\ row[r] # NULL => r.from < q /\ (row[r].to # NULL => row[r].to \in Seq1 /\ row[r].to < q)
  BY BeforePublish
<1>3. NULL \notin Row
  BY PublishRowAssumption
<1> DEFINE there == r.source = s /\ r.key \in Changed(s, q)
           hash == version[s][q].file[r.key]
<1>4. row'[r] = IF ~there THEN row[r]
                ELSE IF Open(r) THEN [row[r] EXCEPT !.to = q]
                ELSE IF r.from = q /\ hash # NULL THEN [hash |-> hash, to |-> NULL]
                ELSE row[r]
  BY DEF RowsAfter
<1>5. there => r.source = s
  OBVIOUS
<1>6. r.source = s => (there <=> r.key \in Changed(s, q))
  OBVIOUS
<1> HIDE DEF there
<1> HIDE DEF hash
<1>7. \A i, n \in Seq1 : i >= q /\ n < q => ~(n > i) /\ n <= i
  BY <1>0
<1>8. CASE ~there
  <2>1. row'[r] = row[r]
    BY <1>4, <1>8
  <2>2. \A i \in Seq1 : ValidAt(r, i)' <=> ValidAt(r, i)
    BY <2>1 DEF ValidAt
  <2>3. ASSUME r.source = s, NEW i \in Seq1, i >= q PROVE ValidAt(r, i) <=> Open(r)
    <3>1. row[r] # NULL /\ row[r].to # NULL => ~(row[r].to > i)
      BY <1>2, <1>7, <2>3
    <3>2. row[r] # NULL => r.from <= i
      BY <1>0, <1>2, <1>7, <2>3
    <3> QED
      BY <3>1, <3>2 DEF ValidAt, Open
  <2>4. Open(r)' <=> Open(r)
    BY <2>1 DEF Open
  <2> QED
    BY <1>0, <1>3, <1>6, <1>8, <2>1, <2>2, <2>3, <2>4
<1>9. CASE there /\ Open(r)
  <2>1. /\ row[r] # NULL /\ row[r] \in Row /\ row[r].to = NULL /\ r.from < q /\ r.source = s
        /\ row'[r] = [row[r] EXCEPT !.to = q]
    BY <1>0, <1>2, <1>4, <1>5, <1>9 DEF Open
  <2>2. row'[r] \in Row /\ row'[r].hash = row[r].hash /\ row'[r].to = q
    BY <1>0, <2>1 DEF Row
  <2>3. row'[r] # NULL /\ ~Open(r)' /\ r.from # q
    BY <1>0, <1>3, <2>1, <2>2 DEF Open
  <2>4. \A i \in Seq1 : i < q => (ValidAt(r, i)' <=> ValidAt(r, i))
    BY <1>0, <2>1, <2>2, <2>3 DEF ValidAt
  <2>5. \A i \in Seq1 : i >= q => ~ValidAt(r, i)'
    BY <1>0, <2>1, <2>2, <2>3 DEF ValidAt
  <2> QED
    BY <1>6, <1>9, <2>1, <2>2, <2>3, <2>4, <2>5
<1>10. CASE there /\ ~Open(r) /\ r.from = q /\ hash # NULL
  <2>1. row[r] = NULL /\ r.source = s /\ row'[r] = [hash |-> hash, to |-> NULL]
    BY <1>0, <1>2, <1>4, <1>5, <1>10
  <2>2. row'[r] \in Row /\ row'[r].hash = hash /\ row'[r].to = NULL
    BY <1>1, <1>10, <2>1 DEF Row, hash
  <2>3. row'[r] # NULL /\ Open(r)'
    BY <1>3, <2>2 DEF Open
  <2>4. \A i \in Seq1 : i < q => ~ValidAt(r, i)' /\ ~ValidAt(r, i)
    BY <1>0, <1>10, <2>1 DEF ValidAt
  <2>5. \A i \in Seq1 : i >= q => ValidAt(r, i)'
    BY <1>0, <1>10, <2>2, <2>3 DEF ValidAt
  <2> QED
    BY <1>6, <1>10, <2>1, <2>2, <2>3, <2>4, <2>5 DEF hash
<1>11. CASE there /\ ~Open(r) /\ ~(r.from = q /\ hash # NULL)
  <2>1. row'[r] = row[r] /\ r.source = s /\ ~Open(r)'
    BY <1>4, <1>5, <1>11 DEF Open
  <2>2. \A i \in Seq1 : i >= q => ~ValidAt(r, i)
    <3> SUFFICES ASSUME NEW i \in Seq1, i >= q PROVE ~ValidAt(r, i)
      OBVIOUS
    <3>1. row[r] # NULL => row[r].to # NULL /\ ~(row[r].to > i)
      BY <1>2, <1>11, <1>7, <2>1 DEF Open
    <3> QED
      BY <3>1 DEF ValidAt
  <2> QED
    BY <1>0, <1>3, <1>6, <1>11, <2>1, <2>2 DEF ValidAt, hash
<1> QED
  BY <1>8, <1>9, <1>10, <1>11

\* What a publish makes of the versions of its source.
LEMMA VersionsPublished ==
  ASSUME PublishTypeOK, NEW s \in Source, NEW q \in DOMAIN version[s],
         version' = [version EXCEPT ![s] = VersionsAfter(s, q)]
  PROVE  /\ version' \in [Source -> Seq(Version)]
         /\ \A x \in Source \ {s} : version'[x] = version[x]
         /\ DOMAIN version'[s] = DOMAIN version[s]
         /\ \A i \in DOMAIN version[s] : version'[s][i].file = version[s][i].file
         /\ version'[s][q].status = "PUBLISHED" /\ version'[s][q].public
         /\ \A i \in DOMAIN version[s] \ {q} :
              /\ version'[s][i].public = version[s][i].public
              /\ version'[s][i].status # "PUBLISHED"
              /\ version[s][i].status \in {"PUBLISHED", "SUPERSEDED"} => version'[s][i].status = "SUPERSEDED"
<1>0. /\ version \in [Source -> Seq(Version)] /\ Len(version[s]) \in Nat /\ DOMAIN version[s] = 1..Len(version[s])
      /\ \A i \in DOMAIN version[s] : version[s][i] \in Version
  BY PublishTypes DEF PublishTypeOK
<1> DEFINE W == VersionsAfter(s, q)
<1>1. \A i \in DOMAIN version[s] : W[i] =
        IF i = q THEN [version[s][i] EXCEPT !.status = "PUBLISHED", !.public = TRUE]
        ELSE [version[s][i] EXCEPT
                !.status = IF version[s][i].status = "PUBLISHED" \/ (version[s][i].status = "HELD" /\ i < q)
                             THEN "SUPERSEDED" ELSE version[s][i].status,
                !.release = IF version[s][i].release = "PENDING" THEN "EXPIRED" ELSE version[s][i].release]
  BY DEF VersionsAfter
<1>2. DOMAIN W = 1..Len(version[s]) /\ W = [i \in 1..Len(version[s]) |-> W[i]]
  BY <1>0 DEF VersionsAfter
<1>3. version'[s] = W /\ \A x \in Source \ {s} : version'[x] = version[x]
  BY <1>0
<1> HIDE DEF W
<1>4. W[q].status = "PUBLISHED" /\ W[q].public /\ W[q].file = version[s][q].file /\ W[q] \in Version
  <2>1. PICK v \in Version : v = version[s][q]
    BY <1>0
  <2>2. W[q] = [v EXCEPT !.status = "PUBLISHED", !.public = TRUE]
    BY <1>1, <2>1
  <2> QED
    BY <2>1, <2>2 DEF Version
<1>5. ASSUME NEW i \in DOMAIN version[s] \ {q}
      PROVE  /\ W[i] \in Version /\ W[i].file = version[s][i].file /\ W[i].public = version[s][i].public
             /\ W[i].status # "PUBLISHED"
             /\ version[s][i].status \in {"PUBLISHED", "SUPERSEDED"} => W[i].status = "SUPERSEDED"
  <2>1. PICK v \in Version : v = version[s][i]
    BY <1>0
  <2>2. PICK st \in {"VALIDATED", "HELD", "SUPERSEDED", "REJECTED"}, rel \in {"NONE", "APPLIED", "REJECTED", "EXPIRED"} :
          /\ W[i] = [v EXCEPT !.status = st, !.release = rel]
          /\ v.status \in {"PUBLISHED", "SUPERSEDED"} => st = "SUPERSEDED"
    <3> DEFINE st == IF v.status = "PUBLISHED" \/ (v.status = "HELD" /\ i < q) THEN "SUPERSEDED" ELSE v.status
               rel == IF v.release = "PENDING" THEN "EXPIRED" ELSE v.release
    <3>1. W[i] = [v EXCEPT !.status = st, !.release = rel]
      BY <1>1, <2>1
    <3>2. /\ st \in {"VALIDATED", "HELD", "SUPERSEDED", "REJECTED"} /\ rel \in {"NONE", "APPLIED", "REJECTED", "EXPIRED"}
          /\ v.status \in {"PUBLISHED", "SUPERSEDED"} => st = "SUPERSEDED"
      BY DEF Version
    <3> QED
      BY <3>1, <3>2
  <2> QED
    BY <2>1, <2>2 DEF Version
<1>6. W \in Seq(Version)
  <2>1. \A i \in 1..Len(version[s]) : W[i] \in Version
    BY <1>0, <1>4, <1>5
  <2> QED
    BY <1>0, <1>2, <2>1, IsASeq
<1> QED
  BY <1>0, <1>2, <1>3, <1>4, <1>5, <1>6

\* A commit of a publish keeps what the versions, the rows and the holds are to each other.
LEMMA PublishKeepsTables ==
  ASSUME PublishTypeOK, VersionInv, RowInv, ReadBackInv, HeldIsOffTheList,
         NEW s \in Source, NEW q \in DOMAIN version[s] \cap Seq1,
         version[s][q].status \in {"VALIDATED", "HELD"}, NothingNewer(s, q),
         row' = RowsAfter(s, q), candidate' = CandidatesAfter(s, q),
         version' = [version EXCEPT ![s] = VersionsAfter(s, q)]
  PROVE  VersionInv' /\ RowInv' /\ ReadBackInv' /\ HeldIsOffTheList'
<1> DEFINE file == version[s][q].file
<1>0. /\ q \in Nat /\ q \in Seq1 /\ Seq1 \subseteq Nat /\ NULL \notin Seq1
      /\ \A r \in RowId : r.source \in Source /\ r.key \in Key /\ r.from \in Seq1
  BY PublishTypes, PublishBoundAssumption, PublishNullAssumption DEF Seq1
<1>1. /\ \A x \in Source \ {s} : version'[x] = version[x]
      /\ DOMAIN version'[s] = DOMAIN version[s]
      /\ \A i \in DOMAIN version[s] : version'[s][i].file = version[s][i].file
      /\ version'[s][q].status = "PUBLISHED" /\ version'[s][q].public
      /\ \A i \in DOMAIN version[s] \ {q} :
           /\ version'[s][i].public = version[s][i].public
           /\ version'[s][i].status # "PUBLISHED"
           /\ version[s][i].status \in {"PUBLISHED", "SUPERSEDED"} => version'[s][i].status = "SUPERSEDED"
  BY VersionsPublished
<1>2. /\ \A i \in DOMAIN version[s] : version[s][i].public => i \in Seq1 /\ i < q
      /\ \A r \in RowId : r.source = s /\ row[r] # NULL =>
           r.from < q /\ (row[r].to # NULL => row[r].to \in Seq1 /\ row[r].to < q)
      /\ \A r, x \in RowId : r.source = s /\ SameParty(r, x) /\ Open(r) /\ Open(x) => r = x
  BY BeforePublish
<1>3. \A r \in RowId :
         /\ r.source # s => row'[r] = row[r]
         /\ row[r] # NULL => row'[r] # NULL /\ row'[r].hash = row[r].hash
         /\ row'[r] # NULL => \/ row'[r] = row[r]
                              \/ r.source = s /\ row[r] # NULL /\ row'[r].to = q
                              \/ r.source = s /\ r.from = q /\ row'[r].to = NULL
         /\ r.source = s =>
              /\ \A i \in Seq1 : i < q => (ValidAt(r, i)' <=> ValidAt(r, i))
              /\ \A i \in Seq1 : i >= q => (ValidAt(r, i)' <=> Open(r)')
              /\ r.key \notin Changed(s, q) => (Open(r)' <=> Open(r))
              /\ r.key \in Changed(s, q) => (Open(r)' <=> r.from = q /\ file[r.key] # NULL)
         /\ r.source = s /\ r.key \in Changed(s, q) /\ Open(r)' => row'[r].hash = file[r.key]
  BY RowsPublished
<1>4. \A r \in RowId : r.source # s => (Open(r)' <=> Open(r)) /\ \A i : ValidAt(r, i)' <=> ValidAt(r, i)
  BY <1>3 DEF Open, ValidAt
<1>5. VersionInv'
  <2>1. ASSUME NEW x \in Source \ {s} PROVE version'[x] = version[x]
    BY <1>1
  <2>2. \A i \in DOMAIN version'[s] :
          /\ version'[s][i].public => /\ i \in Seq1 /\ version'[s][i].status \in {"PUBLISHED", "SUPERSEDED"}
                                      /\ \E j \in DOMAIN version'[s] : version'[s][j].status = "PUBLISHED"
          /\ version'[s][i].status = "PUBLISHED" =>
               /\ version'[s][i].public
               /\ \A j \in DOMAIN version'[s] : version'[s][j].public => j <= i
    <3>1. ASSUME NEW i \in DOMAIN version[s], version'[s][i].public
          PROVE  i \in Seq1 /\ i <= q /\ version'[s][i].status \in {"PUBLISHED", "SUPERSEDED"}
      <4>1. CASE i = q
        BY <1>0, <1>1, <4>1
      <4>2. CASE i # q
        <5>1. version[s][i].public /\ version[s][i].status \in {"PUBLISHED", "SUPERSEDED"}
          BY <1>1, <3>1, <4>2 DEF VersionInv
        <5>2. i \in Seq1 /\ i < q
          BY <1>2, <5>1
        <5> QED
          BY <1>0, <1>1, <4>2, <5>1, <5>2
      <4> QED
        BY <4>1, <4>2
    <3>2. \A i \in DOMAIN version[s] : version'[s][i].status = "PUBLISHED" => i = q
      BY <1>1
    <3> QED
      BY <1>1, <3>1, <3>2
  <2> QED
    BY <2>1, <2>2 DEF VersionInv
<1>6. RowInv'
  <2>1. \A x \in Source, i \in Seq1 : IsPublic(x, i) \/ (x = s /\ i = q) => IsPublic(x, i)'
    BY <1>1 DEF IsPublic
  <2>2. ASSUME NEW r \in RowId, row'[r] # NULL
        PROVE  /\ IsPublic(r.source, r.from)'
               /\ row'[r].to # NULL => IsPublic(r.source, row[r].to)' /\ row'[r].to > r.from
    <3>0. r.source \in Source /\ r.from \in Seq1
      BY <1>0
    <3>1. CASE row'[r] = row[r]
      <4>1. IsPublic(r.source, r.from) /\ (row[r].to # NULL => IsPublic(r.source, row[r].to) /\ row[r].to > r.from)
        BY <2>2, <3>1 DEF RowInv
      <4>2. row[r].to # NULL => row[r].to \in Seq1
        BY <3>0, <4>1 DEF VersionInv, IsPublic
      <4> QED
        BY <2>1, <3>0, <3>1, <4>1, <4>2
    <3>2. CASE r.source = s /\ row[r] # NULL /\ row'[r].to = q
      <4>1. IsPublic(r.source, r.from) /\ r.from < q
        BY <1>2, <3>2 DEF RowInv
      <4> QED
        BY <1>0, <2>1, <3>0, <3>2, <4>1
    <3>3. CASE r.source = s /\ r.from = q /\ row'[r].to = NULL
      BY <2>1, <3>0, <3>3
    <3> QED
      BY <1>3, <2>2, <3>1, <3>2, <3>3
  <2>3. ASSUME NEW r \in RowId, NEW x \in RowId, NEW i \in Seq1, SameParty(r, x), ValidAt(r, i)', ValidAt(x, i)'
        PROVE  r = x
    <3>1. CASE r.source # s
      BY <1>4, <2>3, <3>1 DEF RowInv, SameParty
    <3>2. CASE r.source = s /\ i < q
      BY <1>3, <2>3, <3>2 DEF RowInv, SameParty
    <3>3. CASE r.source = s /\ i >= q
      <4>1. x.source = s /\ x.key = r.key /\ Open(r)' /\ Open(x)'
        BY <1>3, <2>3, <3>3 DEF SameParty
      <4>2. CASE r.key \in Changed(s, q)
        <5>1. r.from = q /\ x.from = q
          BY <1>3, <3>3, <4>1, <4>2
        <5> QED
          BY <3>3, <4>1, <5>1 DEF RowId
      <4>3. CASE r.key \notin Changed(s, q)
        BY <1>2, <1>3, <2>3, <3>3, <4>1, <4>3
      <4> QED
        BY <4>2, <4>3
    <3> QED
      BY <1>0, <3>1, <3>2, <3>3
  <2>4. \A r, x \in RowId : SameParty(r, x)' <=> SameParty(r, x)
    BY DEF SameParty
  <2> QED
    BY <2>2, <2>3, <2>4 DEF RowInv
<1>7. ReadBackInv'
  <2> SUFFICES ASSUME NEW x \in Source, NEW i \in DOMAIN version'[x], version'[x][i].public, NEW k \in Key
               PROVE  /\ \A r \in RowId : r.source = x /\ r.key = k /\ ValidAt(r, i)' => row'[r].hash = version'[x][i].file[k]
                      /\ version'[x][i].file[k] # NULL => \E r \in RowId : r.source = x /\ r.key = k /\ ValidAt(r, i)'
    BY DEF ReadBackInv
  <2>1. CASE x # s \/ i # q
    <3>1. i \in DOMAIN version[x] /\ version[x][i].public /\ version'[x][i].file = version[x][i].file
      BY <1>1, <2>1
    <3>2. i \in Seq1 /\ (x = s => i < q)
      BY <1>2, <3>1 DEF VersionInv
    <3>3. \A r \in RowId : r.source = x => (ValidAt(r, i)' <=> ValidAt(r, i))
      BY <1>3, <1>4, <3>2
    <3>4. \A r \in RowId : ValidAt(r, i) => row'[r].hash = row[r].hash
      BY <1>3 DEF ValidAt
    <3> QED
      BY <3>1, <3>3, <3>4 DEF ReadBackInv
  <2>2. CASE x = s /\ i = q
    <3>1. \A r \in RowId : r.source = s => (ValidAt(r, q)' <=> Open(r)')
      BY <1>0, <1>3
    <3>2. CASE k \in Changed(s, q)
      <4>1. file[k] # NULL => \E r \in RowId : r.source = s /\ r.key = k /\ r.from = q
        <5>1. [source |-> s, key |-> k, from |-> q] \in RowId
          BY <1>0 DEF RowId
        <5> QED
          BY <5>1
      <4> QED
        BY <1>1, <1>3, <2>2, <3>1, <3>2, <4>1
    <3>3. CASE k \notin Changed(s, q)
      <4>1. Unchanged(s, k, file[k])
        BY <3>3 DEF Changed
      <4>2. \A r \in RowId : r.source = s /\ r.key = k => (Open(r)' <=> Open(r))
        BY <1>3, <3>3
      <4>3. \A r \in RowId : Open(r) => row'[r].hash = row[r].hash
        BY <1>3 DEF Open
      <4>4. CASE file[k] = NULL
        BY <1>1, <2>2, <3>1, <4>1, <4>2, <4>4 DEF Unchanged, Lists
      <4>5. CASE file[k] # NULL
        <5>1. PICK y \in RowId : y.source = s /\ y.key = k /\ Open(y) /\ row[y].hash = file[k]
          BY <4>1, <4>5 DEF Unchanged
        <5>2. \A r \in RowId : r.source = s /\ r.key = k /\ Open(r) => r = y
          BY <1>2, <5>1 DEF SameParty
        <5> QED
          BY <1>1, <2>2, <3>1, <4>2, <4>3, <5>1, <5>2
      <4> QED
        BY <4>4, <4>5
    <3> QED
      BY <3>2, <3>3
  <2> QED
    BY <2>1, <2>2
<1>8. HeldIsOffTheList'
  <2>1. \A r \in RowId : candidate'[r] \in Holding =>
          \/ r.source = s /\ r.key \in Removed(s, q) /\ Open(r) /\ ~HasOpenCandidate(s, r.key)
          \/ candidate[r] \in Holding /\ ~(r.source = s /\ r.key \in Added(s, q))
    BY DEF CandidatesAfter, Holding
  <2>2. ASSUME NEW r \in RowId, candidate'[r] \in Holding
        PROVE  row'[r] # NULL /\ ~Lists(r.source, r.key)'
    <3>1. CASE r.source = s /\ r.key \in Removed(s, q) /\ Open(r)
      <4>1. r.key \in Changed(s, q) /\ file[r.key] = NULL
        BY <3>1 DEF Removed
      <4>2. row'[r] # NULL /\ \A x \in RowId : x.source = r.source /\ x.key = r.key => ~Open(x)'
        BY <1>3, <3>1, <4>1 DEF Open
      <4> QED
        BY <4>2 DEF Lists
    <3>2. CASE candidate[r] \in Holding /\ ~(r.source = s /\ r.key \in Added(s, q))
      <4>1. row[r] # NULL /\ ~Lists(r.source, r.key)
        BY <3>2 DEF HeldIsOffTheList
      <4>2. ~(r.source = s /\ r.key \in Changed(s, q))
        BY <3>2, <4>1 DEF Added
      <4>3. row'[r] # NULL /\ \A x \in RowId : x.source = r.source /\ x.key = r.key => (Open(x)' <=> Open(x))
        BY <1>3, <1>4, <4>1, <4>2
      <4> QED
        BY <4>1, <4>3 DEF Lists
    <3> QED
      BY <2>1, <2>2, <3>1, <3>2
  <2>3. ASSUME NEW r \in RowId, NEW x \in RowId, candidate'[r] \in Holding, candidate'[x] \in Holding,
               x.source = r.source, x.key = r.key
        PROVE  x = r
    <3>1. (candidate[r] \in Holding \/ candidate[x] \in Holding) => HasOpenCandidate(r.source, r.key)
      BY <2>3 DEF HasOpenCandidate
    <3>2. \/ r.source = s /\ Open(r) /\ Open(x)
          \/ candidate[r] \in Holding /\ candidate[x] \in Holding
      BY <2>1, <2>3, <3>1
    <3> QED
      BY <1>2, <2>3, <3>2 DEF HeldIsOffTheList, SameParty
  <2> QED
    BY <2>2, <2>3 DEF HeldIsOffTheList
<1> QED
  BY <1>5, <1>6, <1>7, <1>8

\* A commit writes one snapshot and ends the transaction: what it does to the transactions and to
\* the snapshot ids.
LEMMA CommitKeepsSessions ==
  ASSUME PublishTypeOK, TxnInv, IdInv, SerialInv, NEW t \in Session, CommitSnapshot(t),
         \A u \in Session \ {t} : txn[u].kind = "PUBLISH" => version'[txn[u].source] = version[txn[u].source]
  PROVE  /\ snapshot' \in [1..MaxSnapshots -> {NULL} \cup Snapshot] /\ txn' \in [Session -> Transaction]
         /\ TxnInv' /\ IdInv' /\ SerialInv'
         /\ txn[t].id \in 1..MaxSnapshots /\ txn[t].pin \in Pins
         /\ snapshot'[txn[t].id] = [held |-> txn[t].held, pin |-> txn[t].pin] /\ snapshot'[txn[t].id] # NULL
         /\ ~overlapped' /\ txn[t].kind # "IDLE" => Exact(txn[t]) /\ \A i \in 1..MaxSnapshots : Latest(i)' => i = txn[t].id
<1>0. /\ snapshot \in [1..MaxSnapshots -> {NULL} \cup Snapshot] /\ txn \in [Session -> Transaction]
      /\ txn[t] \in Transaction /\ Entitled(txn[t])
      /\ snapshot' = [snapshot EXCEPT ![txn[t].id] = [held |-> txn[t].held, pin |-> txn[t].pin]]
      /\ txn' = [txn EXCEPT ![t] = Idle] /\ txn[t].pin # NULL
      /\ UNCHANGED <<nextSnapshot, overlapped>>
  BY PublishTypes DEF PublishTypeOK, TxnInv, CommitSnapshot
<1>1. PICK id, new : id = txn[t].id /\ new = [held |-> txn[t].held, pin |-> txn[t].pin]
  OBVIOUS
<1>2. id # NULL /\ id \in 1..MaxSnapshots /\ id < nextSnapshot /\ txn[t].pin \in Pins /\ txn[t].held \in SUBSET RowId
  BY <1>0, <1>1 DEF Entitled, Transaction, IdInv
<1>3. new \in Snapshot /\ new # NULL
  BY <1>1, <1>2, PublishRowAssumption DEF Snapshot
<1>4. snapshot' = [snapshot EXCEPT ![id] = new]
  BY <1>0, <1>1
<1>5. /\ snapshot' \in [1..MaxSnapshots -> {NULL} \cup Snapshot] /\ snapshot'[id] = new
      /\ \A i \in 1..MaxSnapshots \ {id} : snapshot'[i] = snapshot[i]
  BY <1>0, <1>2, <1>3, <1>4
<1>6. /\ Idle \in Transaction /\ Idle.kind = "IDLE" /\ Idle.id = NULL /\ Idle.source = NULL
      /\ Idle.seq = NULL /\ Idle.pin = NULL
  BY DEF Idle, Transaction
<1>7. txn' \in [Session -> Transaction] /\ txn'[t] = Idle /\ \A u \in Session \ {t} : txn'[u] = txn[u]
  BY <1>0, <1>6
<1>8. TxnInv'
  <2>1. Entitled(Idle)'
    BY <1>6 DEF Entitled
  <2>2. ASSUME NEW u \in Session \ {t} PROVE Entitled(txn[u])'
    <3>1. Entitled(txn[u]) /\ txn'[u] = txn[u]
      BY <1>7 DEF TxnInv
    <3>2. txn[u].kind = "PUBLISH" => version'[txn'[u].source] = version[txn[u].source]
      BY <3>1
    <3> QED
      BY <3>1, <3>2 DEF Entitled, NothingNewer
  <2>3. Entitled(txn[t])'
    BY <1>7, <2>1 DEF Entitled, NothingNewer
  <2> QED
    BY <1>6, <1>7, <2>2, <2>3 DEF TxnInv
<1>9. IdInv'
  BY <1>0, <1>2, <1>5, <1>6, <1>7 DEF IdInv
<1>10. ASSUME ~overlapped', txn[t].kind # "IDLE"
       PROVE  Exact(txn[t]) /\ Busy = {t} /\ \A i \in 1..MaxSnapshots : Latest(i)' => i = id
  <2>1. t \in Busy /\ Exact(txn[t]) /\ Busy = {t}
    BY <1>0, <1>10 DEF SerialInv, Busy
  <2>2. \A i \in 1..MaxSnapshots : snapshot[i] # NULL => i < id
    BY <1>1, <1>2, <2>1 DEF Exact
  <2>3. ASSUME NEW i \in 1..MaxSnapshots, Latest(i)' PROVE i = id
    BY <1>2, <1>3, <1>5, <2>2, <2>3 DEF Latest
  <2> QED
    BY <2>1, <2>3
<1>11. SerialInv'
  <2>1. \A u \in Busy' : u \in Busy /\ u # t
    BY <1>6, <1>7 DEF Busy
  <2>2. ~overlapped' => Busy' = {}
    <3> SUFFICES ASSUME ~overlapped', NEW u \in Busy' PROVE FALSE
      OBVIOUS
    <3>1. u \in Busy /\ u # t /\ txn[t].kind = "IDLE"
      BY <1>10, <2>1
    <3> QED
      BY <1>0, <3>1 DEF Entitled
  <2> QED
    BY <2>2 DEF SerialInv
<1> QED
  BY <1>1, <1>2, <1>3, <1>5, <1>7, <1>8, <1>9, <1>10, <1>11

\* The commit of a publish keeps the invariant.
LEMMA CommitPublishKeeps ==
  ASSUME PublishInv, NEW t \in Session, CommitPublish(t)
  PROVE  PublishInv'
<1>0. /\ PublishTypeOK /\ VersionInv /\ RowInv /\ TxnInv /\ IdInv /\ ReadBackInv /\ HeldIsOffTheList
      /\ SerialInv /\ SerialSnapshotIsExact /\ candidate \in [RowId -> CandidateStatus] /\ overlapped \in BOOLEAN
      /\ releaseRun \subseteq Source \X Seq1 /\ proposal \subseteq RowId /\ nextSnapshot \in 1..(MaxSnapshots + 1)
  BY DEF PublishInv, PublishTypeOK
<1>1. txn[t].kind = "PUBLISH" /\ CommitSnapshot(t) /\ Entitled(txn[t]) /\ UNCHANGED <<proposal, nextSnapshot, overlapped>>
  BY <1>0 DEF CommitPublish, CommitSnapshot, TxnInv
<1>2. PICK s \in Source, q \in DOMAIN version[txn[t].source] \cap Seq1 : s = txn[t].source /\ q = txn[t].seq
  BY <1>1 DEF Entitled
<1>3. /\ q \in DOMAIN version[s] \cap Seq1 /\ version[s][q].status \in {"VALIDATED", "HELD"} /\ NothingNewer(s, q)
  BY <1>1, <1>2 DEF Entitled
<1>4. /\ row' = RowsAfter(s, q) /\ candidate' = CandidatesAfter(s, q)
      /\ version' = [version EXCEPT ![s] = VersionsAfter(s, q)] /\ releaseRun' = releaseRun \ {<<s, q>>}
  BY <1>2 DEF CommitPublish
<1>5. VersionInv' /\ RowInv' /\ ReadBackInv' /\ HeldIsOffTheList'
  BY <1>0, <1>3, <1>4, PublishKeepsTables
<1>6. version' \in [Source -> Seq(Version)] /\ \A x \in Source \ {s} : version'[x] = version[x]
  BY <1>0, <1>3, <1>4, VersionsPublished
<1>7. ASSUME NEW u \in Session \ {t}, txn[u].kind = "PUBLISH" PROVE version'[txn[u].source] = version[txn[u].source]
  <2>1. txn[u].source \in Source /\ txn[u].source # s
    BY <1>0, <1>1, <1>2, <1>7 DEF TxnInv, Entitled
  <2> QED
    BY <1>6, <2>1
<1>8. /\ snapshot' \in [1..MaxSnapshots -> {NULL} \cup Snapshot] /\ txn' \in [Session -> Transaction]
      /\ TxnInv' /\ IdInv' /\ SerialInv'
      /\ txn[t].id \in 1..MaxSnapshots /\ txn[t].pin \in Pins
      /\ snapshot'[txn[t].id] = [held |-> txn[t].held, pin |-> txn[t].pin] /\ snapshot'[txn[t].id] # NULL
      /\ ~overlapped' /\ txn[t].kind # "IDLE" => Exact(txn[t]) /\ \A i \in 1..MaxSnapshots : Latest(i)' => i = txn[t].id
  BY <1>0, <1>1, <1>7, CommitKeepsSessions
<1>9. \A r \in RowId :
         /\ r.source # s => row'[r] = row[r]
         /\ row'[r] \in {NULL} \cup Row
         /\ r.source = s => \A i \in Seq1 : i >= q => (ValidAt(r, i)' <=> Open(r)')
  BY <1>0, <1>3, <1>4, RowsPublished
<1>10. PublishTypeOK'
  <2>1. row' \in [RowId -> {NULL} \cup Row]
    <3>1. row' = [r \in RowId |-> row'[r]]
      BY <1>4 DEF RowsAfter
    <3> QED
      BY <1>9, <3>1
  <2>2. candidate' \in [RowId -> CandidateStatus]
    BY <1>0, <1>4 DEF CandidatesAfter, CandidateStatus, Holding
  <2>3. \A r \in RowId : row'[r] # NULL => row'[r].to = NULL \/ row'[r].to > r.from
    BY <1>5 DEF RowInv
  <2>4. UNCHANGED <<proposal, nextSnapshot, overlapped>> /\ releaseRun' \subseteq Source \X Seq1
    BY <1>0, <1>1, <1>4
  <2> QED
    BY <1>0, <1>6, <1>8, <2>1, <2>2, <2>3, <2>4 DEF PublishTypeOK
<1>11. SerialSnapshotIsExact'
  <2> SUFFICES ASSUME ~overlapped', NEW i \in 1..MaxSnapshots, Latest(i)'
               PROVE  RecordsAsOf(i)' = {r \in RowId : Open(r) \/ candidate[r] \in Holding}'
    BY DEF SerialSnapshotIsExact
  <2>1. i = txn[t].id /\ Exact(txn[t])
    BY <1>1, <1>8
  <2>2. /\ snapshot'[i].held = txn[t].held /\ snapshot'[i].pin = txn[t].pin
    BY <1>8, <2>1
  <2>3. snapshot'[i].held = {r \in RowId : candidate'[r] \in Holding}
    BY <1>1, <1>2, <1>4, <2>1, <2>2 DEF Exact, HeldBy
  <2>4. snapshot'[i].pin = PinnedBy(txn[t])
    BY <1>8, <2>1, <2>2, PublishRowAssumption DEF Exact
  <2>5. ASSUME NEW r \in RowId PROVE ValidAt(r, snapshot[i].pin[r.source])' <=> Open(r)'
    <3>0. r.source \in Source
      BY <1>0, PublishTypes
    <3>1. CASE r.source = s
      <4>1. snapshot'[i].pin[r.source] = q
        BY <1>2, <2>4, <3>0, <3>1 DEF PinnedBy
      <4>2. q \in Seq1 /\ q >= q
        BY <1>3, PublishBoundAssumption DEF Seq1
      <4>3. ValidAt(r, q)' <=> Open(r)'
        BY <1>9, <3>1, <4>2
      <4> QED
        BY <4>1, <4>3 DEF ValidAt
    <3>2. CASE r.source # s
      <4>1. snapshot'[i].pin[r.source] = PublishedSeq(r.source)
        BY <1>2, <2>4, <3>0, <3>2 DEF PinnedBy
      <4>2. Open(r) <=> ValidAt(r, PublishedSeq(r.source))
        BY <1>0, OpenIsCurrent
      <4>3. row'[r] = row[r]
        BY <1>9, <3>2
      <4> QED
        BY <4>1, <4>2, <4>3 DEF ValidAt, Open
    <3> QED
      BY <3>1, <3>2
  <2>6. RecordsAsOf(i)' = {r \in RowId : ValidAt(r, snapshot[i].pin[r.source])'} \cup snapshot'[i].held
    BY DEF RecordsAsOf
  <2> QED
    BY <2>3, <2>5, <2>6
<1> QED
  BY <1>5, <1>8, <1>10, <1>11 DEF PublishInv

\* The commit of a reviewer's decision keeps the invariant.
LEMMA CommitResolveKeeps ==
  ASSUME PublishInv, NEW t \in Session, CommitResolve(t)
  PROVE  PublishInv'
<1>0. /\ PublishTypeOK /\ VersionInv /\ RowInv /\ TxnInv /\ IdInv /\ ReadBackInv /\ HeldIsOffTheList
      /\ SerialInv /\ SerialSnapshotIsExact /\ candidate \in [RowId -> CandidateStatus]
  BY DEF PublishInv, PublishTypeOK
<1>1. /\ txn[t].kind = "RESOLVE" /\ CommitSnapshot(t) /\ Entitled(txn[t])
      /\ UNCHANGED <<version, releaseRun, row, nextSnapshot, overlapped>>
  BY <1>0 DEF CommitResolve, CommitSnapshot, TxnInv
<1>2. PICK x \in RowId : x = txn[t].row
  BY <1>1 DEF Entitled
<1>3. /\ candidate' = [candidate EXCEPT ![x] = IF candidate[x] \in Holding THEN "RELEASED" ELSE candidate[x]]
      /\ proposal' = proposal \ {x}
  BY <1>2 DEF CommitResolve
<1>4. /\ candidate' \in [RowId -> CandidateStatus]
      /\ \A r \in RowId : candidate'[r] \in Holding <=> candidate[r] \in Holding /\ r # x
  BY <1>0, <1>3 DEF CandidateStatus, Holding
<1>5. /\ snapshot' \in [1..MaxSnapshots -> {NULL} \cup Snapshot] /\ txn' \in [Session -> Transaction]
      /\ TxnInv' /\ IdInv' /\ SerialInv'
      /\ txn[t].id \in 1..MaxSnapshots /\ txn[t].pin \in Pins
      /\ snapshot'[txn[t].id] = [held |-> txn[t].held, pin |-> txn[t].pin] /\ snapshot'[txn[t].id] # NULL
      /\ ~overlapped' /\ txn[t].kind # "IDLE" => Exact(txn[t]) /\ \A i \in 1..MaxSnapshots : Latest(i)' => i = txn[t].id
  BY <1>0, <1>1, CommitKeepsSessions
<1>6. PublishTypeOK'
  BY <1>0, <1>1, <1>3, <1>4, <1>5 DEF PublishTypeOK
<1>7. VersionInv' /\ RowInv' /\ ReadBackInv'
  BY <1>0, <1>1 DEF VersionInv, RowInv, IsPublic, ValidAt, ReadBackInv
<1>8. HeldIsOffTheList'
  BY <1>0, <1>1, <1>4 DEF HeldIsOffTheList, Lists, Open
<1>9. SerialSnapshotIsExact'
  <2> SUFFICES ASSUME ~overlapped', NEW i \in 1..MaxSnapshots, Latest(i)'
               PROVE  RecordsAsOf(i)' = {r \in RowId : Open(r) \/ candidate[r] \in Holding}'
    BY DEF SerialSnapshotIsExact
  <2>1. i = txn[t].id /\ Exact(txn[t])
    BY <1>1, <1>5
  <2>2. snapshot'[i].held = txn[t].held /\ snapshot'[i].pin = txn[t].pin
    BY <1>5, <2>1
  <2>3. snapshot'[i].held = {r \in RowId : candidate'[r] \in Holding}
    BY <1>1, <1>2, <1>4, <2>1, <2>2 DEF Exact, HeldBy, Held
  <2>4. snapshot'[i].pin = PinnedBy(txn[t])
    BY <1>5, <2>1, <2>2, PublishRowAssumption DEF Exact
  <2>5. ASSUME NEW r \in RowId PROVE ValidAt(r, snapshot[i].pin[r.source])' <=> Open(r)'
    <3>1. r.source \in Source /\ txn[t].source = NULL
      BY <1>0, <1>1, PublishTypes DEF Entitled
    <3>2. snapshot'[i].pin[r.source] = PublishedSeq(r.source)
      BY <2>4, <3>1, PublishNullAssumption DEF PinnedBy
    <3>3. Open(r) <=> ValidAt(r, PublishedSeq(r.source))
      BY <1>0, OpenIsCurrent
    <3> QED
      BY <1>1, <3>2, <3>3 DEF ValidAt, Open
  <2>6. RecordsAsOf(i)' = {r \in RowId : ValidAt(r, snapshot[i].pin[r.source])'} \cup snapshot'[i].held
    BY DEF RecordsAsOf
  <2> QED
    BY <2>3, <2>5, <2>6
<1> QED
  BY <1>5, <1>6, <1>7, <1>8, <1>9 DEF PublishInv

\* The invariant holds at the start.
LEMMA PublishInitially == ASSUME PublishInit PROVE PublishInv
<1>1. /\ version = [s \in Source |-> <<>>] /\ releaseRun = {} /\ row = [r \in RowId |-> NULL]
      /\ candidate = [r \in RowId |-> "NONE"] /\ proposal = {} /\ snapshot = [i \in 1..MaxSnapshots |-> NULL]
      /\ nextSnapshot = 1 /\ txn = [t \in Session |-> Idle] /\ overlapped = FALSE
  BY DEF PublishInit
<1>2. /\ Idle \in Transaction /\ Idle.kind = "IDLE" /\ Idle.id = NULL /\ Idle.source = NULL
      /\ Idle.seq = NULL /\ Idle.pin = NULL
  BY DEF Idle, Transaction
<1>3. \A s \in Source : version[s] \in Seq(Version) /\ DOMAIN version[s] = {}
  BY <1>1, EmptySeq, LenProperties
<1>4. 1 \in 1..(MaxSnapshots + 1) /\ "NONE" \in CandidateStatus \ Holding
  BY PublishBoundAssumption DEF CandidateStatus, Holding
<1>5. PublishTypeOK
  BY <1>1, <1>2, <1>3, <1>4 DEF PublishTypeOK
<1>6. VersionInv /\ ReadBackInv
  BY <1>3 DEF VersionInv, ReadBackInv
<1>7. RowInv
  BY <1>1 DEF RowInv, ValidAt
<1>8. TxnInv
  BY <1>1, <1>2 DEF TxnInv, Entitled
<1>9. IdInv /\ SerialSnapshotIsExact
  BY <1>1, <1>2 DEF IdInv, SerialSnapshotIsExact, Latest
<1>10. HeldIsOffTheList
  BY <1>1, <1>4 DEF HeldIsOffTheList
<1>11. SerialInv
  BY <1>1, <1>2 DEF SerialInv, Busy
<1> QED
  BY <1>5, <1>6, <1>7, <1>8, <1>9, <1>10, <1>11 DEF PublishInv


\* Every step keeps the invariant.
LEMMA PublishStepsKeep == PublishInv /\ [PublishNext]_pvars => PublishInv'
<1> SUFFICES ASSUME PublishInv, [PublishNext]_pvars PROVE PublishInv'
  OBVIOUS
<1>1. ASSUME NEW s \in Source, NEW file \in File, NEW held \in BOOLEAN, Stage(s, file, held) PROVE PublishInv'
  BY <1>1, VersionStepsKeep
<1>2. ASSUME NEW s \in Source, NEW q \in Seq1, Drop(s, q) \/ ReleaseEnds(s, q) PROVE PublishInv'
  BY <1>2, VersionStepsKeep
<1>3. ASSUME NEW s \in Source, NEW q \in Seq1, NEW approve \in BOOLEAN, DecideRelease(s, q, approve) PROVE PublishInv'
  BY <1>3, VersionStepsKeep
<1>4. ASSUME NEW t \in Session,
             \/ \E s \in Source, q \in Seq1 : BeginPublish(t, s, q)
             \/ \E r \in RowId : BeginResolve(t, r)
             \/ InsertSnapshot(t) \/ PinVersions(t) \/ Rollback(t)
      PROVE  PublishInv'
  BY <1>4, SessionStepsKeep
<1>5. ASSUME NEW t \in Session, CommitPublish(t) \/ CommitResolve(t) PROVE PublishInv'
  BY <1>5, CommitPublishKeeps, CommitResolveKeeps
<1>6. ASSUME NEW r \in RowId, NEW evidence \in BOOLEAN, Assess(r, evidence) PROVE PublishInv'
  BY <1>6, RemovalStepsKeep
<1>7. ASSUME NEW r \in RowId, BlameParser(r) \/ RejectRemoval(r) PROVE PublishInv'
  BY <1>7, RemovalStepsKeep
<1>8. CASE UNCHANGED pvars
  <2>1. UNCHANGED <<version, releaseRun, row, candidate, proposal, snapshot, nextSnapshot, txn, overlapped>>
    BY <1>8 DEF pvars
  <2>2. PublishTypeOK' /\ VersionsKept
    BY <2>1 DEF PublishInv, PublishTypeOK, VersionsKept, VersionKept
  <2> QED
    BY <2>1, <2>2, OutsideKeeps
<1>9. CASE PublishNext
  BY <1>1, <1>2, <1>3, <1>4, <1>5, <1>6, <1>7, <1>9 DEF PublishNext
<1> QED
  BY <1>8, <1>9

\* The invariant holds for good.
LEMMA PublishHolds == PublishSpec => []PublishInv
<1>1. PublishInit => PublishInv
  BY PublishInitially
<1>2. PublishInv /\ [PublishNext]_pvars => PublishInv'
  BY PublishStepsKeep
<1> QED
  BY <1>1, <1>2, PTL DEF PublishSpec

\* The tables, snapshots and transactions have their types, and a row ends after it begins.
THEOREM PublishTypeCorrect == PublishSpec => []PublishTypeOK
<1>1. PublishInv => PublishTypeOK
  BY DEF PublishInv
<1> QED
  BY <1>1, PublishHolds, PTL

\* record_version: however publishes, releases and transactions that roll back interleave, every
\* version that was ever in force can be read back, row for row, as the publisher's file had it.
THEOREM EveryVersionIsReconstructed == PublishSpec => []ReconstructsEveryVersion
<1>1. PublishInv => ReconstructsEveryVersion
  BY ReadBack
<1> QED
  BY <1>1, PublishHolds, PTL

\* removal_candidate: a party that the published file lists again is not held as removed as well,
\* and no party is held twice, whatever the reviewer decides meanwhile.
THEOREM NeverHeldAndListed == PublishSpec => []HeldIsOffTheList
<1>1. PublishInv => HeldIsOffTheList
  BY DEF PublishInv
<1> QED
  BY <1>1, PublishHolds, PTL

\* create_snapshot: as long as transactions that make snapshots do not overlap, what a screening
\* decision reads from the latest snapshot is what the tables hold.
THEOREM SerialSnapshots == PublishSpec => []SerialSnapshotIsExact
<1>1. PublishInv => SerialSnapshotIsExact
  BY DEF PublishInv
<1> QED
  BY <1>1, PublishHolds, PTL

-----------------------------------------------------------------------------
(* Snapshots *)

\* Version q of s was published, or s is not pinned.
InForce(s, q) == q = 0 \/ IsPublic(s, q)

\* What a session pins was published, but for the version it publishes itself.
PinsInForce(x) ==
  x.pin # NULL => \A s \in Source : IF s = x.source THEN x.pin[s] = x.seq ELSE InForce(s, x.pin[s])

\* Snapshot ids under way are all different and not in use, also when sessions overlap, and what
\* snapshots pin was published.
SnapshotInv ==
  /\ \A t, u \in Session : txn[t].id # NULL /\ txn[t].id = txn[u].id => t = u
  /\ \A t \in Session : txn[t].id # NULL => snapshot[txn[t].id] = NULL
  /\ \A t \in Session : PinsInForce(txn[t])
  /\ \A i \in 1..MaxSnapshots : snapshot[i] # NULL => \A s \in Source : InForce(s, snapshot[i].pin[s])

\* The trigger record_version_guard: "record_version rows are immutable (only valid_to_seq may be
\* closed once)".
RowsAreImmutable ==
  [][\A r \in RowId : row[r] # NULL =>
       row'[r] # NULL /\ row'[r].hash = row[r].hash /\ (row[r].to # NULL => row'[r].to = row[r].to)]_pvars

\* A snapshot lists of each source what one published version of it listed, or nothing.
SnapshotsListFiles ==
  \A i \in 1..MaxSnapshots : snapshot[i] # NULL => \A s \in Source, k \in Key :
    LET q == snapshot[i].pin[s]
        listed == {r \in RowId : r.source = s /\ r.key = k /\ ValidAt(r, q)}
    IN \/ q = 0 /\ listed = {}
       \/ IsPublic(s, q) /\ {row[r].hash : r \in listed} = {version[s][q].file[k]} \ {NULL}

\* test_pipeline.py: "the old snapshot still reproduces exactly what screening used before".
ScreeningIsReproducible ==
  [][\A i \in 1..MaxSnapshots : snapshot[i] # NULL =>
       snapshot'[i] = snapshot[i] /\ RecordsAsOf(i)' = RecordsAsOf(i)]_pvars

\* Versions keep their place and their file, and a published one stays published.
LEMMA FilesStay ==
  ASSUME PublishInv, [PublishNext]_pvars, NEW s \in Source, NEW q \in DOMAIN version[s]
  PROVE  /\ q \in DOMAIN version'[s] /\ version'[s][q].file = version[s][q].file
         /\ version[s][q].public => version'[s][q].public
<1>1. ASSUME VersionsKept
      PROVE  /\ q \in DOMAIN version'[s] /\ version'[s][q].file = version[s][q].file
             /\ version[s][q].public => version'[s][q].public
  BY <1>1 DEF VersionsKept, VersionKept
<1>2. ASSUME NEW x \in Source, NEW file \in File, NEW held \in BOOLEAN, Stage(x, file, held) PROVE VersionsKept
  BY <1>2, VersionSteps
<1>3. ASSUME NEW x \in Source, NEW i \in Seq1, Drop(x, i) \/ ReleaseEnds(x, i) PROVE VersionsKept
  BY <1>3, VersionSteps
<1>4. ASSUME NEW x \in Source, NEW i \in Seq1, NEW approve \in BOOLEAN, DecideRelease(x, i, approve) PROVE VersionsKept
  BY <1>4, VersionSteps
<1>5. ASSUME UNCHANGED version PROVE VersionsKept
  BY <1>5 DEF VersionsKept, VersionKept
<1>6. ASSUME NEW t \in Session, CommitPublish(t)
      PROVE  /\ q \in DOMAIN version'[s] /\ version'[s][q].file = version[s][q].file
             /\ version[s][q].public => version'[s][q].public
  <2>1. PublishTypeOK /\ Entitled(txn[t]) /\ txn[t].kind = "PUBLISH"
    BY <1>6 DEF PublishInv, TxnInv, CommitPublish
  <2>2. PICK x \in Source, i \in DOMAIN version[txn[t].source] : x = txn[t].source /\ i = txn[t].seq
    BY <2>1 DEF Entitled
  <2>3. i \in DOMAIN version[x] /\ version' = [version EXCEPT ![x] = VersionsAfter(x, i)]
    BY <1>6, <2>2 DEF CommitPublish
  <2>4. /\ \A y \in Source \ {x} : version'[y] = version[y]
        /\ DOMAIN version'[x] = DOMAIN version[x]
        /\ \A j \in DOMAIN version[x] : version'[x][j].file = version[x][j].file
        /\ version'[x][i].public /\ \A j \in DOMAIN version[x] \ {i} : version'[x][j].public = version[x][j].public
    BY <2>1, <2>3, VersionsPublished
  <2> QED
    BY <2>4
<1> QED
  BY <1>1, <1>2, <1>3, <1>4, <1>5, <1>6
  DEF PublishNext, BeginPublish, BeginResolve, Begin, InsertSnapshot, PinVersions, CommitResolve, Rollback,
      Assess, BlameParser, RejectRemoval, pvars

\* What was in force stays in force.
LEMMA InForceStays ==
  ASSUME PublishInv, [PublishNext]_pvars, NEW s \in Source, NEW q, InForce(s, q)
  PROVE  InForce(s, q)'
BY FilesStay DEF InForce, IsPublic

\* A step leaves the rows that there are, and who is valid at a published version.
LEMMA RowsLast ==
  ASSUME PublishInv, [PublishNext]_pvars, NEW r \in RowId
  PROVE  /\ row[r] # NULL =>
              row'[r] # NULL /\ row'[r].hash = row[r].hash /\ (row[r].to # NULL => row'[r].to = row[r].to)
         /\ \A q : InForce(r.source, q) => (ValidAt(r, q)' <=> ValidAt(r, q))
<1>0. /\ PublishTypeOK /\ VersionInv /\ RowInv /\ TxnInv /\ r.source \in Source /\ r.from \in Seq1
      /\ row[r] # NULL => row[r] \in Row
  BY PublishTypes DEF PublishInv
<1>1. CASE row'[r] = row[r]
  BY <1>1 DEF ValidAt
<1>2. ASSUME NEW t \in Session, CommitPublish(t), row'[r] # row[r]
      PROVE  /\ row[r] # NULL =>
                  row'[r] # NULL /\ row'[r].hash = row[r].hash /\ (row[r].to # NULL => row'[r].to = row[r].to)
             /\ \A q : InForce(r.source, q) => (ValidAt(r, q)' <=> ValidAt(r, q))
  <2>1. txn[t].kind = "PUBLISH" /\ Entitled(txn[t])
    BY <1>0, <1>2 DEF CommitPublish, TxnInv
  <2>2. PICK s \in Source, n \in DOMAIN version[txn[t].source] \cap Seq1 : s = txn[t].source /\ n = txn[t].seq
    BY <2>1 DEF Entitled
  <2>3. /\ n \in DOMAIN version[s] \cap Seq1 /\ version[s][n].status \in {"VALIDATED", "HELD"}
        /\ NothingNewer(s, n) /\ row' = RowsAfter(s, n)
    BY <1>2, <2>1, <2>2 DEF CommitPublish, Entitled
  <2>4. /\ r.source = s
        /\ row[r] # NULL => row'[r] # NULL /\ row'[r].hash = row[r].hash
        /\ \A i \in Seq1 : i < n => (ValidAt(r, i)' <=> ValidAt(r, i))
    BY <1>0, <1>2, <2>3, RowsPublished
  <2>5. /\ \A i \in DOMAIN version[s] : version[s][i].public => i \in Seq1 /\ i < n
        /\ row[r] # NULL => r.from < n
    BY <1>0, <2>3, <2>4, BeforePublish
  <2>6. ASSUME row[r] # NULL, row[r].to # NULL PROVE row'[r].to = row[r].to
    <3>1. r.from # n /\ ~Open(r)
      BY <1>0, <2>5, <2>6, PublishBoundAssumption DEF Open, Seq1
    <3> QED
      BY <1>2, <2>3, <3>1 DEF RowsAfter
  <2>7. ASSUME NEW q, InForce(r.source, q) PROVE ValidAt(r, q)' <=> ValidAt(r, q)
    <3>1. CASE q = 0
      <4>1. ~(r.from <= q)
        BY <1>0, <3>1, PublishBoundAssumption DEF Seq1
      <4> QED
        BY <4>1 DEF ValidAt
    <3>2. CASE q # 0
      <4>1. q \in DOMAIN version[s] /\ version[s][q].public
        BY <2>4, <2>7, <3>2 DEF InForce, IsPublic
      <4> QED
        BY <2>4, <2>5, <4>1
    <3> QED
      BY <3>1, <3>2
  <2> QED
    BY <2>4, <2>6, <2>7
<1>3. ASSUME NEW x \in Source, NEW file \in File, NEW held \in BOOLEAN, Stage(x, file, held) PROVE row' = row
  BY <1>3 DEF Stage
<1> QED
  BY <1>1, <1>2, <1>3
  DEF PublishNext, Drop, ReleaseEnds, DecideRelease, BeginPublish, BeginResolve, Begin, InsertSnapshot,
      PinVersions, CommitResolve, Rollback, Assess, BlameParser, RejectRemoval, pvars

\* A snapshot that is there is not written again.
LEMMA SnapshotsStay ==
  ASSUME PublishInv, SnapshotInv, [PublishNext]_pvars, NEW i \in 1..MaxSnapshots, snapshot[i] # NULL
  PROVE  snapshot'[i] = snapshot[i]
<1>1. ASSUME NEW t \in Session, CommitSnapshot(t) PROVE snapshot'[i] = snapshot[i]
  <2>1. PICK id, new : id = txn[t].id /\ new = [held |-> txn[t].held, pin |-> txn[t].pin]
    OBVIOUS
  <2>2. id # NULL /\ snapshot[id] = NULL
    BY <1>1, <2>1 DEF CommitSnapshot, PublishInv, TxnInv, Entitled, SnapshotInv
  <2>3. snapshot' = [snapshot EXCEPT ![id] = new] /\ id # i
    BY <1>1, <2>1, <2>2 DEF CommitSnapshot
  <2> QED
    BY <2>3 DEF PublishInv, PublishTypeOK
<1>2. ASSUME NEW x \in Source, NEW file \in File, NEW held \in BOOLEAN, Stage(x, file, held) PROVE UNCHANGED snapshot
  BY <1>2 DEF Stage
<1> QED
  BY <1>1, <1>2
  DEF PublishNext, Drop, ReleaseEnds, DecideRelease, BeginPublish, BeginResolve, Begin, InsertSnapshot,
      PinVersions, CommitPublish, CommitResolve, Rollback, Assess, BlameParser, RejectRemoval, pvars

\* A published version of a source is what an observer finds; before the first there is none.
LEMMA PublishedIsInForce ==
  ASSUME PublishInv, NEW s \in Source
  PROVE  InForce(s, PublishedSeq(s))
<1> DEFINE published == {q \in DOMAIN version[s] : version[s][q].status = "PUBLISHED"}
<1>1. CASE published = {}
  BY <1>1 DEF PublishedSeq, InForce
<1>2. CASE published # {}
  <2>1. PublishedSeq(s) \in published
    BY <1>2 DEF PublishedSeq
  <2> QED
    BY <2>1 DEF PublishInv, VersionInv, InForce, IsPublic
<1> QED
  BY <1>1, <1>2

\* Steps of one session before it commits.
LEMMA PinsKept ==
  ASSUME PublishInv, SnapshotInv, [PublishNext]_pvars, UNCHANGED snapshot,
         NEW t \in Session, NEW x, txn' = [txn EXCEPT ![t] = x],
         x.id \in {NULL, txn[t].id} \/ (x.id = nextSnapshot /\ nextSnapshot \in 1..MaxSnapshots), PinsInForce(x)
  PROVE  SnapshotInv'
<1>0. /\ txn \in [Session -> Transaction] /\ IdInv /\ nextSnapshot \in Nat
      /\ \A u \in Session : txn[u].id # NULL => txn[u].id \in 1..MaxSnapshots /\ txn[u].id < nextSnapshot
  BY PublishBoundAssumption DEF PublishInv, PublishTypeOK, IdInv, Transaction
<1>1. txn'[t] = x /\ \A u \in Session \ {t} : txn'[u] = txn[u]
  BY <1>0
<1>2. \A s \in Source : \A q : InForce(s, q) => InForce(s, q)'
  BY InForceStays
<1>3. \A y : PinsInForce(y) => PinsInForce(y)'
  BY <1>2 DEF PinsInForce
<1>4. \A u \in Session : PinsInForce(txn'[u])
  BY <1>1 DEF SnapshotInv
<1>5. \A u \in Session : PinsInForce(txn[u])'
  BY <1>3, <1>4
<1>6. nextSnapshot \in 1..MaxSnapshots => snapshot[nextSnapshot] = NULL
  BY <1>0 DEF IdInv
<1>7. \A u \in Session : txn'[u].id # NULL => snapshot'[txn'[u].id] = NULL
  BY <1>1, <1>6 DEF SnapshotInv
<1>8. \A u \in Session \ {t} : x.id # NULL => txn[u].id # x.id
  BY <1>0 DEF SnapshotInv
<1>9. \A u, v \in Session : txn'[u].id # NULL /\ txn'[u].id = txn'[v].id => u = v
  BY <1>1, <1>8 DEF SnapshotInv
<1>10. \A i \in 1..MaxSnapshots : snapshot'[i] # NULL => \A s \in Source : InForce(s, snapshot[i].pin[s])'
  <2> SUFFICES ASSUME NEW i \in 1..MaxSnapshots, snapshot[i] # NULL, NEW s \in Source
               PROVE  InForce(s, snapshot[i].pin[s])'
    OBVIOUS
  <2>1. PICK q : q = snapshot[i].pin[s]
    OBVIOUS
  <2>2. InForce(s, q) /\ q = snapshot'[i].pin[s]
    BY <2>1 DEF SnapshotInv
  <2>3. InForce(s, q)'
    BY <1>2, <2>2
  <2> QED
    BY <2>2, <2>3 DEF InForce
<1> QED
  BY <1>5, <1>7, <1>9, <1>10 DEF SnapshotInv

\* The commit of a snapshot.
LEMMA SnapshotCommitted ==
  ASSUME PublishInv, SnapshotInv, [PublishNext]_pvars, NEW t \in Session, CommitPublish(t) \/ CommitResolve(t)
  PROVE  SnapshotInv'
<1>0. /\ PublishTypeOK /\ txn \in [Session -> Transaction] /\ snapshot \in [1..MaxSnapshots -> {NULL} \cup Snapshot]
      /\ txn[t] \in Transaction /\ Entitled(txn[t]) /\ Idle.id = NULL /\ Idle.pin = NULL /\ CommitSnapshot(t)
  BY DEF PublishInv, PublishTypeOK, TxnInv, Idle, CommitPublish, CommitResolve
<1>1. PICK id, new : id = txn[t].id /\ new = [held |-> txn[t].held, pin |-> txn[t].pin]
  OBVIOUS
<1>2. id \in 1..MaxSnapshots /\ id # NULL /\ txn[t].pin \in Pins /\ new.pin = txn[t].pin
  BY <1>0, <1>1 DEF CommitSnapshot, Entitled, Transaction
<1>3. snapshot' = [snapshot EXCEPT ![id] = new] /\ txn' = [txn EXCEPT ![t] = Idle]
  BY <1>0, <1>1 DEF CommitSnapshot
<1>4. /\ snapshot'[id] = new /\ \A i \in 1..MaxSnapshots \ {id} : snapshot'[i] = snapshot[i]
      /\ txn'[t] = Idle /\ \A u \in Session \ {t} : txn'[u] = txn[u]
  BY <1>0, <1>2, <1>3
<1>5. \A s \in Source : \A q : InForce(s, q) => InForce(s, q)'
  BY InForceStays
<1>6. PICK pin, source1 : pin = txn[t].pin /\ source1 = txn[t].source
  OBVIOUS
<1>7. ASSUME NEW s \in Source PROVE InForce(s, pin[s])'
  <2>1. CASE s # source1
    <3>1. InForce(s, pin[s])
      BY <1>0, <1>6, <2>1 DEF SnapshotInv, PinsInForce, CommitSnapshot
    <3> QED
      BY <1>5, <3>1
  <2>2. CASE s = source1
    <3>1. txn[t].kind = "PUBLISH" /\ CommitPublish(t)
      BY <1>0, <1>6, <2>2, PublishNullAssumption DEF Entitled, CommitResolve
    <3>2. PICK q \in DOMAIN version[s] : q = txn[t].seq
      BY <1>0, <1>6, <2>2, <3>1 DEF Entitled
    <3>3. pin[s] = q
      BY <1>0, <1>6, <2>2, <3>2 DEF SnapshotInv, PinsInForce, CommitSnapshot
    <3>4. version' = [version EXCEPT ![s] = VersionsAfter(s, q)]
      BY <1>6, <2>2, <3>1, <3>2 DEF CommitPublish
    <3>5. q \in DOMAIN version'[s] /\ version'[s][q].public
      BY <1>0, <3>4, VersionsPublished
    <3> QED
      BY <3>3, <3>5 DEF InForce, IsPublic
  <2> QED
    BY <2>1, <2>2
<1>8. \A i \in 1..MaxSnapshots : snapshot'[i] # NULL => \A s \in Source : InForce(s, snapshot[i].pin[s])'
  <2> SUFFICES ASSUME NEW i \in 1..MaxSnapshots, snapshot'[i] # NULL, NEW s \in Source
               PROVE  InForce(s, snapshot[i].pin[s])'
    OBVIOUS
  <2>1. CASE i = id
    <3>1. snapshot'[i].pin[s] = pin[s]
      BY <1>2, <1>4, <1>6, <2>1
    <3> QED
      BY <1>7, <3>1 DEF InForce
  <2>2. CASE i # id
    <3>1. PICK q : q = snapshot[i].pin[s]
      OBVIOUS
    <3>2. InForce(s, q) /\ q = snapshot'[i].pin[s]
      BY <1>4, <2>2, <3>1 DEF SnapshotInv
    <3>3. InForce(s, q)'
      BY <1>5, <3>2
    <3> QED
      BY <3>2, <3>3 DEF InForce
  <2> QED
    BY <2>1, <2>2
<1>9. \A u \in Session : PinsInForce(txn[u])'
  <2>1. \A y : PinsInForce(y) => PinsInForce(y)'
    BY <1>5 DEF PinsInForce
  <2>2. ASSUME NEW u \in Session PROVE PinsInForce(txn'[u])
    BY <1>0, <1>4 DEF SnapshotInv, PinsInForce
  <2> QED
    BY <2>1, <2>2
<1>10. \A u \in Session : txn'[u].id # NULL => snapshot'[txn'[u].id] = NULL
  <2> SUFFICES ASSUME NEW u \in Session, txn'[u].id # NULL PROVE snapshot'[txn'[u].id] = NULL
    OBVIOUS
  <2>1. u # t /\ txn'[u] = txn[u]
    BY <1>0, <1>4
  <2>2. txn[u].id \in 1..MaxSnapshots /\ txn[u].id # id
    BY <1>0, <1>1, <2>1 DEF SnapshotInv, Transaction
  <2> QED
    BY <1>4, <2>1, <2>2 DEF SnapshotInv
<1>11. \A u, v \in Session : txn'[u].id # NULL /\ txn'[u].id = txn'[v].id => u = v
  BY <1>0, <1>4 DEF SnapshotInv
<1> QED
  BY <1>8, <1>9, <1>10, <1>11 DEF SnapshotInv

\* Every step keeps what holds of ids and pins.
LEMMA SnapshotStepsKeep == PublishInv /\ SnapshotInv /\ [PublishNext]_pvars => SnapshotInv'
<1> SUFFICES ASSUME PublishInv, SnapshotInv, [PublishNext]_pvars PROVE SnapshotInv'
  OBVIOUS
<1>0. /\ txn \in [Session -> Transaction] /\ nextSnapshot \in 1..(MaxSnapshots + 1)
      /\ Idle.id = NULL /\ Idle.pin = NULL /\ PinsInForce(Idle)
  BY DEF PublishInv, PublishTypeOK, Idle, PinsInForce
<1>1. ASSUME UNCHANGED <<txn, snapshot>> PROVE SnapshotInv'
  <2>1. CASE Session = {}
    <3>1. \A i \in 1..MaxSnapshots : snapshot'[i] # NULL => \A s \in Source : InForce(s, snapshot[i].pin[s])'
      <4> SUFFICES ASSUME NEW i \in 1..MaxSnapshots, snapshot[i] # NULL, NEW s \in Source
                   PROVE  InForce(s, snapshot[i].pin[s])'
        BY <1>1
      <4>1. PICK q : q = snapshot[i].pin[s]
        OBVIOUS
      <4>2. InForce(s, q)'
        BY <4>1, InForceStays DEF SnapshotInv
      <4> QED
        BY <1>1, <4>1, <4>2 DEF InForce
    <3> QED
      BY <2>1, <3>1 DEF SnapshotInv
  <2>2. CASE Session # {}
    <3>1. PICK t \in Session : TRUE
      BY <2>2
    <3>2. txn' = [txn EXCEPT ![t] = txn[t]] /\ PinsInForce(txn[t])
      BY <1>0, <1>1 DEF SnapshotInv
    <3> QED
      BY <1>1, <3>2, PinsKept
  <2> QED
    BY <2>1, <2>2
<1>2. ASSUME NEW t \in Session, NEW x, Begin(t, x), x.id = NULL, x.pin = NULL PROVE SnapshotInv'
  <2>1. txn' = [txn EXCEPT ![t] = x] /\ UNCHANGED snapshot /\ PinsInForce(x)
    BY <1>2 DEF Begin, PinsInForce
  <2> QED
    BY <1>2, <2>1, PinsKept
<1>3. ASSUME NEW t \in Session, NEW s \in Source, NEW q \in Seq1, BeginPublish(t, s, q) PROVE SnapshotInv'
  <2>1. PICK x : x = [Idle EXCEPT !.kind = "PUBLISH", !.source = s, !.seq = q,
                                  !.held = {r \in RowId : CandidatesAfter(s, q)[r] \in Holding}]
    OBVIOUS
  <2>2. Begin(t, x)
    BY <1>3, <2>1 DEF BeginPublish
  <2>3. x.id = NULL /\ x.pin = NULL
    BY <2>1 DEF Idle
  <2> QED
    BY <1>2, <2>2, <2>3
<1>4. ASSUME NEW t \in Session, NEW r \in RowId, BeginResolve(t, r) PROVE SnapshotInv'
  <2>1. PICK x : x = [Idle EXCEPT !.kind = "RESOLVE", !.row = r, !.held = {y \in RowId \ {r} : candidate[y] \in Holding}]
    OBVIOUS
  <2>2. Begin(t, x)
    BY <1>4, <2>1 DEF BeginResolve
  <2>3. x.id = NULL /\ x.pin = NULL
    BY <2>1 DEF Idle
  <2> QED
    BY <1>2, <2>2, <2>3
<1>5. ASSUME NEW t \in Session, InsertSnapshot(t) PROVE SnapshotInv'
  <2>1. PICK x : x = [txn[t] EXCEPT !.id = nextSnapshot]
    OBVIOUS
  <2>2. /\ txn' = [txn EXCEPT ![t] = x] /\ UNCHANGED snapshot /\ nextSnapshot <= MaxSnapshots
        /\ txn[t].id = NULL
    BY <1>5, <2>1 DEF InsertSnapshot
  <2>3. x.id = nextSnapshot /\ x.pin = txn[t].pin
    BY <1>0, <2>1 DEF Transaction
  <2>4. txn[t].pin = NULL
    BY <2>2 DEF PublishInv, TxnInv, Entitled
  <2>5. PinsInForce(x) /\ nextSnapshot \in 1..MaxSnapshots
    BY <1>0, <2>2, <2>3, <2>4, PublishBoundAssumption DEF PinsInForce
  <2> QED
    BY <2>2, <2>3, <2>5, PinsKept
<1>6. ASSUME NEW t \in Session, PinVersions(t) PROVE SnapshotInv'
  <2>1. PICK pin : pin = [s \in Source |-> IF txn[t].source = s THEN txn[t].seq ELSE PublishedSeq(s)]
    OBVIOUS
  <2>2. PICK x : x = [txn[t] EXCEPT !.pin = pin]
    OBVIOUS
  <2>3. txn' = [txn EXCEPT ![t] = x] /\ UNCHANGED snapshot
    BY <1>6, <2>1, <2>2 DEF PinVersions
  <2>4. x.id = txn[t].id /\ x.pin = pin /\ x.source = txn[t].source /\ x.seq = txn[t].seq
    BY <1>0, <2>2 DEF Transaction
  <2>5. \A s \in Source : IF s = txn[t].source THEN pin[s] = txn[t].seq ELSE InForce(s, pin[s])
    BY <2>1, PublishedIsInForce
  <2>6. PinsInForce(x)
    BY <2>4, <2>5 DEF PinsInForce
  <2> QED
    BY <2>3, <2>4, <2>6, PinsKept
<1>7. ASSUME NEW t \in Session, Rollback(t) PROVE SnapshotInv'
  <2>1. txn' = [txn EXCEPT ![t] = Idle] /\ UNCHANGED snapshot
    BY <1>7 DEF Rollback
  <2> QED
    BY <1>0, <2>1, PinsKept
<1>8. ASSUME NEW t \in Session, CommitPublish(t) \/ CommitResolve(t) PROVE SnapshotInv'
  BY <1>8, SnapshotCommitted
<1>9. ASSUME NEW x \in Source, NEW file \in File, NEW held \in BOOLEAN, Stage(x, file, held)
      PROVE  UNCHANGED <<txn, snapshot>>
  BY <1>9 DEF Stage
<1> QED
  BY <1>1, <1>3, <1>4, <1>5, <1>6, <1>7, <1>8, <1>9
  DEF PublishNext, Drop, ReleaseEnds, DecideRelease, Assess, BlameParser, RejectRemoval, pvars

\* It holds for good.
LEMMA SnapshotsHold == PublishSpec => [](PublishInv /\ SnapshotInv)
<1>1. PublishInit => SnapshotInv
  BY DEF PublishInit, SnapshotInv, PinsInForce, Idle
<1>2. PublishInv /\ SnapshotInv /\ [PublishNext]_pvars => SnapshotInv'
  BY SnapshotStepsKeep
<1> QED
  BY <1>1, <1>2, PublishHolds, PTL DEF PublishSpec

\* record_version_guard never has to refuse anything: no publish or release changes the
\* content of a row, or closes it twice.
THEOREM RowsNeverChange == PublishSpec => RowsAreImmutable
<1>1. PublishInv /\ [PublishNext]_pvars =>
        [\A r \in RowId : row[r] # NULL =>
           row'[r] # NULL /\ row'[r].hash = row[r].hash /\ (row[r].to # NULL => row'[r].to = row[r].to)]_pvars
  BY RowsLast
<1> QED
  BY <1>1, PublishHolds, PTL DEF PublishSpec, RowsAreImmutable

\* create_snapshot: also when transactions overlap, a snapshot lists of every source exactly what one
\* published version of it listed: never parts of two versions, nor one whose transaction failed.
THEOREM SnapshotsListPublishedFiles == PublishSpec => []SnapshotsListFiles
<1>1. PublishInv /\ SnapshotInv => SnapshotsListFiles
  <2> SUFFICES ASSUME PublishInv, SnapshotInv, NEW i \in 1..MaxSnapshots, snapshot[i] # NULL,
                      NEW s \in Source, NEW k \in Key
               PROVE  LET q == snapshot[i].pin[s]
                          listed == {r \in RowId : r.source = s /\ r.key = k /\ ValidAt(r, q)}
                      IN \/ q = 0 /\ listed = {}
                         \/ IsPublic(s, q) /\ {row[r].hash : r \in listed} = {version[s][q].file[k]} \ {NULL}
    BY DEF SnapshotsListFiles
  <2>1. PICK q : q = snapshot[i].pin[s]
    OBVIOUS
  <2>2. PICK listed : listed = {r \in RowId : r.source = s /\ r.key = k /\ ValidAt(r, q)}
    OBVIOUS
  <2>3. InForce(s, q)
    BY <2>1 DEF SnapshotInv
  <2>4. CASE q = 0
    <3>1. \A r \in RowId : ~ValidAt(r, 0)
      BY PublishTypes, PublishBoundAssumption DEF PublishInv, ValidAt, Seq1
    <3>2. listed = {}
      BY <2>2, <2>4, <3>1
    <3> QED
      BY <2>1, <2>2, <2>4, <3>2
  <2>5. CASE q # 0
    <3>1. IsPublic(s, q)
      BY <2>3, <2>5 DEF InForce
    <3>2. {row[r].hash : r \in {r \in RowId : r.source = s /\ r.key = k /\ ValidAt(r, q)}} = {version[s][q].file[k]} \ {NULL}
      BY <3>1, ReadBack DEF IsPublic, ReconstructsEveryVersion
    <3> QED
      BY <2>1, <2>2, <3>1, <3>2
  <2> QED
    BY <2>4, <2>5
<1> QED
  BY <1>1, SnapshotsHold, PTL

\* A screening decision can be reproduced for ever: whatever is published, released or decided
\* later, also by transactions that overlap, a snapshot stays as it was committed and records_as_of
\* reads the same rows from it, which keep their content (RowsNeverChange).
THEOREM ScreeningReproduces == PublishSpec => ScreeningIsReproducible
<1>1. PublishInv /\ SnapshotInv /\ [PublishNext]_pvars =>
        [\A i \in 1..MaxSnapshots : snapshot[i] # NULL =>
           snapshot'[i] = snapshot[i] /\ RecordsAsOf(i)' = RecordsAsOf(i)]_pvars
  <2> SUFFICES ASSUME PublishInv, SnapshotInv, [PublishNext]_pvars, NEW i \in 1..MaxSnapshots, snapshot[i] # NULL
               PROVE  snapshot'[i] = snapshot[i] /\ RecordsAsOf(i)' = RecordsAsOf(i)
    OBVIOUS
  <2>1. PICK x : x = snapshot[i] /\ snapshot'[i] = x
    BY SnapshotsStay
  <2>2. ASSUME NEW r \in RowId PROVE ValidAt(r, x.pin[r.source])' <=> ValidAt(r, x.pin[r.source])
    <3>1. InForce(r.source, x.pin[r.source])
      BY <2>1, PublishTypes DEF PublishInv, SnapshotInv
    <3> QED
      BY <3>1, RowsLast
  <2>3. RecordsAsOf(i) = {r \in RowId : ValidAt(r, x.pin[r.source])} \cup x.held
    BY <2>1 DEF RecordsAsOf
  <2>4. RecordsAsOf(i)' = {r \in RowId : ValidAt(r, x.pin[r.source])'} \cup x.held
    BY <2>1 DEF RecordsAsOf
  <2> QED
    BY <2>1, <2>2, <2>3, <2>4
<1> QED
  BY <1>1, SnapshotsHold, PTL DEF PublishSpec, ScreeningIsReproducible

-----------------------------------------------------------------------------
(* Screening *)

\* A reviewer who is deciding on a removal has its proposal locked: it stays pending, and nobody
\* else decides on it.
ReviewInv ==
  \A t \in Session : txn[t].kind = "RESOLVE" =>
    /\ txn[t].row \in proposal
    /\ \A u \in Session : txn[u].kind = "RESOLVE" /\ txn[u].row = txn[t].row => u = t

\* That lock is kept.
LEMMA ReviewIsLocked == PublishInv /\ ReviewInv /\ [PublishNext]_pvars => ReviewInv'
<1> SUFFICES ASSUME PublishInv, ReviewInv, [PublishNext]_pvars PROVE ReviewInv'
  OBVIOUS
<1>0. txn \in [Session -> Transaction] /\ Idle.kind = "IDLE"
  BY DEF PublishInv, PublishTypeOK, Idle
<1>1. ASSUME UNCHANGED <<proposal, txn>> PROVE ReviewInv'
  BY <1>1 DEF ReviewInv
<1>2. ASSUME NEW t \in Session, NEW x, UNCHANGED proposal, txn' = [txn EXCEPT ![t] = x],
             x.kind = "RESOLVE" => \/ txn[t].kind = "RESOLVE" /\ x.row = txn[t].row
                                   \/ /\ x.row \in proposal
                                      /\ ~\E u \in Session : txn[u].kind = "RESOLVE" /\ txn[u].row = x.row
      PROVE  ReviewInv'
  BY <1>0, <1>2 DEF ReviewInv
<1>3. ASSUME NEW t \in Session, NEW s \in Source, NEW q \in Seq1, BeginPublish(t, s, q) PROVE ReviewInv'
  <2>1. PICK x : x = [Idle EXCEPT !.kind = "PUBLISH", !.source = s, !.seq = q,
                                  !.held = {r \in RowId : CandidatesAfter(s, q)[r] \in Holding}]
    OBVIOUS
  <2>2. txn' = [txn EXCEPT ![t] = x] /\ UNCHANGED proposal
    BY <1>3, <2>1 DEF BeginPublish, Begin
  <2>3. x.kind = "PUBLISH"
    BY <2>1 DEF Idle
  <2> QED
    BY <1>2, <2>2, <2>3
<1>4. ASSUME NEW t \in Session, NEW r \in RowId, BeginResolve(t, r) PROVE ReviewInv'
  <2>1. PICK x : x = [Idle EXCEPT !.kind = "RESOLVE", !.row = r, !.held = {y \in RowId \ {r} : candidate[y] \in Holding}]
    OBVIOUS
  <2>2. txn' = [txn EXCEPT ![t] = x] /\ UNCHANGED proposal /\ r \in proposal /\ ~LockedCandidate(r)
    BY <1>4, <2>1 DEF BeginResolve, Begin
  <2>3. x.kind = "RESOLVE" /\ x.row = r
    BY <2>1 DEF Idle
  <2> QED
    BY <1>2, <2>2, <2>3 DEF LockedCandidate
<1>5. ASSUME NEW t \in Session, InsertSnapshot(t) \/ PinVersions(t) \/ Rollback(t) PROVE ReviewInv'
  <2>1. PICK x : x.kind \in {txn[t].kind, "IDLE"} /\ x.row \in {txn[t].row, Idle.row} /\ UNCHANGED proposal
                 /\ txn' = [txn EXCEPT ![t] = x] /\ (x.kind = "RESOLVE" => x.row = txn[t].row)
    <3>1. CASE InsertSnapshot(t)
      <4>1. PICK x : x = [txn[t] EXCEPT !.id = nextSnapshot]
        OBVIOUS
      <4>2. txn' = [txn EXCEPT ![t] = x] /\ UNCHANGED proposal
        BY <3>1, <4>1 DEF InsertSnapshot
      <4>3. x.kind = txn[t].kind /\ x.row = txn[t].row
        BY <1>0, <4>1 DEF Transaction
      <4> QED
        BY <4>2, <4>3
    <3>2. CASE PinVersions(t)
      <4>1. PICK x : x = [txn[t] EXCEPT !.pin = PinnedBy(txn[t])]
        OBVIOUS
      <4>2. txn' = [txn EXCEPT ![t] = x] /\ UNCHANGED proposal
        BY <3>2, <4>1 DEF PinVersions, PinnedBy
      <4>3. x.kind = txn[t].kind /\ x.row = txn[t].row
        BY <1>0, <4>1 DEF Transaction
      <4> QED
        BY <4>2, <4>3
    <3>3. CASE Rollback(t)
      BY <1>0, <3>3 DEF Rollback
    <3> QED
      BY <1>5, <3>1, <3>2, <3>3
  <2> QED
    BY <1>0, <1>2, <2>1
<1>6. ASSUME NEW t \in Session, CommitPublish(t) PROVE ReviewInv'
  BY <1>0, <1>2, <1>6 DEF CommitPublish, CommitSnapshot
<1>7. ASSUME NEW t \in Session, CommitResolve(t) PROVE ReviewInv'
  <2>1. txn' = [txn EXCEPT ![t] = Idle] /\ proposal' = proposal \ {txn[t].row} /\ txn[t].kind = "RESOLVE"
    BY <1>7 DEF CommitResolve, CommitSnapshot
  <2> QED
    BY <1>0, <2>1 DEF ReviewInv
<1>8. ASSUME NEW r \in RowId, NEW evidence \in BOOLEAN, Assess(r, evidence) PROVE ReviewInv'
  BY <1>8 DEF Assess, ReviewInv
<1>9. ASSUME NEW r \in RowId, BlameParser(r) \/ RejectRemoval(r) PROVE ReviewInv'
  <2>1. proposal' = proposal \ {r} /\ UNCHANGED txn /\ ~\E t \in Session : txn[t].kind = "RESOLVE" /\ txn[t].row = r
    BY <1>9 DEF BlameParser, RejectRemoval, LockedCandidate
  <2> QED
    BY <2>1 DEF ReviewInv
<1>10. CASE UNCHANGED pvars
  BY <1>1, <1>10 DEF pvars
<1>11. ASSUME NEW s \in Source, NEW q \in Seq1, Drop(s, q) \/ ReleaseEnds(s, q) PROVE ReviewInv'
  BY <1>1, <1>11 DEF Drop, ReleaseEnds
<1>12. ASSUME NEW s \in Source, NEW q \in Seq1, NEW approve \in BOOLEAN, DecideRelease(s, q, approve) PROVE ReviewInv'
  BY <1>1, <1>12 DEF DecideRelease
<1>13. ASSUME NEW s \in Source, NEW file \in File, NEW held \in BOOLEAN, Stage(s, file, held) PROVE ReviewInv'
  BY <1>1, <1>13 DEF Stage
<1>14. CASE PublishNext
  BY <1>3, <1>4, <1>5, <1>6, <1>7, <1>8, <1>9, <1>11, <1>12, <1>13, <1>14 DEF PublishNext
<1> QED
  BY <1>10, <1>14

\* The refinement mapping of BlocksUntilReviewed.
Party == Source \X Key
Blocked == {p \in Party : Lists(p[1], p[2]) \/ HasOpenCandidate(p[1], p[2])}
Review == {<<r.source, r.key>> : r \in proposal}

\* A step that changes neither which parties are listed and held nor what is under review is a
\* stutter of the promise.
LEMMA BlockedStays ==
  ASSUME UNCHANGED row, \A r \in RowId : candidate'[r] \in Holding <=> candidate[r] \in Holding
  PROVE  Blocked' = Blocked
<1>1. \A p \in Party : (Lists(p[1], p[2])' <=> Lists(p[1], p[2])) /\ (HasOpenCandidate(p[1], p[2])' <=> HasOpenCandidate(p[1], p[2]))
  BY DEF Lists, Open, HasOpenCandidate
<1> QED
  BY <1>1 DEF Blocked

\* A publish takes no party out: one it removes is held from then on, one that was held is still
\* held or is listed again.
LEMMA PublishBlocks ==
  ASSUME PublishTypeOK, VersionInv, RowInv,
         NEW s \in Source, NEW q \in DOMAIN version[s] \cap Seq1,
         version[s][q].status \in {"VALIDATED", "HELD"}, NothingNewer(s, q),
         row' = RowsAfter(s, q), candidate' = CandidatesAfter(s, q)
  PROVE  Blocked \subseteq Blocked'
<1> DEFINE file == version[s][q].file
<1>0. q \in Seq1 /\ \A r \in RowId : r.source \in Source /\ r.key \in Key
  BY PublishTypes
<1>1. \A r \in RowId :
         /\ r.source # s => row'[r] = row[r]
         /\ r.source = s =>
              /\ r.key \notin Changed(s, q) => (Open(r)' <=> Open(r))
              /\ r.key \in Changed(s, q) => (Open(r)' <=> r.from = q /\ file[r.key] # NULL)
  BY RowsPublished
<1>2. \A r \in RowId : candidate'[r] =
        IF r.source = s /\ r.key \in Removed(s, q) /\ Open(r) /\ ~HasOpenCandidate(s, r.key) THEN "PENDING"
        ELSE IF r.source = s /\ r.key \in Added(s, q) /\ candidate[r] \in Holding THEN "RELISTED"
        ELSE candidate[r]
  BY DEF CandidatesAfter
<1>3. ASSUME NEW k \in Key, k \in Changed(s, q), file[k] # NULL PROVE Lists(s, k)'
  <2>1. PICK r \in RowId : r = [source |-> s, key |-> k, from |-> q]
    BY <1>0 DEF RowId
  <2>2. Open(r)' /\ r.source = s /\ r.key = k
    BY <1>1, <1>3, <2>1
  <2> QED
    BY <2>2 DEF Lists
<1>4. ASSUME NEW x \in Source, NEW k \in Key, HasOpenCandidate(x, k) PROVE Lists(x, k)' \/ HasOpenCandidate(x, k)'
  <2>1. PICK r \in RowId : r.source = x /\ r.key = k /\ candidate[r] \in Holding
    BY <1>4 DEF HasOpenCandidate
  <2>2. CASE x = s /\ k \in Added(s, q)
    <3>1. k \in Changed(s, q) /\ ~Lists(s, k)
      BY <2>2 DEF Added
    <3>2. file[k] # NULL
      BY <3>1 DEF Changed, Unchanged
    <3> QED
      BY <1>3, <2>2, <3>1, <3>2
  <2>3. CASE ~(x = s /\ k \in Added(s, q))
    <3>1. candidate'[r] \in Holding
      BY <1>2, <2>1, <2>3 DEF Holding
    <3> QED
      BY <2>1, <3>1 DEF HasOpenCandidate
  <2> QED
    BY <2>2, <2>3
<1>5. ASSUME NEW x \in Source, NEW k \in Key, Lists(x, k), ~HasOpenCandidate(x, k)
      PROVE  Lists(x, k)' \/ HasOpenCandidate(x, k)'
  <2>1. PICK r \in RowId : r.source = x /\ r.key = k /\ Open(r)
    BY <1>5 DEF Lists
  <2>2. CASE x = s /\ k \in Changed(s, q) /\ file[k] = NULL
    <3>1. candidate'[r] = "PENDING"
      BY <1>2, <1>5, <2>1, <2>2 DEF Removed
    <3> QED
      BY <2>1, <3>1 DEF HasOpenCandidate, Holding
  <2>3. CASE x = s /\ k \in Changed(s, q) /\ file[k] # NULL
    BY <1>3, <2>3
  <2>4. CASE ~(x = s /\ k \in Changed(s, q))
    <3>1. Open(r)'
      BY <1>1, <2>1, <2>4 DEF Open
    <3> QED
      BY <2>1, <3>1 DEF Lists
  <2> QED
    BY <2>2, <2>3, <2>4
<1>6. ASSUME NEW p \in Party, Lists(p[1], p[2]) \/ HasOpenCandidate(p[1], p[2])
      PROVE  Lists(p[1], p[2])' \/ HasOpenCandidate(p[1], p[2])'
  <2>1. p[1] \in Source /\ p[2] \in Key
    BY DEF Party
  <2>2. PICK x \in Source, k \in Key : x = p[1] /\ k = p[2]
    BY <2>1
  <2>3. Lists(x, k)' \/ HasOpenCandidate(x, k)'
    BY <1>4, <1>5, <1>6, <2>2
  <2> QED
    BY <2>2, <2>3
<1> QED
  BY <1>6 DEF Blocked

\* The promise, step by step.
LEMMA ViewStep ==
  ASSUME PublishInv, ReviewInv, [PublishNext]_pvars
  PROVE  [\/ \E parties \in SUBSET Party : View!List(parties)
          \/ \E p \in Party : View!FileRemoval(p) \/ View!Decide(p)]_<<Blocked, Review>>
<1> DEFINE Goal == [\/ \E parties \in SUBSET Party : View!List(parties)
                    \/ \E p \in Party : View!FileRemoval(p) \/ View!Decide(p)]_<<Blocked, Review>>
<1>0. /\ PublishTypeOK /\ VersionInv /\ RowInv /\ TxnInv /\ proposal \subseteq RowId
      /\ candidate \in [RowId -> CandidateStatus]
      /\ \A r \in RowId : r.source \in Source /\ r.key \in Key
  BY PublishTypes DEF PublishInv, PublishTypeOK
<1>1. ASSUME UNCHANGED <<row, candidate, proposal>> PROVE Goal
  <2>1. Blocked' = Blocked
    BY <1>1, BlockedStays
  <2>2. Review' = Review
    BY <1>1 DEF Review
  <2> QED
    BY <2>1, <2>2
<1>2. ASSUME NEW p \in Party, p \in Review, Review' \in {Review, Review \ {p}}, Blocked' \in {Blocked, Blocked \ {p}}
      PROVE  Goal
  <2>1. View!Decide(p)
    BY <1>2 DEF View!Decide, Blocked, Review, Party
  <2> QED
    BY <2>1
<1>3. ASSUME NEW r \in RowId, r \in proposal, proposal' = proposal \ {r}
      PROVE  /\ <<r.source, r.key>> \in Party /\ <<r.source, r.key>> \in Review
             /\ Review' \in {Review, Review \ {<<r.source, r.key>>}}
  <2>1. <<r.source, r.key>> \in Party
    BY <1>0 DEF Party
  <2>2. Review' = {<<x.source, x.key>> : x \in proposal \ {r}}
    BY <1>3 DEF Review
  <2> QED
    BY <1>3, <2>1, <2>2 DEF Review
<1>4. ASSUME NEW t \in Session, CommitPublish(t) PROVE Goal
  <2>1. Entitled(txn[t]) /\ txn[t].kind = "PUBLISH" /\ UNCHANGED proposal
    BY <1>0, <1>4 DEF CommitPublish, TxnInv
  <2>2. PICK s \in Source, q \in DOMAIN version[txn[t].source] \cap Seq1 : s = txn[t].source /\ q = txn[t].seq
    BY <2>1 DEF Entitled
  <2>3. /\ version[s][q].status \in {"VALIDATED", "HELD"} /\ NothingNewer(s, q)
        /\ row' = RowsAfter(s, q) /\ candidate' = CandidatesAfter(s, q)
    BY <1>4, <2>1, <2>2 DEF CommitPublish, Entitled
  <2>4. Blocked \subseteq Blocked'
    BY <1>0, <2>2, <2>3, PublishBlocks
  <2>5. Blocked' \in SUBSET Party /\ Review' = Review
    BY <2>1 DEF Blocked, Review
  <2>6. View!List(Blocked')
    BY <2>4, <2>5 DEF View!List, Blocked, Review, Party
  <2> QED
    BY <2>5, <2>6
<1>5. ASSUME NEW t \in Session, CommitResolve(t) PROVE Goal
  <2>1. Entitled(txn[t]) /\ txn[t].kind = "RESOLVE" /\ UNCHANGED row /\ txn[t].row \in proposal
    BY <1>0, <1>5 DEF CommitResolve, TxnInv, ReviewInv
  <2>2. PICK r \in RowId : r = txn[t].row
    BY <2>1 DEF Entitled
  <2>3. /\ proposal' = proposal \ {r}
        /\ candidate' = [candidate EXCEPT ![r] = IF candidate[r] \in Holding THEN "RELEASED" ELSE candidate[r]]
    BY <1>5, <2>2 DEF CommitResolve
  <2>4. PICK p \in Party : p = <<r.source, r.key>>
    BY <1>0 DEF Party
  <2>5. \A x \in RowId \ {r} : candidate'[x] = candidate[x]
    BY <1>0, <2>3
  <2>6. candidate'[r] \in Holding => candidate[r] \in Holding
    BY <1>0, <2>3 DEF Holding
  <2>7. ASSUME NEW y \in Source, NEW k \in Key
        PROVE  /\ Lists(y, k)' <=> Lists(y, k)
               /\ HasOpenCandidate(y, k)' => HasOpenCandidate(y, k)
               /\ HasOpenCandidate(y, k) => HasOpenCandidate(y, k)' \/ (y = r.source /\ k = r.key)
    BY <2>1, <2>5, <2>6 DEF Lists, Open, HasOpenCandidate
  <2>8. \A z \in Party : /\ z \in Blocked' => z \in Blocked
                         /\ z \in Blocked => z \in Blocked' \/ z = p
    <3> SUFFICES ASSUME NEW y \in Source, NEW k \in Key
                 PROVE  /\ <<y, k>> \in Blocked' => <<y, k>> \in Blocked
                        /\ <<y, k>> \in Blocked => <<y, k>> \in Blocked' \/ <<y, k>> = p
      BY DEF Party
    <3>1. /\ <<y, k>> \in Blocked <=> Lists(y, k) \/ HasOpenCandidate(y, k)
          /\ <<y, k>> \in Blocked' <=> Lists(y, k)' \/ HasOpenCandidate(y, k)'
      BY DEF Blocked, Party
    <3> QED
      BY <2>4, <2>7, <3>1
  <2>9. Blocked \subseteq Party /\ Blocked' \subseteq Party
    BY DEF Blocked
  <2>10. Blocked' \in {Blocked, Blocked \ {p}}
    BY <2>8, <2>9
  <2> QED
    BY <1>2, <1>3, <2>1, <2>2, <2>3, <2>4, <2>10
<1>6. ASSUME NEW r \in RowId, NEW evidence \in BOOLEAN, Assess(r, evidence) PROVE Goal
  <2>1. /\ UNCHANGED row /\ candidate[r] \in Holding /\ proposal' = proposal \cup {r}
        /\ \A x \in RowId : candidate'[x] \in Holding <=> candidate[x] \in Holding
    BY <1>0, <1>6 DEF Assess, Holding
  <2>2. PICK p \in Party : p = <<r.source, r.key>>
    BY <1>0 DEF Party
  <2>3. Blocked' = Blocked
    BY <2>1, BlockedStays
  <2>4. p \in Blocked
    BY <2>1, <2>2 DEF Blocked, HasOpenCandidate
  <2>5. Review' = Review \cup {p}
    BY <2>1, <2>2 DEF Review
  <2>6. View!FileRemoval(p)
    BY <2>3, <2>4, <2>5 DEF View!FileRemoval, Blocked, Review, Party
  <2> QED
    BY <2>6
<1>7. ASSUME NEW r \in RowId, BlameParser(r) \/ RejectRemoval(r) PROVE Goal
  <2>1. /\ UNCHANGED row /\ r \in proposal /\ proposal' = proposal \ {r}
        /\ \A x \in RowId : candidate'[x] \in Holding <=> candidate[x] \in Holding
    BY <1>0, <1>7 DEF BlameParser, RejectRemoval, Holding
  <2>2. Blocked' = Blocked
    BY <2>1, BlockedStays
  <2> QED
    BY <1>2, <1>3, <2>1, <2>2
<1>8. ASSUME NEW t \in Session,
             \/ \E s \in Source, q \in Seq1 : BeginPublish(t, s, q)
             \/ \E r \in RowId : BeginResolve(t, r)
             \/ InsertSnapshot(t) \/ PinVersions(t) \/ Rollback(t)
      PROVE  Goal
  BY <1>1, <1>8 DEF BeginPublish, BeginResolve, Begin, InsertSnapshot, PinVersions, Rollback
<1>9. ASSUME UNCHANGED pvars PROVE Goal
  BY <1>1, <1>9 DEF pvars
<1>10. ASSUME NEW s \in Source, NEW q \in Seq1, Drop(s, q) \/ ReleaseEnds(s, q) PROVE Goal
  BY <1>1, <1>10 DEF Drop, ReleaseEnds
<1>11. ASSUME NEW s \in Source, NEW q \in Seq1, NEW approve \in BOOLEAN, DecideRelease(s, q, approve) PROVE Goal
  BY <1>1, <1>11 DEF DecideRelease
<1>12. ASSUME NEW s \in Source, NEW file \in File, NEW held \in BOOLEAN, Stage(s, file, held) PROVE Goal
  BY <1>1, <1>12 DEF Stage
<1> HIDE DEF Goal
<1>13. ASSUME PublishNext PROVE Goal
  BY <1>4, <1>5, <1>6, <1>7, <1>8, <1>10, <1>11, <1>12, <1>13 DEF PublishNext
<1>14. Goal
  BY <1>9, <1>13
<1> QED
  BY <1>14 DEF Goal

\* pipeline/removals.py: "It keeps blocking until a human confirms it."  Publishing implements the
\* promise to screening: whatever is published, released, assessed and decided in whatever order, a
\* party stops blocking only in the transaction of a decision on a removal that was filed for review.
THEOREM BlocksUntilDecided == PublishSpec => BlocksUntilReviewed
<1>1. PublishInit => View!Init
  BY DEF PublishInit, View!Init, Lists, Open, HasOpenCandidate, Holding
<1>2. PublishInit => ReviewInv
  BY DEF PublishInit, ReviewInv, Idle
<1>3. PublishInv /\ ReviewInv /\ [PublishNext]_pvars => ReviewInv'
  BY ReviewIsLocked
<1>4. PublishInv /\ ReviewInv /\ [PublishNext]_pvars =>
        [View!Next]_<<{p \in Source \X Key : Lists(p[1], p[2]) \/ HasOpenCandidate(p[1], p[2])},
                      {<<r.source, r.key>> : r \in proposal}>>
  BY ViewStep DEF View!Next, Blocked, Review, Party
<1> QED
  BY <1>1, <1>2, <1>3, <1>4, PublishHolds, PTL DEF PublishSpec, BlocksUntilReviewed, View!Spec

-----------------------------------------------------------------------------
(* The supervisor: theorems about the module Supervisor, which shares no   *)
(* name with Publish, for any limits of the agent                          *)

\* The incident CORE_SOURCE_DISABLED is unresolved only while the core list is off.
CoreReportIsTrue == incident["CORE_SOURCE_DISABLED"].status # "NONE" => source.status = "OFF"

\* A pause is a list that is off.
PausedIsOff == source.pause # "NONE" => source.status = "OFF"

\* The inductive invariant.
SupervisorInv == SupervisorTypeOK /\ CoreOffIsReported /\ CoreReportIsTrue /\ PausedIsOff

\* The types, in the form the proofs use them.
LEMMA SupervisorTypes ==
  ASSUME SupervisorTypeOK
  PROVE  /\ incident \in [Kind -> Incident] /\ \A k \in Kind : incident[k] \in Incident
         /\ source \in SourceRow /\ source.status \in {"ACTIVE", "OFF"}
         /\ source.pause \in {"NONE", "AHEAD", "PASSED"} /\ source.stale \in {"FRESH", "WARN", "HARD"}
         /\ source.wait \in BOOLEAN
         /\ NoIncident \in Incident /\ NoIncident.status = "NONE"
         /\ Acknowledged \in Incident /\ Acknowledged.status = "ACK"
         /\ "STALE" \in Kind /\ "CORE_SOURCE_DISABLED" \in Kind
BY DEF SupervisorTypeOK, SourceRow, Incident, NoIncident, Acknowledged, Kind

\* open_incident leaves the other incidents alone, and the one it is asked for is unresolved.
LEMMA Opening ==
  ASSUME SupervisorTypeOK, NEW k \in Kind, NEW page \in BOOLEAN
  PROVE  /\ Opened(incident, k, page) \in [Kind -> Incident]
         /\ Opened(incident, k, page)[k].status # "NONE"
         /\ \A l \in Kind \ {k} : Opened(incident, k, page)[l] = incident[l]
<1>1. PICK i \in Incident : i = incident[k]
  BY SupervisorTypes
<1>2. i.status \in {"NONE", "OPEN", "ACK"} /\ i.page \in BOOLEAN /\ i.alert \in {"NEVER", "RECENT", "LONG_AGO"}
  BY DEF Incident
<1>3. CASE i.status = "NONE"
  <2>1. PICK new : new = [status |-> "OPEN", page |-> page, alert |-> "NEVER"]
    OBVIOUS
  <2>2. new \in Incident /\ new.status # "NONE"
    BY <2>1 DEF Incident
  <2>3. Opened(incident, k, page) = [incident EXCEPT ![k] = new]
    BY <1>1, <1>3, <2>1 DEF Opened
  <2> QED
    BY <2>2, <2>3, SupervisorTypes
<1>4. CASE i.status = "OPEN"
  <2>1. PICK new : new = [i EXCEPT !.page = i.page \/ page]
    OBVIOUS
  <2>2. new \in Incident /\ new.status # "NONE"
    BY <1>2, <1>4, <2>1 DEF Incident
  <2>3. Opened(incident, k, page) = [incident EXCEPT ![k] = new]
    BY <1>1, <1>4, <2>1, SupervisorTypes DEF Opened
  <2> QED
    BY <2>2, <2>3, SupervisorTypes
<1>5. CASE i.status = "ACK"
  <2>1. Opened(incident, k, page) = incident
    BY <1>1, <1>5 DEF Opened
  <2> QED
    BY <1>1, <1>5, <2>1, SupervisorTypes
<1> QED
  BY <1>2, <1>3, <1>4, <1>5

\* resolve leaves the other incidents alone.
LEMMA Resolving ==
  ASSUME SupervisorTypeOK, NEW kinds
  PROVE  /\ Resolved(incident, kinds) \in [Kind -> Incident]
         /\ \A k \in Kind : Resolved(incident, kinds)[k] = IF k \in kinds THEN NoIncident ELSE incident[k]
BY SupervisorTypes DEF Resolved

\* Of the invariant, what only an incident or the list can disturb.
Reported == CoreOffIsReported /\ CoreReportIsTrue /\ PausedIsOff

\* A step that leaves the status and the pause of the list alone, and the incident about it open if it
\* is and absent if it is, keeps the report what it was.
LEMMA ReportStays ==
  ASSUME SupervisorInv, source'.status = source.status, source'.pause = source.pause,
         incident'["CORE_SOURCE_DISABLED"].status = "NONE" <=> incident["CORE_SOURCE_DISABLED"].status = "NONE",
         dismissed' = dismissed
  PROVE  Reported'
BY DEF SupervisorInv, Reported, CoreOffIsReported, CoreReportIsTrue, PausedIsOff

\* Whoever resolves an incident, that of the list is still there or it is noted that it was dismissed.
LEMMA Dismissing ==
  ASSUME SupervisorInv, NEW k \in Kind, incident' = Resolved(incident, {k}),
         dismissed' = DismissedAfter(k), source' = source
  PROVE  incident' \in [Kind -> Incident] /\ dismissed' \in BOOLEAN /\ Reported'
<1>0. SupervisorTypeOK /\ dismissed \in BOOLEAN /\ CoreOffIsReported /\ CoreReportIsTrue /\ PausedIsOff
  BY DEF SupervisorInv, SupervisorTypeOK
<1>1. dismissed' \in BOOLEAN
  BY <1>0 DEF DismissedAfter
<1>2. incident' \in [Kind -> Incident] /\ \A l \in Kind : incident'[l] = IF l = k THEN NoIncident ELSE incident[l]
  BY <1>0, Resolving
<1>3. "CORE_SOURCE_DISABLED" \in Kind /\ NoIncident.status = "NONE"
  BY <1>0, SupervisorTypes
<1>4. CASE k = "CORE_SOURCE_DISABLED"
  <2>1. incident'["CORE_SOURCE_DISABLED"].status = "NONE"
    BY <1>2, <1>3, <1>4
  <2>2. dismissed' = TRUE
    BY <1>4 DEF DismissedAfter
  <2> QED
    BY <1>0, <1>1, <1>2, <2>1, <2>2 DEF Reported, CoreOffIsReported, CoreReportIsTrue, PausedIsOff
<1>5. CASE k # "CORE_SOURCE_DISABLED"
  <2>1. incident'["CORE_SOURCE_DISABLED"] = incident["CORE_SOURCE_DISABLED"]
    BY <1>2, <1>3, <1>5
  <2>2. dismissed' = dismissed
    BY <1>0, <1>5 DEF DismissedAfter
  <2>3. Reported'
    BY <2>1, <2>2, ReportStays
  <2> QED
    BY <1>1, <1>2, <2>3
<1> QED
  BY <1>4, <1>5

\* The steps of the tick, and its failure.
LEMMA TickKeeps == ASSUME SupervisorInv, TickStep \/ TickFails PROVE SupervisorInv'
<1>0. /\ SupervisorTypeOK
      /\ pc \in Steps \cup {"IDLE", "AGENT"}
      /\ left \in [enqueue : 0..MaxEnqueues, incident : 0..MaxIncidentWrites]
      /\ incident \in [Kind -> Incident] /\ source \in SourceRow /\ run \in {"NONE", "QUEUED", "RUNNING"}
      /\ maintenance \in BOOLEAN /\ dismissed \in BOOLEAN
      /\ "STALE" \in Kind /\ "CORE_SOURCE_DISABLED" \in Kind
  BY DEF SupervisorInv, SupervisorTypeOK, Kind
<1>1. /\ NothingLeft \in [enqueue : 0..MaxEnqueues, incident : 0..MaxIncidentWrites]
      /\ [enqueue |-> MaxEnqueues, incident |-> MaxIncidentWrites]
           \in [enqueue : 0..MaxEnqueues, incident : 0..MaxIncidentWrites]
  BY LimitAssumption DEF NothingLeft
<1>2. CASE GateStep \/ TickFails
  <2>1. /\ pc' \in Steps \cup {"IDLE", "AGENT"} /\ left' \in [enqueue : 0..MaxEnqueues, incident : 0..MaxIncidentWrites]
        /\ UNCHANGED <<incident, source, run, maintenance, dismissed>>
    BY <1>1, <1>2 DEF GateStep, TickFails, Goes, Steps
  <2>2. SupervisorTypeOK' /\ Reported'
    BY <1>0, <2>1, ReportStays DEF SupervisorTypeOK
  <2> QED
    BY <2>2 DEF SupervisorInv, Reported
<1>3. CASE ChoresStep
  <2>1. pc' \in Steps /\ UNCHANGED <<left, run, maintenance, dismissed>>
    BY <1>3 DEF ChoresStep, Goes, Steps
  <2>2. CASE source.pause = "PASSED"
    <3>1. /\ source' = [source EXCEPT !.status = "ACTIVE", !.pause = "NONE"]
          /\ incident' = Resolved(incident, {"CORE_SOURCE_DISABLED"})
      BY <1>3, <2>2 DEF ChoresStep
    <3>2. source' \in SourceRow /\ source'.status = "ACTIVE" /\ source'.pause = "NONE"
      BY <1>0, <3>1 DEF SourceRow
    <3>3. incident' \in [Kind -> Incident] /\ incident'["CORE_SOURCE_DISABLED"].status = "NONE"
      BY <1>0, <3>1, Resolving, SupervisorTypes
    <3>4. SupervisorTypeOK'
      BY <1>0, <2>1, <3>2, <3>3 DEF SupervisorTypeOK
    <3> QED
      BY <3>2, <3>3, <3>4 DEF SupervisorInv, CoreOffIsReported, CoreReportIsTrue, PausedIsOff
  <2>3. CASE source.pause # "PASSED"
    <3>1. UNCHANGED <<source, incident>>
      BY <1>3, <2>3 DEF ChoresStep
    <3>2. SupervisorTypeOK' /\ Reported'
      BY <1>0, <2>1, <3>1, ReportStays DEF SupervisorTypeOK
    <3> QED
      BY <3>2 DEF SupervisorInv, Reported
  <2> QED
    BY <2>2, <2>3
<1>4. CASE WatchdogStep
  <2>1. /\ pc' \in Steps /\ UNCHANGED <<left, source, maintenance, dismissed>>
        /\ \/ incident' = incident \/ incident' = Resolved(incident, {"STALE"})
           \/ \E page \in BOOLEAN : incident' = Opened(incident, "STALE", page)
        /\ run' \in {run, "QUEUED"}
    BY <1>4 DEF WatchdogStep, Goes, Steps
  <2>2. incident' \in [Kind -> Incident] /\ incident'["CORE_SOURCE_DISABLED"] = incident["CORE_SOURCE_DISABLED"]
    BY <1>0, <2>1, Opening, Resolving
  <2>3. SupervisorTypeOK' /\ Reported'
    BY <1>0, <2>1, <2>2, ReportStays DEF SupervisorTypeOK
  <2> QED
    BY <2>3 DEF SupervisorInv, Reported
<1>5. CASE PlanStep \/ PollStep
  <2>1. /\ pc' \in Steps \cup {"IDLE"} /\ run' \in {"NONE", "QUEUED", "RUNNING"}
        /\ UNCHANGED <<left, incident, source, maintenance, dismissed>>
    BY <1>0, <1>5 DEF PlanStep, PollStep, Goes, Steps
  <2>2. SupervisorTypeOK' /\ Reported'
    BY <1>0, <2>1, ReportStays DEF SupervisorTypeOK
  <2> QED
    BY <2>2 DEF SupervisorInv, Reported
<1>6. CASE AlertsStep
  <2>1. /\ pc' \in Steps \cup {"IDLE"} /\ UNCHANGED <<left, source, run, maintenance, dismissed>>
        /\ incident' = [k \in Kind |-> IF Owed(k) THEN [incident[k] EXCEPT !.alert = "RECENT"] ELSE incident[k]]
    BY <1>6 DEF AlertsStep, Goes
  <2>2. ASSUME NEW k \in Kind PROVE incident'[k] \in Incident /\ incident'[k].status = incident[k].status
    <3>1. PICK i \in Incident : i = incident[k]
      BY <1>0
    <3>2. [i EXCEPT !.alert = "RECENT"] \in Incident /\ [i EXCEPT !.alert = "RECENT"].status = i.status
      BY DEF Incident
    <3>3. incident'[k] = [i EXCEPT !.alert = "RECENT"] \/ incident'[k] = i
      BY <2>1, <3>1
    <3> QED
      BY <3>1, <3>2, <3>3
  <2>3. incident' \in [Kind -> Incident]
    BY <2>1, <2>2
  <2>4. SupervisorTypeOK' /\ Reported'
    BY <1>0, <2>1, <2>2, <2>3, ReportStays DEF SupervisorTypeOK
  <2> QED
    BY <2>4 DEF SupervisorInv, Reported
<1> QED
  BY <1>2, <1>3, <1>4, <1>5, <1>6 DEF TickStep

\* What the agent does in its cycle.
LEMMA AgentKeeps == ASSUME SupervisorInv, AgentStep PROVE SupervisorInv'
<1>0. /\ SupervisorTypeOK
      /\ pc \in Steps \cup {"IDLE", "AGENT"}
      /\ left \in [enqueue : 0..MaxEnqueues, incident : 0..MaxIncidentWrites]
      /\ incident \in [Kind -> Incident] /\ source \in SourceRow /\ run \in {"NONE", "QUEUED", "RUNNING"}
      /\ maintenance \in BOOLEAN /\ dismissed \in BOOLEAN /\ "CORE_SOURCE_DISABLED" \in Kind
      /\ CoreOffIsReported /\ CoreReportIsTrue /\ PausedIsOff
  BY DEF SupervisorInv, SupervisorTypeOK, Kind
<1>1. /\ Takes("enqueue") => left' \in [enqueue : 0..MaxEnqueues, incident : 0..MaxIncidentWrites]
      /\ Takes("incident") => left' \in [enqueue : 0..MaxEnqueues, incident : 0..MaxIncidentWrites]
  BY <1>0, LimitAssumption DEF Takes
<1>2. CASE AgentEnqueues
  <2>1. /\ left' \in [enqueue : 0..MaxEnqueues, incident : 0..MaxIncidentWrites]
        /\ run' \in {"NONE", "QUEUED", "RUNNING"} /\ UNCHANGED <<pc, incident, source, maintenance, dismissed>>
    BY <1>0, <1>1, <1>2 DEF AgentEnqueues
  <2>2. SupervisorTypeOK' /\ Reported'
    BY <1>0, <2>1, ReportStays DEF SupervisorTypeOK
  <2> QED
    BY <2>2 DEF SupervisorInv, Reported
<1>3. CASE AgentDiagnoses
  <2>1. PICK k \in Kind \ {"CORE_SOURCE_DISABLED"}, page \in BOOLEAN : incident' = [incident EXCEPT ![k].page = page]
    BY <1>3 DEF AgentDiagnoses
  <2>2. /\ left' \in [enqueue : 0..MaxEnqueues, incident : 0..MaxIncidentWrites]
        /\ UNCHANGED <<pc, source, run, maintenance, dismissed>>
    BY <1>1, <1>3 DEF AgentDiagnoses
  <2>3. PICK i \in Incident : i = incident[k]
    BY <1>0
  <2>4. PICK new : new = [i EXCEPT !.page = page]
    OBVIOUS
  <2>5. new \in Incident
    BY <2>4 DEF Incident
  <2>6. incident' = [incident EXCEPT ![k] = new]
    BY <1>0, <2>1, <2>3, <2>4
  <2>7. incident' \in [Kind -> Incident] /\ incident'["CORE_SOURCE_DISABLED"] = incident["CORE_SOURCE_DISABLED"]
    BY <1>0, <2>5, <2>6
  <2>8. SupervisorTypeOK' /\ Reported'
    BY <1>0, <2>2, <2>7, ReportStays DEF SupervisorTypeOK
  <2> QED
    BY <2>8 DEF SupervisorInv, Reported
<1>4. CASE AgentResolves
  <2>1. PICK k \in Kind : incident' = Resolved(incident, {k}) /\ dismissed' = DismissedAfter(k)
    BY <1>4 DEF AgentResolves
  <2>2. /\ left' \in [enqueue : 0..MaxEnqueues, incident : 0..MaxIncidentWrites]
        /\ UNCHANGED <<pc, source, run, maintenance>>
    BY <1>1, <1>4 DEF AgentResolves
  <2>3. incident' \in [Kind -> Incident] /\ dismissed' \in BOOLEAN /\ Reported'
    BY <2>1, <2>2, Dismissing
  <2>4. SupervisorTypeOK'
    BY <1>0, <2>2, <2>3 DEF SupervisorTypeOK
  <2> QED
    BY <2>3, <2>4 DEF SupervisorInv, Reported
<1>5. CASE AgentEnds
  <2>1. /\ pc' \in Steps /\ left' = NothingLeft /\ UNCHANGED <<incident, source, run, maintenance, dismissed>>
    BY <1>5 DEF AgentEnds, AgentOutcome, Steps
  <2>2. left' \in [enqueue : 0..MaxEnqueues, incident : 0..MaxIncidentWrites]
    BY <2>1, LimitAssumption DEF NothingLeft
  <2>3. SupervisorTypeOK' /\ Reported'
    BY <1>0, <2>1, <2>2, ReportStays DEF SupervisorTypeOK
  <2> QED
    BY <2>3 DEF SupervisorInv, Reported
<1> QED
  BY <1>2, <1>3, <1>4, <1>5 DEF AgentStep

\* Runs that end.
LEMMA RunsKeep == ASSUME SupervisorInv, RunStep PROVE SupervisorInv'
<1>0. /\ SupervisorTypeOK /\ incident \in [Kind -> Incident] /\ source \in SourceRow
      /\ run \in {"NONE", "QUEUED", "RUNNING"} /\ "CORE_SOURCE_DISABLED" \in Kind
  BY DEF SupervisorInv, SupervisorTypeOK, Kind
<1>1. run' = "NONE" /\ UNCHANGED <<pc, left, maintenance, dismissed>>
  BY DEF RunStep, RunEndsWell, RunEndsOtherwise
<1>2. incident' = Resolved(incident, {}) \/ incident' = incident
  BY DEF RunStep, RunEndsWell, RunEndsOtherwise, Settled
<1>3. incident' \in [Kind -> Incident] /\ \A k \in Kind : incident'[k] = incident[k]
  BY <1>0, <1>2, Resolving
<1>4. /\ source' \in SourceRow /\ source'.status = source.status /\ source'.pause = source.pause
  BY <1>0 DEF RunStep, RunEndsWell, RunEndsOtherwise, SourceRow
<1>5. SupervisorTypeOK' /\ Reported'
  BY <1>0, <1>1, <1>3, <1>4, ReportStays DEF SupervisorTypeOK
<1> QED
  BY <1>5 DEF SupervisorInv, Reported

\* What users do to the list and to its incidents.
LEMMA UsersKeep ==
  ASSUME SupervisorInv,
         \/ \E status \in {"ACTIVE", "OFF"} : SetStatus(status)
         \/ \E k \in Kind : Ack(k) \/ ResolveByHand(k)
  PROVE  SupervisorInv'
<1>0. /\ SupervisorTypeOK /\ incident \in [Kind -> Incident] /\ source \in SourceRow
      /\ dismissed \in BOOLEAN /\ "CORE_SOURCE_DISABLED" \in Kind
      /\ CoreOffIsReported /\ CoreReportIsTrue /\ PausedIsOff
  BY DEF SupervisorInv, SupervisorTypeOK, Kind
<1>1. ASSUME NEW status \in {"ACTIVE", "OFF"}, SetStatus(status) PROVE SupervisorInv'
  <2>1. /\ incident' = ReportsOff(status) /\ dismissed' = FALSE /\ UNCHANGED <<pc, left, run, maintenance>>
        /\ source' \in SourceRow /\ source'.status = status /\ (status = "ACTIVE" => source'.pause = "NONE")
    BY <1>0, <1>1 DEF SetStatus, SourceRow
  <2>2. /\ incident' \in [Kind -> Incident]
        /\ incident'["CORE_SOURCE_DISABLED"].status = "NONE" <=> status = "ACTIVE"
    BY <1>0, <2>1, Opening, Resolving, SupervisorTypes DEF ReportsOff
  <2>3. SupervisorTypeOK'
    BY <1>0, <2>1, <2>2 DEF SupervisorTypeOK
  <2> QED
    BY <1>1, <2>1, <2>2, <2>3 DEF SupervisorInv, CoreOffIsReported, CoreReportIsTrue, PausedIsOff
<1>2. ASSUME NEW k \in Kind, Ack(k) PROVE SupervisorInv'
  <2>1. /\ incident[k].status = "OPEN" /\ incident' = [incident EXCEPT ![k] = Acknowledged]
        /\ UNCHANGED <<pc, left, source, run, maintenance, dismissed>>
    BY <1>2 DEF Ack
  <2>2. /\ incident' \in [Kind -> Incident] /\ incident'[k].status = "ACK"
        /\ \A l \in Kind \ {k} : incident'[l] = incident[l]
    BY <1>0, <2>1, SupervisorTypes
  <2>3. SupervisorTypeOK' /\ Reported'
    BY <1>0, <2>1, <2>2, ReportStays DEF SupervisorTypeOK
  <2> QED
    BY <2>3 DEF SupervisorInv, Reported
<1>3. ASSUME NEW k \in Kind, ResolveByHand(k) PROVE SupervisorInv'
  <2>1. /\ incident' = Resolved(incident, {k}) /\ dismissed' = DismissedAfter(k)
        /\ UNCHANGED <<pc, left, source, run, maintenance>>
    BY <1>3 DEF ResolveByHand
  <2>2. incident' \in [Kind -> Incident] /\ dismissed' \in BOOLEAN /\ Reported'
    BY <2>1, Dismissing
  <2>3. SupervisorTypeOK'
    BY <1>0, <2>1, <2>2 DEF SupervisorTypeOK
  <2> QED
    BY <2>2, <2>3 DEF SupervisorInv, Reported
<1> QED
  BY <1>1, <1>2, <1>3

\* Maintenance, and time.
LEMMA TimeKeeps ==
  ASSUME SupervisorInv, SetMaintenance \/ TimePasses \/ WaitEnds \/ \E k \in Kind : AlertAges(k)
  PROVE  SupervisorInv'
<1>0. /\ SupervisorTypeOK /\ incident \in [Kind -> Incident] /\ source \in SourceRow
      /\ maintenance \in BOOLEAN /\ "CORE_SOURCE_DISABLED" \in Kind
      /\ CoreOffIsReported /\ CoreReportIsTrue /\ PausedIsOff
  BY DEF SupervisorInv, SupervisorTypeOK, Kind
<1>1. CASE SetMaintenance \/ TimePasses \/ WaitEnds
  <2>1. /\ UNCHANGED <<pc, left, incident, run, dismissed>> /\ maintenance' \in BOOLEAN
        /\ source' \in SourceRow /\ source'.status = source.status
        /\ source'.pause # "NONE" <=> source.pause # "NONE"
    BY <1>0, <1>1 DEF SetMaintenance, TimePasses, WaitEnds, SourceRow
  <2>2. SupervisorTypeOK'
    BY <1>0, <2>1 DEF SupervisorTypeOK
  <2> QED
    BY <1>0, <2>1, <2>2 DEF SupervisorInv, CoreOffIsReported, CoreReportIsTrue, PausedIsOff
<1>2. ASSUME NEW k \in Kind, AlertAges(k) PROVE SupervisorInv'
  <2>1. /\ incident' = [incident EXCEPT ![k].alert = "LONG_AGO"]
        /\ UNCHANGED <<pc, left, source, run, maintenance, dismissed>>
    BY <1>2 DEF AlertAges
  <2>2. PICK i \in Incident : i = incident[k]
    BY <1>0
  <2>3. PICK new : new = [i EXCEPT !.alert = "LONG_AGO"]
    OBVIOUS
  <2>4. new \in Incident /\ new.status = i.status
    BY <2>3 DEF Incident
  <2>5. incident' = [incident EXCEPT ![k] = new]
    BY <1>0, <2>1, <2>2, <2>3
  <2>6. incident' \in [Kind -> Incident] /\ \A l \in Kind : incident'[l].status = incident[l].status
    BY <1>0, <2>2, <2>4, <2>5
  <2>7. SupervisorTypeOK' /\ Reported'
    BY <1>0, <2>1, <2>6, ReportStays DEF SupervisorTypeOK
  <2> QED
    BY <2>7 DEF SupervisorInv, Reported
<1> QED
  BY <1>1, <1>2

\* The supervisor's invariant holds for good.
LEMMA SupervisorHolds == Spec => []SupervisorInv
<1>1. Init => SupervisorInv
  <2> SUFFICES ASSUME Init PROVE SupervisorInv
    OBVIOUS
  <2>1. NothingLeft \in [enqueue : 0..MaxEnqueues, incident : 0..MaxIncidentWrites]
    BY LimitAssumption DEF NothingLeft
  <2>2. NoIncident \in Incident /\ source \in SourceRow
    BY DEF Init, NoIncident, Incident, SourceRow
  <2>3. incident \in [Kind -> Incident]
    BY <2>2 DEF Init
  <2>4. SupervisorTypeOK
    BY <2>1, <2>2, <2>3 DEF Init, SupervisorTypeOK
  <2> QED
    BY <2>4 DEF Init, SupervisorInv, CoreOffIsReported, CoreReportIsTrue, PausedIsOff, NoIncident, Kind
<1>2. SupervisorInv /\ [Next]_vars => SupervisorInv'
  <2> SUFFICES ASSUME SupervisorInv, [Next]_vars PROVE SupervisorInv'
    OBVIOUS
  <2>1. CASE UNCHANGED vars
    BY <2>1 DEF vars, SupervisorInv, SupervisorTypeOK, CoreOffIsReported, CoreReportIsTrue, PausedIsOff
  <2>2. CASE Next
    BY <2>2, TickKeeps, AgentKeeps, RunsKeep, UsersKeep, TimeKeeps DEF Next
  <2> QED
    BY <2>1, <2>2
<1> QED
  BY <1>1, <1>2, PTL DEF Spec

\* The rows the tick reads and writes have their types, and the agent never does more in a cycle than
\* its limits allow, however its calls interleave with users, runs and failures of the tick.
THEOREM SupervisorTypeCorrect == Spec => []SupervisorTypeOK
<1>1. SupervisorInv => SupervisorTypeOK
  BY DEF SupervisorInv
<1> QED
  BY <1>1, SupervisorHolds, PTL

\* set_status: a core list that is off stays reported until it is on again or somebody resolves the
\* report, whatever the tick, the agent, runs that end and other incidents do meanwhile.
THEOREM CoreOffStaysReported == Spec => []CoreOffIsReported
<1>1. SupervisorInv => CoreOffIsReported
  BY DEF SupervisorInv
<1> QED
  BY <1>1, SupervisorHolds, PTL

\* The other way round: no report of a core list that is off outlives it, neither when it is switched
\* on nor when the chores end a pause.
THEOREM CoreReportsAreTrue == Spec => []CoreReportIsTrue
<1>1. SupervisorInv => CoreReportIsTrue
  BY DEF SupervisorInv
<1> QED
  BY <1>1, SupervisorHolds, PTL
=============================================================================
