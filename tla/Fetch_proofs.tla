----------------------------- MODULE Fetch_proofs -----------------------------
(***************************************************************************)
(* Proofs about Fetch, for any files, hosts, threads and limits.  The pull *)
(* keeps its own books (attempts, rows of evidence, the cancel request)    *)
(* and never loses sight of the file it got; the blob store keeps whole    *)
(* what a row may name.                                                    *)
(***************************************************************************)
EXTENDS Fetch, TLAPS

Trying == {"CHECK", "REQUEST", "BODY", "FAILED"}

\* A pull in progress has begun an attempt, and another one only within the limit; a run that has
\* its file makes none.
AttemptsCounted ==
  IF pull.phase = "IDLE" THEN pull = NoPull
  ELSE /\ \/ pull.attempt \in 1..MaxAttempts
          \/ pull.phase = "PARSE" /\ pull.attempt = 0
       /\ pull.phase = "WAIT" => pull.attempt < MaxAttempts

\* Every attempt that ended left a row of evidence.
EveryAttemptLeavesARow ==
  pull.phase # "IDLE" => pull.rows = IF pull.phase \in Trying THEN pull.attempt - 1 ELSE pull.attempt

\* A pull that waits has begun nothing since it was cancelled.
WaitsOnlyOnce ==
  /\ pull.late <= 1
  /\ pull.late = 1 => pull.cancel /\ pull.phase # "WAIT"

\* The validators sent are those of the published file, which no other run can change meanwhile.
ValidatorsArePublished == pull.conditional \in {NULL, published}

\* The file of the pull is on record before it is archived and archived before it is parsed.
GotIsOnRecord ==
  /\ pull.phase = "BODY" => pull.got \in Bytes
  /\ pull.phase = "ARCHIVE" => /\ pull.got \in evidence
                               /\ put["pull"].step # "NONE" /\ put["pull"].file = pull.got
  /\ pull.phase = "PARSE" => pull.got \in artifact \cap (evidence \cup reparsed)

\* No name of the blob store holds a part of a file, and a put that is done finds the whole of its own.
StoreIsWhole ==
  /\ \A b \in Bytes : blob[b] # "PARTIAL"
  /\ \A t \in Thread : put[t].step # "NONE" => put[t].file \in Bytes
  /\ \A t \in Thread : put[t].step = "DONE" => blob[put[t].file] = "COMPLETE"

Books == pull \in Pull /\ AttemptsCounted /\ EveryAttemptLeavesARow /\ WaitsOnlyOnce

Inv == FetchTypeOK /\ Books /\ ValidatorsArePublished /\ GotIsOnRecord /\ StoreIsWhole /\ PublishedIsProven

-----------------------------------------------------------------------------
(* The books of the pull *)

\* The record between two pulls.
LEMMA NoPullType ==
  /\ NoPull \in Pull
  /\ NoPull.phase = "IDLE" /\ NoPull.conditional = NULL /\ NoPull.late = 0 /\ NoPull.cancel = FALSE
  BY FetchAssumption DEF NoPull, Pull

\* A pull that ends leaves the books as they were before it.
LEMMA EndsBooks ==
  ASSUME pull' = NoPull
  PROVE  Books'
  BY NoPullType DEF Books, AttemptsCounted, EveryAttemptLeavesARow, WaitsOnlyOnce

\* A run that has its file keeps no books.
LEMMA ParsingBooks ==
  ASSUME NEW b \in Bytes, pull' = Parsing(b)
  PROVE  Books' /\ pull'.phase = "PARSE" /\ pull'.got = b /\ pull'.conditional = NULL
<1>1. /\ pull' \in Pull /\ pull'.phase = "PARSE" /\ pull'.got = b /\ pull'.conditional = NULL
      /\ pull'.attempt = 0 /\ pull'.rows = 0 /\ pull'.late = 0
  BY NoPullType DEF Parsing, NoPull, Pull
<1> QED
  BY <1>1, FetchAssumption DEF Books, AttemptsCounted, EveryAttemptLeavesARow, WaitsOnlyOnce, Trying

\* A pull begins with one attempt and an empty record.
LEMMA StartBooks ==
  ASSUME FetchTypeOK, StartPull
  PROVE  Books'
<1>1. PICK host \in Host, validators \in Bytes \cup {NULL} :
        pull' = [NoPull EXCEPT !.phase = "CHECK", !.host = host, !.attempt = 1,
                               !.conditional = validators]
  BY DEF StartPull, Validators, FetchTypeOK
<1>2. pull' \in Pull
  <2>1. 1 \in 0..MaxAttempts
    BY FetchAssumption
  <2> QED
    BY <1>1, <2>1, NoPullType, ZenonT(60) DEF Pull
<1>3. pull'.phase = "CHECK" /\ pull'.attempt = 1 /\ pull'.rows = 0 /\ pull'.late = 0
  BY <1>1 DEF NoPull
<1> QED
  BY <1>2, <1>3, FetchAssumption DEF Books, AttemptsCounted, EveryAttemptLeavesARow, WaitsOnlyOnce, Trying

\* The books stay right while an attempt goes on, and when a cancel request comes.
LEMMA GoesOnBooks ==
  ASSUME Books, pull' \in Pull, pull.phase # "IDLE", pull'.phase # "IDLE",
         pull'.phase \in Trying <=> pull.phase \in Trying,
         pull'.phase = "WAIT" <=> pull.phase = "WAIT",
         pull.phase = "PARSE" => pull'.phase = "PARSE",
         pull'.attempt = pull.attempt, pull'.rows = pull.rows, pull'.late = pull.late,
         pull.cancel => pull'.cancel
  PROVE  Books'
  BY DEF Books, AttemptsCounted, EveryAttemptLeavesARow, WaitsOnlyOnce

\* The steps of an attempt only move it on.
LEMMA AttemptBooks ==
  ASSUME FetchTypeOK, Books, Check \/ Redirected \/ Answered \/ RequestFails
  PROVE  Books'
<1>1. ASSUME NEW e \in Retryable \cup Fatal, Fail(e), pull.phase \in {"CHECK", "REQUEST", "BODY"}
      PROVE  Books'
  <2> DEFINE retry == e \in Retryable
  <2>0. retry \in BOOLEAN
    OBVIOUS
  <2>2. pull' = [pull EXCEPT !.phase = "FAILED", !.host = NULL, !.got = NULL, !.retry = retry]
    BY <1>1 DEF Fail
  <2> HIDE DEF retry
  <2>1. /\ pull' \in Pull /\ pull'.phase = "FAILED" /\ pull'.attempt = pull.attempt
        /\ pull'.rows = pull.rows /\ pull'.late = pull.late /\ pull'.cancel = pull.cancel
    BY <2>0, <2>2 DEF Books, Pull
  <2> QED
    BY <1>1, <2>1, GoesOnBooks DEF Trying
<1>2. CASE Check
  <2>1. CASE Passes(pull.host)
    <3>1. /\ pull' \in Pull /\ pull'.phase = "REQUEST" /\ pull'.attempt = pull.attempt
          /\ pull'.rows = pull.rows /\ pull'.late = pull.late /\ pull'.cancel = pull.cancel
      BY <1>2, <2>1 DEF Check, Books, Pull
    <3> QED
      BY <1>2, <3>1, GoesOnBooks DEF Check, Trying
  <2>2. CASE ~Passes(pull.host)
    BY <1>1, <1>2, <2>2 DEF Check, Fatal
  <2> QED
    BY <2>1, <2>2
<1>3. CASE Redirected
  <2>1. CASE MayFollow
    <3>1. PICK host \in Host : pull' = [pull EXCEPT !.phase = "CHECK", !.host = host, !.hops = @ + 1]
      BY <1>3, <2>1 DEF Redirected
    <3>2. pull.hops + 1 \in 0..MaxRedirects
      BY <2>1, FetchAssumption DEF MayFollow, Books, Pull
    <3>3. /\ pull' \in Pull /\ pull'.phase = "CHECK" /\ pull'.attempt = pull.attempt
          /\ pull'.rows = pull.rows /\ pull'.late = pull.late /\ pull'.cancel = pull.cancel
      BY <3>1, <3>2 DEF Books, Pull
    <3> QED
      BY <1>3, <3>3, GoesOnBooks DEF Redirected, Trying
  <2>2. CASE ~MayFollow
    BY <1>1, <1>3, <2>2 DEF Redirected, Fatal
  <2> QED
    BY <2>1, <2>2
<1>4. CASE Answered
  <2>1. /\ pull' \in Pull /\ pull'.phase = "BODY" /\ pull'.attempt = pull.attempt
        /\ pull'.rows = pull.rows /\ pull'.late = pull.late /\ pull'.cancel = pull.cancel
    BY <1>4 DEF Answered, FetchTypeOK, Pull
  <2> QED
    BY <1>4, <2>1, GoesOnBooks DEF Answered, Trying
<1>5. CASE RequestFails
  BY <1>1, <1>5 DEF RequestFails, Retryable, Fatal
<1> QED
  BY <1>2, <1>3, <1>4, <1>5

\* What ends an attempt adds its row, and another one is begun only from a wait.
LEMMA EndOfAttemptBooks ==
  ASSUME FetchTypeOK, Books, NotModified \/ AttemptFailed \/ NextAttempt \/ AttemptSucceeded
  PROVE  Books'
<1>0. /\ pull.attempt \in Nat /\ pull.rows \in Nat /\ pull.late \in 0..1 /\ MaxAttempts \in Nat \ {0}
      /\ pull.cancel \in BOOLEAN /\ pull.attempt <= MaxAttempts
  BY FetchAssumption DEF Books, Pull, WaitsOnlyOnce
<1> USE DEF AttemptsCounted, EveryAttemptLeavesARow, WaitsOnlyOnce, Trying
<1>1. CASE NotModified \/ AttemptSucceeded \/ (AttemptFailed /\ AnotherAttempt /\ ~CancelSeen)
  <2>1. pull.phase \in Trying /\ pull.rows + 1 \in 0..MaxAttempts /\ pull.rows + 1 = pull.attempt
    BY <1>0, <1>1 DEF Books, NotModified, AttemptSucceeded, AttemptFailed
  <2>2. pull' \in Pull
    <3>1. CASE NotModified
      BY <2>1, <3>1 DEF Books, Pull, NotModified
    <3>2. CASE AttemptSucceeded
      BY <2>1, <3>2 DEF Books, Pull, AttemptSucceeded
    <3>3. CASE AttemptFailed /\ AnotherAttempt /\ ~CancelSeen
      <4>1. pull' = [pull EXCEPT !.phase = "WAIT", !.retry = FALSE, !.rows = @ + 1]
        BY <3>3 DEF AttemptFailed
      <4> QED
        BY <2>1, <4>1 DEF Books, Pull
    <3> QED
      BY <1>1, <3>1, <3>2, <3>3
  <2>3. pull'.attempt = pull.attempt /\ pull'.rows = pull.rows + 1 /\ pull'.late = pull.late
        /\ pull'.cancel = pull.cancel
    BY <1>1 DEF Books, Pull, NotModified, AttemptSucceeded, AttemptFailed
  <2>4. CASE NotModified \/ AttemptSucceeded
    <3>1. pull'.phase \in {"UNCHANGED", "ARCHIVE"}
      BY <2>4 DEF Books, Pull, NotModified, AttemptSucceeded
    <3> QED
      BY <2>1, <2>2, <2>3, <3>1 DEF Books
  <2>5. CASE AttemptFailed /\ AnotherAttempt /\ ~CancelSeen
    <3>1. pull'.phase = "WAIT" /\ ~pull.cancel /\ pull.attempt < MaxAttempts
      BY <2>5 DEF Books, Pull, AttemptFailed, AnotherAttempt, CancelSeen
    <3> QED
      BY <2>1, <2>2, <2>3, <3>1 DEF Books
  <2> QED
    BY <1>1, <2>4, <2>5
<1>2. CASE AttemptFailed /\ ~(AnotherAttempt /\ ~CancelSeen)
  BY <1>2, EndsBooks DEF AttemptFailed
<1>3. CASE NextAttempt
  <2>1. PICK host \in Host :
          pull' = [pull EXCEPT !.phase = "CHECK", !.host = host, !.hops = 0, !.attempt = @ + 1,
                               !.late = IF pull.cancel THEN @ + 1 ELSE @]
    BY <1>3 DEF NextAttempt
  <2>2. pull.phase = "WAIT"
    BY <1>3 DEF NextAttempt
  <2>3. /\ pull.late = 0 /\ pull.rows = pull.attempt /\ pull.attempt + 1 \in 0..MaxAttempts
        /\ pull.attempt + 1 \in 1..MaxAttempts
    BY <1>0, <2>2 DEF Books
  <2> DEFINE late == IF pull.cancel THEN pull.late + 1 ELSE pull.late
  <2>4. pull' \in Pull
    <3>1. late \in 0..MaxAttempts /\ 0 \in 0..MaxRedirects
      BY <1>0, <2>3, FetchAssumption
    <3>2. pull' = [pull EXCEPT !.phase = "CHECK", !.host = host, !.hops = 0,
                               !.attempt = pull.attempt + 1, !.late = late]
      BY <2>1 DEF Books, Pull
    <3> HIDE DEF late
    <3> QED
      BY <2>3, <3>1, <3>2 DEF Books, Pull
  <2>5. /\ pull'.phase = "CHECK" /\ pull'.attempt = pull.attempt + 1 /\ pull'.rows = pull.rows
        /\ pull'.late = late /\ pull'.cancel = pull.cancel
    BY <2>1 DEF Books, Pull
  <2> QED
    BY <1>0, <2>3, <2>4, <2>5 DEF Books
<1> QED
  BY <1>1, <1>2, <1>3

\* Every step keeps the books right.
LEMMA BooksStep == Inv /\ [Next]_vars => Books'
<1> SUFFICES ASSUME Inv, FetchTypeOK, Books, [Next]_vars PROVE Books'
  BY DEF Inv
<1>1. CASE StartPull
  BY <1>1, StartBooks
<1>2. CASE PullStep
  <2>1. CASE Archive
    <3>1. pull.got \in Bytes
      BY <2>1 DEF Archive, Inv, FetchTypeOK, GotIsOnRecord
    <3> QED
      BY <2>1, <3>1, EndsBooks, ParsingBooks DEF Archive
  <2>2. CASE EndRun
    BY <2>2, EndsBooks DEF EndRun
  <2> QED
    BY <1>2, <2>1, <2>2, AttemptBooks, EndOfAttemptBooks DEF PullStep
<1>3. CASE RequestCancel
  <2>1. /\ pull' \in Pull /\ pull'.phase = pull.phase /\ pull'.attempt = pull.attempt
        /\ pull'.rows = pull.rows /\ pull'.late = pull.late /\ pull'.cancel = TRUE
    BY <1>3 DEF RequestCancel, Books, Pull
  <2> QED
    BY <1>3, <2>1, GoesOnBooks DEF RequestCancel
<1>4. CASE Crash
  <2>1. pull.phase = "PARSE" => pull.got \in Bytes
    BY DEF Inv, FetchTypeOK, GotIsOnRecord
  <2> QED
    BY <1>4, <2>1, EndsBooks, ParsingBooks DEF Crash
<1>8. CASE Reparse
  BY <1>8, ParsingBooks DEF Reparse, FetchTypeOK
<1>5. CASE UNCHANGED pull
  BY <1>5 DEF Books, AttemptsCounted, EveryAttemptLeavesARow, WaitsOnlyOnce
<1>6. ASSUME NEW t \in Thread, PutStep(t) \/ StartPut(t) \/ Row(t) \/ WriterDies(t)
      PROVE  UNCHANGED pull
  BY <1>6 DEF PutStep, Look, Copy, Link, StartPut, Row, WriterDies
<1>7. Release \/ Publisher \/ UNCHANGED vars => UNCHANGED pull
  BY DEF Release, Publisher, vars
<1> QED
  BY <1>1, <1>2, <1>3, <1>4, <1>5, <1>6, <1>7, <1>8 DEF Next

-----------------------------------------------------------------------------
(* The files *)

\* A step of the pull alone keeps the files in order.
LEMMA PullOnly ==
  ASSUME Inv, Books', serves' \in Bytes, UNCHANGED stored,
         pull'.conditional \in {NULL, published},
         pull'.phase = "BODY" => pull'.got \in Bytes,
         pull'.phase \in {"ARCHIVE", "PARSE"} => pull'.phase = pull.phase /\ pull'.got = pull.got
  PROVE  Inv'
<1>1. FetchTypeOK'
  BY DEF Inv, FetchTypeOK, stored, version, Books
<1>2. ValidatorsArePublished' /\ GotIsOnRecord'
  BY DEF Inv, ValidatorsArePublished, GotIsOnRecord, stored, version
<1>3. StoreIsWhole' /\ PublishedIsProven'
  BY DEF Inv, StoreIsWhole, PublishedIsProven, stored, version
<1> QED
  BY <1>1, <1>2, <1>3 DEF Inv

\* A step of one put keeps the store whole if it claims no more than there is.
LEMMA OnePut ==
  ASSUME Inv, NEW t \in Thread, NEW row \in Put, put' = [put EXCEPT ![t] = row],
         blob' \in [Bytes -> {"ABSENT", "COMPLETE"}],
         \A b \in Bytes : blob[b] = "COMPLETE" => blob'[b] = "COMPLETE",
         row.step # "NONE" => row.file \in Bytes,
         row.step = "DONE" => blob'[row.file] = "COMPLETE"
  PROVE  StoreIsWhole' /\ put' \in [Thread -> Put]
<1>1. put' \in [Thread -> Put] /\ \A u \in Thread : put'[u] = IF u = t THEN row ELSE put[u]
  BY DEF Inv, FetchTypeOK
<1>2. \A u \in Thread : put'[u].step # "NONE" => put'[u].file \in Bytes
  BY <1>1 DEF Inv, StoreIsWhole
<1>3. ASSUME NEW u \in Thread, put'[u].step = "DONE" PROVE blob'[put'[u].file] = "COMPLETE"
  <2>1. CASE u = t
    BY <1>1, <1>3, <2>1
  <2>2. CASE u # t
    <3>1. put'[u] = put[u] /\ put[u].file \in Bytes /\ blob[put[u].file] = "COMPLETE"
      BY <1>1, <1>3, <2>2 DEF Inv, StoreIsWhole
    <3> QED
      BY <3>1
  <2> QED
    BY <2>1, <2>2
<1> QED
  BY <1>1, <1>2, <1>3 DEF StoreIsWhole

\* A put of any thread moves on, and that of the pull keeps its file.
LEMMA PutStepKeeps ==
  ASSUME Inv, NEW t \in Thread, PutStep(t)
  PROVE  Inv'
<1>0. /\ put \in [Thread -> Put] /\ put[t] \in Put /\ put[t].step # "NONE" /\ put[t].file \in Bytes
      /\ blob \in [Bytes -> {"ABSENT", "COMPLETE"}] /\ "pull" \in Thread
  BY DEF Inv, FetchTypeOK, PutStep, Look, Copy, Link, StoreIsWhole, Thread
<1> DEFINE step == IF Look(t) THEN (IF blob[put[t].file] = "ABSENT" THEN "COPY" ELSE "DONE")
                   ELSE IF Copy(t) THEN "LINK" ELSE "DONE"
           row == [put[t] EXCEPT !.step = step]
<1>1. step \in {"COPY", "LINK", "DONE"}
  OBVIOUS
<1>2. put' = [put EXCEPT ![t] = row]
  BY <1>0 DEF PutStep, Look, Copy, Link
<1>3. /\ blob' \in [Bytes -> {"ABSENT", "COMPLETE"}]
      /\ \A b \in Bytes : blob[b] = "COMPLETE" => blob'[b] = "COMPLETE"
  BY <1>0 DEF PutStep, Look, Copy, Link
<1>4. step = "DONE" => blob'[put[t].file] = "COMPLETE"
  BY <1>0 DEF PutStep, Look, Copy, Link
<1>5. UNCHANGED <<serves, pull, evidence, artifact, version>>
  BY DEF PutStep, Look, Copy, Link
<1> HIDE DEF step
<1>6. row \in Put /\ row.step = step /\ row.file = put[t].file
  BY <1>0, <1>1 DEF Put
<1> HIDE DEF row
<1>7. StoreIsWhole' /\ put' \in [Thread -> Put]
  BY <1>0, <1>2, <1>3, <1>4, <1>6, OnePut
<1>8. FetchTypeOK' /\ Books'
  BY <1>3, <1>5, <1>7 DEF version, Inv, FetchTypeOK, Books, AttemptsCounted, EveryAttemptLeavesARow, WaitsOnlyOnce
<1>9. ValidatorsArePublished' /\ PublishedIsProven'
  BY <1>3, <1>5 DEF version, Inv, FetchTypeOK, ValidatorsArePublished, PublishedIsProven
<1>10. GotIsOnRecord'
  <2>1. put'["pull"].file = put["pull"].file /\ (put["pull"].step # "NONE" => put'["pull"].step # "NONE")
    BY <1>0, <1>1, <1>2, <1>6
  <2> QED
    BY <1>5, <2>1 DEF version, Inv, GotIsOnRecord
<1> QED
  BY <1>7, <1>8, <1>9, <1>10 DEF Inv

\* Another thread begins a put, makes its row, or dies.
LEMMA WriterKeeps ==
  ASSUME Inv, NEW t \in Thread, StartPut(t) \/ Row(t) \/ WriterDies(t)
  PROVE  Inv'
<1>0. /\ put \in [Thread -> Put] /\ t # "pull" /\ "pull" \in Thread
      /\ blob \in [Bytes -> {"ABSENT", "COMPLETE"}] /\ blob' = blob
      /\ UNCHANGED <<serves, pull, evidence, version>>
  BY WriterAssumption DEF Inv, FetchTypeOK, StartPut, Row, WriterDies, StoreIsWhole, Thread
<1>1. /\ artifact' \subseteq Bytes
      /\ \A b \in artifact' : blob[b] = "COMPLETE"
      /\ artifact \subseteq artifact'
  BY DEF Inv, FetchTypeOK, StartPut, Row, WriterDies, StoreIsWhole, PublishedIsProven
<1>2. PICK row \in Put : /\ put' = [put EXCEPT ![t] = row]
                         /\ row.step \in {"NONE", "LOOK"}
                         /\ row.step # "NONE" => row.file \in Bytes
  <2>1. NoPut \in Put /\ NoPut.step = "NONE"
    BY DEF NoPut, Put
  <2>2. \A b \in Bytes : LET row == [step |-> "LOOK", file |-> b] IN row \in Put /\ row.step = "LOOK" /\ row.file = b
    BY DEF Put
  <2>3. CASE StartPut(t)
    BY <2>2, <2>3 DEF StartPut
  <2>4. CASE Row(t) \/ WriterDies(t)
    BY <2>1, <2>4 DEF Row, WriterDies
  <2> QED
    BY <2>3, <2>4
<1>3. StoreIsWhole' /\ put' \in [Thread -> Put]
  BY <1>0, <1>2, OnePut
<1>4. FetchTypeOK' /\ Books'
  BY <1>0, <1>1, <1>3 DEF version, Inv, FetchTypeOK, Books, AttemptsCounted, EveryAttemptLeavesARow, WaitsOnlyOnce
<1>5. ValidatorsArePublished' /\ PublishedIsProven'
  BY <1>0, <1>1 DEF version, Inv, ValidatorsArePublished, PublishedIsProven
<1>6. GotIsOnRecord'
  <2>1. put'["pull"] = put["pull"]
    BY <1>0, <1>2
  <2> QED
    BY <1>0, <1>1, <2>1 DEF version, Inv, GotIsOnRecord
<1> QED
  BY <1>3, <1>4, <1>5, <1>6 DEF Inv

\* A download that is complete is on record, and its put begins.
LEMMA SucceededKeeps ==
  ASSUME Inv, Books', AttemptSucceeded
  PROVE  Inv'
<1> DEFINE row == [step |-> "LOOK", file |-> pull.got]
<1>1. /\ pull.got \in Bytes /\ pull \in Pull /\ "pull" \in Thread /\ put \in [Thread -> Put]
      /\ pull'.phase = "ARCHIVE" /\ pull'.got = pull.got /\ pull'.conditional = pull.conditional
      /\ evidence' = evidence \cup {pull.got} /\ UNCHANGED <<serves, artifact, version, blob>>
      /\ put' = [put EXCEPT !["pull"] = row]
  BY DEF AttemptSucceeded, Inv, GotIsOnRecord, FetchTypeOK, Books, Pull, Thread
<1>2. row \in Put /\ row.step = "LOOK" /\ row.file = pull.got
  BY <1>1 DEF Put
<1> HIDE DEF row
<1>3. blob' \in [Bytes -> {"ABSENT", "COMPLETE"}]
  BY <1>1 DEF Inv, FetchTypeOK, StoreIsWhole
<1>4. StoreIsWhole' /\ put' \in [Thread -> Put]
  BY <1>1, <1>2, <1>3, OnePut
<1>5. FetchTypeOK'
  BY <1>1, <1>4 DEF version, Inv, FetchTypeOK, Books
<1>6. ValidatorsArePublished' /\ PublishedIsProven'
  BY <1>1 DEF version, Inv, ValidatorsArePublished, PublishedIsProven
<1>7. GotIsOnRecord'
  BY <1>1, <1>2 DEF version, GotIsOnRecord
<1> QED
  BY <1>4, <1>5, <1>6, <1>7 DEF Inv

\* The pull lets go of its put: when it has archived, or when its process dies.
LEMMA PutOver ==
  ASSUME Inv, put' = [put EXCEPT !["pull"] = NoPut], UNCHANGED blob
  PROVE  StoreIsWhole' /\ put' \in [Thread -> Put]
<1>1. NoPut \in Put /\ NoPut.step = "NONE" /\ "pull" \in Thread
  BY DEF NoPut, Put, Thread
<1>2. blob' \in [Bytes -> {"ABSENT", "COMPLETE"}]
  BY DEF Inv, FetchTypeOK, StoreIsWhole
<1> QED
  BY <1>1, <1>2, OnePut

\* The row of the artifact names a file that is whole.
LEMMA ArchiveKeeps ==
  ASSUME Inv, Books', Archive
  PROVE  Inv'
<1>1. /\ pull \in Pull /\ pull.got \in evidence /\ pull.got \in Bytes /\ "pull" \in Thread
      /\ put["pull"].step = "DONE" /\ put["pull"].file = pull.got
      /\ artifact' = artifact \cup {pull.got} /\ UNCHANGED <<serves, evidence, version, blob>>
      /\ put' = [put EXCEPT !["pull"] = NoPut]
  BY DEF Archive, Inv, GotIsOnRecord, Books, Thread, FetchTypeOK
<1>2. /\ pull'.phase \in {"IDLE", "PARSE"} /\ pull'.conditional = NULL
      /\ pull'.phase = "PARSE" => pull'.got = pull.got
  BY <1>1, NoPullType, ParsingBooks DEF Archive
<1>3. StoreIsWhole' /\ put' \in [Thread -> Put]
  BY <1>1, PutOver
<1>4. FetchTypeOK'
  BY <1>1, <1>3 DEF Inv, FetchTypeOK, Books, version
<1>5. blob[pull.got] = "COMPLETE"
  BY <1>1 DEF Inv, StoreIsWhole
<1>6. ValidatorsArePublished' /\ PublishedIsProven'
  BY <1>1, <1>2, <1>5 DEF Inv, ValidatorsArePublished, PublishedIsProven, version
<1>7. GotIsOnRecord'
  BY <1>1, <1>2 DEF GotIsOnRecord
<1> QED
  BY <1>3, <1>4, <1>6, <1>7 DEF Inv

\* A file that has a row is taken by a run that names it.
LEMMA ReparseKeeps ==
  ASSUME Inv, Books', Reparse
  PROVE  Inv'
<1>1. PICK b \in artifact : pull' = Parsing(b) /\ reparsed' = reparsed \cup {b}
  BY DEF Reparse
<1>2. b \in Bytes /\ UNCHANGED <<serves, evidence, artifact, held, published, blob, put>>
  BY <1>1 DEF Reparse, Inv, FetchTypeOK
<1>3. pull'.phase = "PARSE" /\ pull'.got = b /\ pull'.conditional = NULL
  BY <1>1, <1>2, ParsingBooks
<1>4. FetchTypeOK'
  BY <1>1, <1>2 DEF Inv, FetchTypeOK, Books
<1>5. ValidatorsArePublished' /\ GotIsOnRecord'
  BY <1>1, <1>2, <1>3 DEF ValidatorsArePublished, GotIsOnRecord
<1>6. StoreIsWhole' /\ PublishedIsProven'
  BY <1>1, <1>2 DEF Inv, StoreIsWhole, PublishedIsProven
<1> QED
  BY <1>4, <1>5, <1>6 DEF Inv

\* A version is published or held by the run that took its file.
LEMMA EndRunKeeps ==
  ASSUME Inv, Books', EndRun
  PROVE  Inv'
<1>1. /\ pull' = NoPull /\ UNCHANGED <<serves, evidence, artifact, reparsed, blob, put>>
      /\ published' \in {published} \cup (artifact \cap (evidence \cup reparsed))
      /\ held' \subseteq held \cup (artifact \cap (evidence \cup reparsed))
  BY DEF EndRun, Inv, GotIsOnRecord
<1>2. FetchTypeOK'
  BY <1>1 DEF Inv, FetchTypeOK, Books
<1>3. ValidatorsArePublished' /\ GotIsOnRecord'
  BY <1>1, NoPullType DEF ValidatorsArePublished, GotIsOnRecord
<1>4. StoreIsWhole' /\ PublishedIsProven'
  BY <1>1 DEF Inv, StoreIsWhole, PublishedIsProven
<1> QED
  BY <1>2, <1>3, <1>4 DEF Inv

\* A held version is released; no pull has sent validators yet.
LEMMA ReleaseKeeps ==
  ASSUME Inv, Books', Release
  PROVE  Inv'
<1>1. /\ pull = NoPull /\ pull' = pull /\ published' \in held
      /\ UNCHANGED <<serves, evidence, artifact, reparsed, held, blob, put>>
  BY DEF Release, Inv, Books, AttemptsCounted
<1>2. FetchTypeOK'
  BY <1>1 DEF Inv, FetchTypeOK, Books
<1>3. ValidatorsArePublished' /\ GotIsOnRecord'
  BY <1>1, NoPullType DEF ValidatorsArePublished, GotIsOnRecord
<1>4. StoreIsWhole' /\ PublishedIsProven'
  BY <1>1 DEF Inv, StoreIsWhole, PublishedIsProven
<1> QED
  BY <1>2, <1>3, <1>4 DEF Inv

\* A process that dies takes the put of its pull with it, and leaves no more than the file.
LEMMA CrashKeeps ==
  ASSUME Inv, Books', Crash
  PROVE  Inv'
<1>1. /\ put' = [put EXCEPT !["pull"] = NoPut]
      /\ UNCHANGED <<serves, evidence, artifact, reparsed, held, published, blob>>
  BY DEF Crash, version
<1>2. /\ pull'.phase \in {"IDLE", "PARSE"} /\ pull'.conditional = NULL
      /\ pull'.phase = "PARSE" => pull.phase = "PARSE" /\ pull'.got = pull.got
  BY NoPullType, ParsingBooks DEF Crash, Inv, FetchTypeOK, GotIsOnRecord
<1>3. StoreIsWhole' /\ put' \in [Thread -> Put]
  BY <1>1, PutOver
<1>4. FetchTypeOK' /\ PublishedIsProven'
  BY <1>1, <1>3 DEF Inv, FetchTypeOK, Books, PublishedIsProven
<1>5. ValidatorsArePublished' /\ GotIsOnRecord'
  BY <1>1, <1>2 DEF Inv, ValidatorsArePublished, GotIsOnRecord
<1> QED
  BY <1>3, <1>4, <1>5 DEF Inv

-----------------------------------------------------------------------------
(* The steps *)

\* The steps of the pull that touch neither a record nor the store.
LEMMA PullStepKeeps ==
  ASSUME Inv, Books',
         \/ StartPull \/ Check \/ Redirected \/ NotModified \/ Answered \/ RequestFails
         \/ AttemptFailed \/ NextAttempt \/ RequestCancel \/ Publisher
  PROVE  Inv'
<1>0. pull \in Pull /\ serves \in Bytes /\ pull.conditional \in {NULL, published}
  BY DEF Inv, FetchTypeOK, ValidatorsArePublished
<1>1. UNCHANGED stored /\ serves' \in Bytes
  BY <1>0 DEF StartPull, Check, Redirected, NotModified, Answered, RequestFails, AttemptFailed,
     NextAttempt, RequestCancel, Publisher
<1>2. /\ pull'.conditional \in {NULL, published}
      /\ pull'.phase = "BODY" => pull'.got \in Bytes
      /\ pull'.phase \in {"ARCHIVE", "PARSE"} => pull'.phase = pull.phase /\ pull'.got = pull.got
  <2>1. CASE StartPull
    BY <2>1 DEF StartPull, Validators, NoPull
  <2>2. ASSUME NEW e, Fail(e)
        PROVE  pull'.phase = "FAILED" /\ pull'.conditional = pull.conditional
    BY <1>0, <2>2 DEF Fail, Pull
  <2>3. CASE Check \/ RequestFails
    BY <1>0, <2>2, <2>3 DEF Check, RequestFails, Pull
  <2>4. CASE Redirected
    BY <1>0, <2>2, <2>4 DEF Redirected, Pull
  <2>5. CASE NotModified \/ Answered \/ NextAttempt
    BY <1>0, <2>5 DEF NotModified, Answered, NextAttempt, Pull
  <2>6. CASE AttemptFailed
    BY <1>0, <2>6, NoPullType DEF AttemptFailed, Pull
  <2>7. CASE RequestCancel \/ Publisher
    BY <1>0, <2>7 DEF RequestCancel, Publisher, Pull, Inv, GotIsOnRecord, stored, version
  <2> QED
    BY <2>1, <2>3, <2>4, <2>5, <2>6, <2>7
<1> QED
  BY <1>1, <1>2, PullOnly

\* The initial states satisfy the invariant.
LEMMA InitHolds == Init => Inv
<1> SUFFICES ASSUME Init PROVE Inv
  OBVIOUS
<1>1. NoPut \in Put /\ NoPut.step = "NONE"
  BY DEF NoPut, Put
<1>2. FetchTypeOK /\ Books
  BY <1>1, NoPullType DEF Init, FetchTypeOK, Books, AttemptsCounted, EveryAttemptLeavesARow, WaitsOnlyOnce
<1>3. ValidatorsArePublished /\ GotIsOnRecord /\ PublishedIsProven
  BY NoPullType DEF Init, ValidatorsArePublished, GotIsOnRecord, PublishedIsProven
<1>4. StoreIsWhole
  BY <1>1 DEF Init, StoreIsWhole
<1> QED
  BY <1>2, <1>3, <1>4 DEF Inv

\* Every step keeps the invariant.
LEMMA Step == Inv /\ [Next]_vars => Inv'
<1> SUFFICES ASSUME Inv, [Next]_vars PROVE Inv'
  OBVIOUS
<1>1. Books'
  BY BooksStep DEF Inv
<1>2. CASE UNCHANGED vars
  BY <1>2 DEF vars, stored, Inv, FetchTypeOK, Books, AttemptsCounted, EveryAttemptLeavesARow,
     WaitsOnlyOnce, ValidatorsArePublished, GotIsOnRecord, StoreIsWhole, PublishedIsProven
<1> QED
  BY <1>1, <1>2, PutStepKeeps, WriterKeeps, SucceededKeeps, ArchiveKeeps, ReparseKeeps, EndRunKeeps,
     ReleaseKeeps, CrashKeeps, PullStepKeeps DEF Next, PullStep

\* Only an answer 304 ends a request as unchanged.
LEMMA UnchangedStep ==
  ASSUME Inv, [Next]_vars, pull.phase = "REQUEST", pull'.phase = "UNCHANGED"
  PROVE  serves = published
<1>0. pull \in Pull
  BY DEF Inv, FetchTypeOK
<1>1. NotModified
  <2>1. ASSUME NEW e, Fail(e) PROVE pull'.phase = "FAILED"
    BY <1>0, <2>1 DEF Fail, Pull
  <2>2. ~StartPull /\ ~Check /\ ~AttemptFailed /\ ~NextAttempt /\ ~AttemptSucceeded /\ ~Archive /\ ~EndRun
        /\ ~Reparse
    BY DEF StartPull, Check, AttemptFailed, NextAttempt, AttemptSucceeded, Archive, EndRun, Reparse
  <2>3. ~Redirected /\ ~RequestFails
    BY <1>0, <2>1 DEF Redirected, RequestFails, Pull
  <2>4. ~Answered /\ ~RequestCancel
    BY <1>0 DEF Answered, RequestCancel, Pull
  <2>5. ~Release /\ ~Publisher /\ vars' # vars
    BY DEF Release, Publisher, vars, stored
  <2>6. ~Crash
    BY NoPullType DEF Crash
  <2>7. ASSUME NEW t \in Thread PROVE ~(PutStep(t) \/ StartPut(t) \/ Row(t) \/ WriterDies(t))
    BY DEF PutStep, Look, Copy, Link, StartPut, Row, WriterDies
  <2> QED
    BY <2>2, <2>3, <2>4, <2>5, <2>6, <2>7 DEF Next, PullStep
<1> QED
  BY <1>1, FetchAssumption DEF NotModified, Inv, FetchTypeOK, ValidatorsArePublished

-----------------------------------------------------------------------------
(* Theorems *)

\* The invariant holds in every state.
LEMMA Invariant == Spec => []Inv
  BY InitHolds, Step, PTL DEF Spec

\* The pull, the records and the blob store have their types: no attempt, hop or row of evidence
\* goes beyond the configured limits.
THEOREM FetchTypeCorrect == Spec => []FetchTypeOK
  BY Invariant, PTL DEF Inv

\* Whatever is published or held was archived, and downloaded with evidence or named by the run that
\* an operator or the agent asked for; and every archived file is whole, whichever threads put the
\* same bytes and wherever one of them dies.
THEOREM ProvenWhenPublished == Spec => []PublishedIsProven
  BY Invariant, PTL DEF Inv

\* At most one attempt begins after a cancel request: the one whose wait had begun before it.
THEOREM CancelIsHeeded == Spec => []CancelStopsRetries
<1>1. Inv => CancelStopsRetries
  BY DEF Inv, Books, WaitsOnlyOnce, CancelStopsRetries
<1> QED
  BY <1>1, Invariant, PTL

\* Every attempt that ended has left its row of evidence, however the pull goes on.
THEOREM AttemptsAreOnRecord == Spec => []EveryAttemptLeavesARow
  BY Invariant, PTL DEF Inv, Books

\* An answer 304 ends a pull as unchanged only if the publisher serves what is published.
THEOREM UnchangedIsPublished == Spec => UnchangedMeansPublished
<1>1. Inv /\ [Next]_vars => [pull.phase = "REQUEST" /\ pull'.phase = "UNCHANGED" => serves = published]_vars
  BY UnchangedStep
<1> QED
  BY <1>1, Invariant, PTL DEF Spec, UnchangedMeansPublished
=============================================================================
