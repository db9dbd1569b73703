-------------------------- MODULE Enrichment_proofs --------------------------
(***************************************************************************)
(* Theorems about Enrichment, for any number of subjects, keys, lookups,   *)
(* batch sizes and limits.                                                 *)
(*                                                                         *)
(* The inductive invariant adds what the invariants rest on: a request     *)
(* that is DONE names a record of its subject (RequestInv), and a store    *)
(* that is under way and alone supersedes the current record of its        *)
(* subject, so that a subject with records never is without a current one  *)
(* (StoreInv, HasCurrent). The records are a history that is only ever     *)
(* appended to (VerdictsStand).                                            *)
(***************************************************************************)
EXTENDS Enrichment, SequenceTheorems, TLAPS

StoreRow == [subject : Subject, status : Answer, key : Key, prev : Nat \cup {NULL}]

RequestRow == [subject : Subject, status : {"REQUESTED", "FAILED", "DONE"}, found : BOOLEAN,
               result : Nat \cup {NULL}]

BatchRow == [running : BOOLEAN, todo : SUBSET (Subject \ Unwanted), errors : Nat, proposed : Nat]

(* The types of the rows.                                                  *)
Types ==
  /\ listed \subseteq Subject /\ overlapped \subseteq Subject
  /\ records \in Seq(RecordRow)
  /\ batch \in BatchRow /\ batch.proposed <= MaxProposals
  /\ request \in [Asker -> RequestRow \cup {NULL}]
  /\ store \in [Writer -> StoreRow \cup {NULL}]

(* A request that is DONE names a record of its own subject.               *)
RequestInv ==
  \A a \in Asker : request[a] # NULL =>
    /\ (request[a].status = "DONE" <=> request[a].result # NULL)
    /\ request[a].result # NULL => /\ request[a].result \in DOMAIN records
                                   /\ records[request[a].result].subject = request[a].subject

(* What a store that is under way has read: the current record of its      *)
(* subject, which nobody supersedes before it commits, unless stores of    *)
(* the subject overlapped.                                                 *)
HasRead(w) ==
  /\ store[w].prev # NULL => /\ store[w].prev \in DOMAIN records
                             /\ records[store[w].prev].subject = store[w].subject
  /\ w \in Asker => /\ request[w] # NULL /\ request[w].status = "REQUESTED"
                    /\ request[w].found /\ request[w].subject = store[w].subject
  /\ store[w].subject \notin overlapped =>
       /\ \A v \in Writer : (store[v] # NULL /\ store[v].subject = store[w].subject) => v = w
       /\ IF store[w].prev = NULL THEN Current(store[w].subject) = {}
          ELSE store[w].prev \in Current(store[w].subject)

StoreInv == \A w \in Writer : store[w] # NULL => HasRead(w)

(* A subject that has records has a current one.                           *)
HasCurrent == \A i \in DOMAIN records : Current(records[i].subject) # {}

(* The inductive invariant.                                                *)
Inv ==
  /\ Types /\ RequestInv /\ StoreInv /\ HasCurrent
  /\ SerialStoreIsCurrent /\ ReviewIsAsked

(* The records as a table.                                                 *)
LEMMA Table ==
  ASSUME Types
  PROVE  /\ Len(records) \in Nat /\ DOMAIN records = 1..Len(records)
         /\ \A i \in DOMAIN records : i \in Nat /\ i # NULL /\ records[i] \in RecordRow
<1>1. Len(records) \in Nat /\ DOMAIN records = 1..Len(records) /\ \A i \in DOMAIN records : records[i] \in RecordRow
  BY LenProperties, ElementOfSeq DEF Types
<1> QED
  BY <1>1, EnrichmentConstants

(* The type invariant is part of the inductive one.                        *)
LEMMA TypesSuffice == ASSUME Types, RequestInv PROVE EnrichmentTypeOK
  BY DEF EnrichmentTypeOK, Types, RequestInv, BatchRow

(* Records that keep subject, key and successor keep what is read of them. *)
LEMMA CurrentStays ==
  ASSUME DOMAIN records' = DOMAIN records,
         \A i \in DOMAIN records : /\ records'[i].subject = records[i].subject
                                   /\ records'[i].superseded = records[i].superseded
  PROVE  /\ \A s : Current(s)' = Current(s)
         /\ HasCurrent => HasCurrent'
         /\ SerialStoreIsCurrent /\ overlapped \subseteq overlapped' => SerialStoreIsCurrent'
<1>1. \A s : Current(s)' = Current(s)
  BY DEF Current
<1>2. HasCurrent => HasCurrent'
  BY <1>1 DEF HasCurrent
<1>3. SerialStoreIsCurrent /\ overlapped \subseteq overlapped' => SerialStoreIsCurrent'
  BY DEF SerialStoreIsCurrent
<1> QED
  BY <1>1, <1>2, <1>3

(* A step that leaves the records alone, starts no store, and changes no   *)
(* request that a store waits for.                                         *)
LEMMA RecordsAlone ==
  ASSUME Inv, Types', UNCHANGED <<records, overlapped>>, RequestInv',
         \A w \in Writer : store'[w] # NULL => store'[w] = store[w],
         \A a \in Asker : store'[a] # NULL => request'[a] = request[a]
  PROVE  Inv'
<1>1. ReviewIsAsked'
  BY DEF Inv, ReviewIsAsked, SameMatch
<1>2. /\ \A s : Current(s)' = Current(s)
      /\ HasCurrent' /\ SerialStoreIsCurrent'
  BY CurrentStays DEF Inv
<1>3. StoreInv'
  <2> SUFFICES ASSUME NEW w \in Writer, store'[w] # NULL PROVE HasRead(w)'
    BY DEF StoreInv
  <2>1. HasRead(w) /\ store'[w] = store[w] /\ (w \in Asker => request'[w] = request[w])
    BY DEF Inv, StoreInv
  <2>2. \A v \in Writer : store'[v] # NULL => store[v] # NULL /\ store[v].subject = store'[v].subject
    OBVIOUS
  <2>3. Current(store[w].subject)' = Current(store[w].subject)
    BY <1>2, <2>1 DEF Current
  <2> QED
    BY <2>1, <2>2, <2>3 DEF HasRead
<1> QED
  BY <1>1, <1>2, <1>3 DEF Inv

(* Batches, requests and lists change without a store.                     *)
LEMMA OtherStepsKeep ==
  ASSUME Inv,
         \/ StartBatch \/ FinishBatch \/ StopBatch
         \/ \E s \in Subject : EnrichFails(s) \/ Delist(s)
         \/ \E a \in Asker : NotListed(a) \/ \E s \in Subject : Ask(a, s)
  PROVE  Inv'
<1>0. /\ Types /\ RequestInv /\ listed \subseteq Subject /\ batch \in BatchRow /\ batch.proposed <= MaxProposals
      /\ request \in [Asker -> RequestRow \cup {NULL}] /\ store \in [Writer -> StoreRow \cup {NULL}]
      /\ NoBatch \in BatchRow /\ NoBatch.proposed = 0 /\ MaxProposals \in Nat
  BY EnrichmentConstants DEF Inv, Types, NoBatch, BatchRow
<1>1. ASSUME UNCHANGED <<records, request, overlapped>>, listed' \subseteq Subject,
             batch' \in BatchRow, batch'.proposed <= MaxProposals,
             store' \in [Writer -> StoreRow \cup {NULL}], \A w \in Writer : store'[w] # NULL => store'[w] = store[w]
      PROVE  Inv'
  <2>1. Types' /\ RequestInv'
    BY <1>0, <1>1 DEF Types, RequestInv
  <2> QED
    BY <1>1, <2>1, RecordsAlone
<1>2. CASE StartBatch
  <2>1. Subjects \subseteq Subject \ Unwanted
    BY <1>0 DEF Subjects, Newest, Due
  <2>2. PICK b : b = [NoBatch EXCEPT !.running = TRUE, !.todo = Subjects]
    OBVIOUS
  <2>3. b \in BatchRow /\ b.proposed = 0
    BY <1>0, <2>1, <2>2 DEF BatchRow
  <2> QED
    BY <1>0, <1>1, <1>2, <2>2, <2>3 DEF StartBatch
<1>3. CASE FinishBatch
  BY <1>0, <1>1, <1>3 DEF FinishBatch
<1>4. CASE StopBatch
  <2>1. PICK f : f = [store EXCEPT !["batch"] = NULL]
    OBVIOUS
  <2>2. f \in [Writer -> StoreRow \cup {NULL}] /\ \A w \in Writer : f[w] # NULL => f[w] = store[w]
    BY <1>0, <2>1
  <2>3. store' = f
    BY <1>4, <2>1 DEF StopBatch
  <2>4. /\ UNCHANGED <<records, request, overlapped>> /\ listed' \subseteq Subject
        /\ batch' \in BatchRow /\ batch'.proposed <= MaxProposals
    BY <1>0, <1>4 DEF StopBatch
  <2>5. store' \in [Writer -> StoreRow \cup {NULL}] /\ \A w \in Writer : store'[w] # NULL => store'[w] = store[w]
    BY <2>2, <2>3
  <2> QED
    BY <1>1, <2>4, <2>5
<1>5. ASSUME NEW s \in Subject, EnrichFails(s) PROVE Inv'
  <2>1. PICK b \in {NoBatch, [batch EXCEPT !.todo = batch.todo \ {s}, !.errors = batch.errors + 1]} : batch' = b
    BY <1>5 DEF EnrichFails
  <2>2. PICK c : c = [batch EXCEPT !.todo = batch.todo \ {s}, !.errors = batch.errors + 1]
    OBVIOUS
  <2>3. batch.errors + 1 \in Nat /\ batch.todo \ {s} \in SUBSET (Subject \ Unwanted)
    BY <1>0 DEF BatchRow
  <2>4. c \in BatchRow /\ c.proposed = batch.proposed
    BY <1>0, <2>2, <2>3 DEF BatchRow
  <2>5. b = NoBatch \/ b = c
    BY <2>1, <2>2
  <2>6. b \in BatchRow /\ b.proposed <= MaxProposals
    BY <1>0, <2>4, <2>5
  <2> QED
    BY <1>0, <1>1, <1>5, <2>1, <2>6 DEF EnrichFails
<1>6. ASSUME NEW s \in Subject, Delist(s) PROVE Inv'
  BY <1>0, <1>1, <1>6 DEF Delist
<1>7. ASSUME NEW a \in Asker, NEW x \in RequestRow, request' = [request EXCEPT ![a] = x], store[a] = NULL,
             x.status # "DONE", x.result = NULL, UNCHANGED <<listed, records, batch, store, overlapped>>
      PROVE  Inv'
  <2>1. Types'
    BY <1>0, <1>7 DEF Types
  <2>2. request'[a] = x /\ \A b \in Asker \ {a} : request'[b] = request[b]
    BY <1>0, <1>7
  <2>3. RequestInv'
    BY <1>0, <1>7, <2>2 DEF RequestInv
  <2> QED
    BY <1>7, <2>1, <2>2, <2>3, RecordsAlone
<1>8. ASSUME NEW a \in Asker, NEW s \in Subject, Ask(a, s) PROVE Inv'
  <2>1. PICK x : x = [subject |-> s, status |-> "REQUESTED", found |-> s \in listed, result |-> NULL]
    OBVIOUS
  <2>2. x \in RequestRow /\ x.status # "DONE" /\ x.result = NULL
    BY <2>1 DEF RequestRow
  <2>3. store[a] = NULL
    BY <1>8 DEF Ask, Inv, StoreInv, HasRead, Writer
  <2> QED
    BY <1>7, <1>8, <2>1, <2>2, <2>3 DEF Ask
<1>9. ASSUME NEW a \in Asker, NotListed(a) PROVE Inv'
  <2>1. request[a] # NULL /\ request[a] \in RequestRow /\ request[a].status = "REQUESTED" /\ request[a].result = NULL
    BY <1>0, <1>9 DEF NotListed, Waits, RequestInv
  <2>2. PICK x : x = [request[a] EXCEPT !.status = "FAILED"]
    OBVIOUS
  <2>3. x \in RequestRow /\ x.status # "DONE" /\ x.result = NULL
    BY <2>1, <2>2 DEF RequestRow
  <2>4. store[a] = NULL
    BY <1>9 DEF NotListed, Inv, StoreInv, HasRead, Writer
  <2> QED
    BY <1>7, <1>9, <2>2, <2>3, <2>4 DEF NotListed
<1> QED
  BY <1>2, <1>3, <1>4, <1>5, <1>6, <1>8, <1>9

(* An answer arrives: another store of the subject that is under way now   *)
(* overlaps, and the record that was read is the current one.              *)
LEMMA ReadsKeep ==
  ASSUME Inv, NEW w \in Writer, NEW s \in Subject, StoreReads(w, s), store[w] = NULL,
         w \in Asker => /\ request[w] # NULL /\ request[w].status = "REQUESTED"
                        /\ request[w].found /\ request[w].subject = s,
         UNCHANGED <<listed, records, batch, request>>
  PROVE  Inv'
<1>0. /\ Types /\ StoreInv /\ store \in [Writer -> StoreRow \cup {NULL}] /\ overlapped \subseteq Subject
      /\ \A i \in DOMAIN records : i \in Nat /\ i # NULL
  BY Table DEF Inv, Types
<1>1. PICK x : /\ store' = [store EXCEPT ![w] = x]
               /\ x.subject = s /\ x \in StoreRow
               /\ IF x.prev = NULL THEN Current(s) = {} ELSE x.prev \in Current(s)
  <2>1. PICK answer \in Answer, k \in Key, prev \in IF Current(s) = {} THEN {NULL} ELSE Current(s) :
          store' = [store EXCEPT ![w] = [subject |-> s, status |-> answer, key |-> k, prev |-> prev]]
    BY EnrichmentConstants DEF StoreReads
  <2>2. PICK x : x = [subject |-> s, status |-> answer, key |-> k, prev |-> prev]
    OBVIOUS
  <2>3. Current(s) \subseteq DOMAIN records
    BY DEF Current
  <2>4. prev \in Nat \cup {NULL}
    BY <1>0, <2>3
  <2>5. x.subject = s /\ x \in StoreRow /\ x.prev = prev
    BY <2>2, <2>4 DEF StoreRow
  <2>6. IF prev = NULL THEN Current(s) = {} ELSE prev \in Current(s)
    BY <1>0, <2>3
  <2> QED
    BY <2>1, <2>2, <2>5, <2>6
<1>2. /\ store'[w] = x /\ \A v \in Writer \ {w} : store'[v] = store[v]
      /\ store' \in [Writer -> StoreRow \cup {NULL}]
  BY <1>0, <1>1
<1>3. /\ overlapped \subseteq overlapped' /\ overlapped' \subseteq Subject
      /\ \A v \in Writer \ {w} : store[v] # NULL /\ store[v].subject = s => s \in overlapped'
  BY <1>0 DEF StoreReads
<1>4. Types'
  BY <1>0, <1>2, <1>3 DEF Types
<1>5. ReviewIsAsked' /\ RequestInv'
  BY DEF Inv, ReviewIsAsked, SameMatch, RequestInv
<1>6. (\A t : Current(t)' = Current(t)) /\ HasCurrent' /\ SerialStoreIsCurrent'
  BY <1>3, CurrentStays DEF Inv
<1>7. StoreInv'
  <2> SUFFICES ASSUME NEW v \in Writer, store'[v] # NULL PROVE HasRead(v)'
    BY DEF StoreInv
  <2>1. CASE v = w
    <3>1. x.prev # NULL => x.prev \in DOMAIN records /\ records[x.prev].subject = s
      BY <1>1 DEF Current
    <3>2. s \notin overlapped' => \A u \in Writer : (store'[u] # NULL /\ store'[u].subject = s) => u = w
      BY <1>2, <1>3
    <3> QED
      BY <1>1, <1>2, <1>6, <2>1, <3>1, <3>2 DEF HasRead
  <2>2. CASE v # w
    <3>1. HasRead(v) /\ store'[v] = store[v]
      BY <1>0, <1>2, <2>2 DEF StoreInv
    <3>2. store[v].subject \notin overlapped' =>
            store[v].subject # s /\ store[v].subject \notin overlapped
      BY <1>2, <1>3, <2>2
    <3>3. store[v].subject \notin overlapped' =>
            \A u \in Writer : (store'[u] # NULL /\ store'[u].subject = store[v].subject) => u = v
      BY <1>1, <1>2, <3>1, <3>2 DEF HasRead
    <3> QED
      BY <1>6, <3>1, <3>2, <3>3 DEF HasRead
  <2> QED
    BY <2>1, <2>2
<1> QED
  BY <1>4, <1>5, <1>6, <1>7 DEF Inv

(* What a commit writes: the new record is the last one, the record that   *)
(* was read is superseded by it, and the others are as they were.          *)
LEMMA CommitWrites ==
  ASSUME Inv, NEW w \in Writer, StoreCommits(w)
  PROVE  LET id == Len(records) + 1 IN
         /\ store[w] \in StoreRow /\ HasRead(w)
         /\ id \in Nat /\ id \notin DOMAIN records /\ \A i \in DOMAIN records : i \in Nat /\ i < id
         /\ records' \in Seq(RecordRow)
         /\ DOMAIN records' = DOMAIN records \cup {id}
         /\ records'[id] = NewRecord(w)
         /\ \A i \in DOMAIN records : /\ records'[i].subject = records[i].subject
                                      /\ records'[i].key = records[i].key
                                      /\ records'[i].status = records[i].status
                                      /\ records'[i].capped = records[i].capped
                                      /\ records'[i].proposal = records[i].proposal
                                      /\ records'[i].superseded =
                                           IF i = store[w].prev THEN id ELSE records[i].superseded
         /\ \A t : t = store[w].subject => Current(t)' = (Current(t) \ {store[w].prev}) \cup {id}
         /\ \A t : t # store[w].subject => Current(t)' = Current(t)
<1> DEFINE id == Len(records) + 1
           rows == Superseded(records, store[w].prev, id)
<1>1. /\ store[w] # NULL /\ store[w] \in StoreRow /\ HasRead(w) /\ records \in Seq(RecordRow)
      /\ records' = Append(rows, NewRecord(w))
  BY DEF StoreCommits, Inv, Types, StoreInv
<1>2. Len(records) \in Nat /\ id \in Nat /\ DOMAIN records = 1..Len(records) /\ \A i \in DOMAIN records : records[i] \in RecordRow
  BY Table DEF Inv
<1>3. /\ DOMAIN rows = 1..Len(records)
      /\ \A i \in DOMAIN records : rows[i] = IF i = store[w].prev THEN [records[i] EXCEPT !.superseded = id] ELSE records[i]
  BY <1>2 DEF Superseded
<1> HIDE DEF rows
<1>4. \A i \in DOMAIN records : /\ rows[i] \in RecordRow
                                /\ rows[i].subject = records[i].subject /\ rows[i].key = records[i].key
                                /\ rows[i].status = records[i].status /\ rows[i].capped = records[i].capped /\ rows[i].proposal = records[i].proposal
                                /\ rows[i].superseded = IF i = store[w].prev THEN id ELSE records[i].superseded
  <2> SUFFICES ASSUME NEW i \in DOMAIN records
               PROVE  /\ rows[i] \in RecordRow
                      /\ rows[i].subject = records[i].subject /\ rows[i].key = records[i].key
                      /\ rows[i].status = records[i].status /\ rows[i].capped = records[i].capped /\ rows[i].proposal = records[i].proposal
                      /\ rows[i].superseded = IF i = store[w].prev THEN id ELSE records[i].superseded
    OBVIOUS
  <2>1. records[i] \in RecordRow /\ id \in Nat
    BY <1>2
  <2>2. PICK y : y = [records[i] EXCEPT !.superseded = id]
    OBVIOUS
  <2>3. /\ y \in RecordRow /\ y.superseded = id /\ y.subject = records[i].subject /\ y.key = records[i].key
        /\ y.status = records[i].status /\ y.capped = records[i].capped /\ y.proposal = records[i].proposal
    BY <2>1, <2>2 DEF RecordRow
  <2> QED
    BY <1>3, <2>1, <2>2, <2>3
<1>5. NewRecord(w) \in RecordRow
  BY <1>1 DEF NewRecord, RecordRow, StoreRow
<1>6. rows \in Seq(RecordRow) /\ Len(rows) = Len(records)
  <2>1. rows = [i \in 1..Len(records) |-> rows[i]]
    BY <1>2, <1>3 DEF rows, Superseded
  <2>2. rows \in [1..Len(records) -> RecordRow]
    BY <1>2, <1>4, <2>1
  <2>3. rows \in Seq(RecordRow)
    BY <1>2, <2>2, SeqDef
  <2> QED
    BY <1>2, <1>3, <2>3, LenProperties
<1>7. /\ records' \in Seq(RecordRow) /\ DOMAIN records' = DOMAIN records \cup {id}
      /\ records'[id] = NewRecord(w) /\ \A i \in DOMAIN records : records'[i] = rows[i]
  <2>1. /\ records' \in Seq(RecordRow) /\ Len(records') = id
        /\ records'[id] = NewRecord(w) /\ \A i \in 1..Len(records) : records'[i] = rows[i]
    BY <1>1, <1>2, <1>5, <1>6, AppendProperties
  <2>2. DOMAIN records' = 1..id
    BY <2>1, LenProperties
  <2> QED
    BY <1>2, <2>1, <2>2
<1>8. ASSUME NEW s, s = store[w].subject PROVE Current(s)' = (Current(s) \ {store[w].prev}) \cup {id}
  <2>1. records'[id].subject = store[w].subject /\ records'[id].superseded = NULL /\ id # NULL
    BY <1>2, <1>7, EnrichmentConstants DEF NewRecord
  <2>3. {i \in DOMAIN records' : records'[i].subject = s /\ records'[i].superseded = NULL}
             \subseteq (Current(s) \ {store[w].prev}) \cup {id}
    BY <1>4, <1>7, <1>8, <2>1 DEF Current
  <2>4. (Current(s) \ {store[w].prev}) \cup {id}
             \subseteq {i \in DOMAIN records' : records'[i].subject = s /\ records'[i].superseded = NULL}
    BY <1>4, <1>7, <1>8, <2>1 DEF Current
  <2>5. {i \in DOMAIN records' : records'[i].subject = s /\ records'[i].superseded = NULL}
             = (Current(s) \ {store[w].prev}) \cup {id}
    BY <2>3, <2>4
  <2> QED
    BY <2>5 DEF Current
<1>9. ASSUME NEW t, t # store[w].subject PROVE Current(t)' = Current(t)
  <2>1. records'[id].subject # t
    BY <1>7, <1>9 DEF NewRecord
  <2>2. \A i \in DOMAIN records : records[i].subject = t => i # store[w].prev
    <3>1. ASSUME NEW i \in DOMAIN records, records[i].subject = t, i = store[w].prev PROVE FALSE
      <4>1. i # NULL
        BY <1>2, EnrichmentConstants
      <4> QED
        BY <1>1, <1>9, <3>1, <4>1 DEF HasRead
    <3> QED
      BY <3>1
  <2>3. \A i \in DOMAIN records : records[i].subject = t => records'[i].superseded = records[i].superseded
    BY <1>4, <1>7, <2>2
  <2> QED
    BY <1>4, <1>7, <2>1, <2>3 DEF Current
<1>10. id \notin DOMAIN records /\ \A i \in DOMAIN records : i \in Nat /\ i < id
  BY <1>2
<1> QED
  BY <1>1, <1>2, <1>4, <1>7, <1>8, <1>9, <1>10

(* A commit keeps what does not depend on who stored: the order of the     *)
(* records, and what other stores have read.                               *)
LEMMA CommitKeeps ==
  ASSUME Inv, NEW w \in Writer, StoreCommits(w), UNCHANGED overlapped,
         \A a \in Asker \ {w} : request'[a] = request[a]
  PROVE  /\ store' \in [Writer -> StoreRow \cup {NULL}]
         /\ StoreInv' /\ HasCurrent' /\ SerialStoreIsCurrent'
<1> DEFINE id == Len(records) + 1
<1>0. /\ Types /\ StoreInv /\ HasCurrent /\ SerialStoreIsCurrent
      /\ store \in [Writer -> StoreRow \cup {NULL}]
  BY DEF Inv, Types
<1>1. PICK s : s = store[w].subject
  OBVIOUS
<1>2. /\ store[w] \in StoreRow /\ HasRead(w) /\ store[w] # NULL /\ s \in Subject /\ store[w].key \in Key
      /\ id \in Nat /\ id \notin DOMAIN records /\ \A i \in DOMAIN records : i \in Nat /\ i < id
      /\ DOMAIN records' = DOMAIN records \cup {id} /\ records'[id] = NewRecord(w)
      /\ \A i \in DOMAIN records : /\ records'[i].subject = records[i].subject
                                   /\ records'[i].key = records[i].key
                                   /\ records'[i].superseded =
                                        IF i = store[w].prev THEN id ELSE records[i].superseded
      /\ Current(s)' = (Current(s) \ {store[w].prev}) \cup {id}
      /\ \A t : t # s => Current(t)' = Current(t)
  BY <1>1, CommitWrites DEF StoreRow, StoreCommits
<1>3. records'[id].subject = s /\ records'[id].key = store[w].key /\ records'[id].superseded = NULL
  BY <1>1, <1>2 DEF NewRecord
<1>4. store' = [store EXCEPT ![w] = NULL]
  BY DEF StoreCommits
<1> HIDE DEF id
<1>6. store' \in [Writer -> StoreRow \cup {NULL}] /\ store'[w] = NULL /\ \A v \in Writer \ {w} : store'[v] = store[v]
  BY <1>0, <1>4
<1>7. StoreInv'
  <2> SUFFICES ASSUME NEW v \in Writer, store'[v] # NULL PROVE HasRead(v)'
    BY DEF StoreInv
  <2>1. HasRead(v) /\ store'[v] = store[v] /\ v # w /\ (v \in Asker => request'[v] = request[v])
    BY <1>0, <1>6 DEF StoreInv
  <2>2. store[v].subject \notin overlapped => store[v].subject # s
    BY <1>1, <1>2, <2>1 DEF HasRead
  <2>3. \A u \in Writer : store'[u] # NULL => store[u] # NULL /\ store[u].subject = store'[u].subject
    BY <1>6
  <2>4. PICK t, q : t = store[v].subject /\ q = store[v].prev
    OBVIOUS
  <2>5. t \notin overlapped => Current(t)' = Current(t)
    BY <1>2, <2>2, <2>4
  <2>6. /\ q # NULL => q \in DOMAIN records' /\ records'[q].subject = t
        /\ v \in Asker => /\ request'[v] # NULL /\ request'[v].status = "REQUESTED"
                          /\ request'[v].found /\ request'[v].subject = t
    BY <1>2, <2>1, <2>4 DEF HasRead
  <2>7. t \notin overlapped =>
          /\ \A u \in Writer : (store'[u] # NULL /\ store'[u].subject = t) => u = v
          /\ IF q = NULL THEN Current(t)' = {} ELSE q \in Current(t)'
    BY <2>1, <2>3, <2>4, <2>5 DEF HasRead
  <2> QED
    BY <2>1, <2>4, <2>6, <2>7 DEF HasRead
<1>8. HasCurrent'
  <2> SUFFICES ASSUME NEW i \in DOMAIN records', NEW t, t = records'[i].subject PROVE Current(t)' # {}
    BY DEF HasCurrent
  <2>1. CASE t = s
    BY <1>2, <2>1
  <2>2. CASE t # s
    <3>1. i \in DOMAIN records /\ records[i].subject = t
      BY <1>2, <1>3, <2>2
    <3> QED
      BY <1>0, <1>2, <2>2, <3>1 DEF HasCurrent
  <2> QED
    BY <2>1, <2>2
<1>9. SerialStoreIsCurrent'
  <2> SUFFICES ASSUME NEW t \in Subject \ overlapped, NEW i \in DOMAIN records', records'[i].subject = t
               PROVE  records'[i].superseded = NULL <=> \A j \in DOMAIN records' : records'[j].subject = t => j <= i
    BY DEF SerialStoreIsCurrent
  <2>1. CASE t # s
    <3>1. i \in DOMAIN records /\ records[i].subject = t
      BY <1>2, <1>3, <2>1
    <3>2. \A j \in DOMAIN records' : records'[j].subject = t <=> j \in DOMAIN records /\ records[j].subject = t
      BY <1>2, <1>3, <2>1
    <3>3. i # store[w].prev
      <4>1. i # NULL
        BY <1>2, <3>1, EnrichmentConstants
      <4> QED
        BY <1>1, <1>2, <2>1, <3>1, <4>1 DEF HasRead
    <3>4. records'[i].superseded = records[i].superseded
      BY <1>2, <3>1, <3>3
    <3>5. records[i].superseded = NULL <=> \A j \in DOMAIN records : records[j].subject = t => j <= i
      BY <1>0, <3>1 DEF SerialStoreIsCurrent
    <3>6. (\A j \in DOMAIN records' : records'[j].subject = t => j <= i)
            <=> (\A j \in DOMAIN records : records[j].subject = t => j <= i)
      <4>1. DOMAIN records \subseteq DOMAIN records'
        BY <1>2
      <4> QED
        BY <3>2, <4>1
    <3> QED
      BY <3>4, <3>5, <3>6
  <2>2. CASE t = s /\ i = id
    BY <1>2, <1>3, <2>2
  <2>3. CASE t = s /\ i # id
    <3>1. i \in DOMAIN records /\ records[i].subject = s /\ i < id
      BY <1>2, <2>3
    <3>2. ~ \A j \in DOMAIN records' : records'[j].subject = t => j <= i
      <4>1. id \in DOMAIN records' /\ records'[id].subject = t /\ id \in Nat /\ i \in Nat
        BY <1>2, <1>3, <2>3, <3>1
      <4> QED
        BY <3>1, <4>1
    <3>3. Current(s) # {} /\ store[w].prev \in Current(s)
      <4>1. Current(s) # {}
        BY <1>0, <3>1 DEF HasCurrent
      <4> QED
        BY <1>1, <1>2, <2>3, <4>1 DEF HasRead
    <3>4. PICK q \in DOMAIN records : q = store[w].prev /\ records[q].subject = s /\ records[q].superseded = NULL
      BY <3>3 DEF Current
    <3>5. \A j \in DOMAIN records : records[j].subject = s => j <= q
      BY <1>0, <2>3, <3>4 DEF SerialStoreIsCurrent
    <3>6. records[i].superseded = NULL => q <= i
      BY <1>0, <2>3, <3>1, <3>4 DEF SerialStoreIsCurrent
    <3>7. records[i].superseded = NULL => i = q
      BY <1>2, <3>1, <3>4, <3>5, <3>6
    <3>8. records'[i].superseded # NULL
      <4>1. id # NULL
        BY <1>2, EnrichmentConstants
      <4> QED
        BY <1>2, <3>1, <3>4, <3>7, <4>1
    <3> QED
      BY <3>2, <3>8
  <2> QED
    BY <2>1, <2>2, <2>3
<1> QED
  BY <1>6, <1>7, <1>8, <1>9

(* An uncertain answer is proposed unless its match is under review or its *)
(* batch has used up its proposals.                                        *)
LEMMA CommitAsks ==
  ASSUME Inv, NEW w \in Writer, StoreCommits(w)
  PROVE  ReviewIsAsked'
<1> PICK id : id = Len(records) + 1
  OBVIOUS
<1>0. /\ ReviewIsAsked /\ batch.proposed \in Nat /\ batch.proposed <= MaxProposals /\ MaxProposals \in Nat
      /\ store[w].status \in {"AUTO_ACCEPTED", "NEEDS_REVIEW", "NO_MATCH"}
  BY CommitWrites, EnrichmentConstants DEF Inv, Types, BatchRow, StoreRow
<1>1. /\ id \in Nat /\ id \notin DOMAIN records /\ DOMAIN records' = DOMAIN records \cup {id}
      /\ \A i \in DOMAIN records : i \in Nat /\ i < id
      /\ records'[id] = NewRecord(w)
      /\ \A i \in DOMAIN records : /\ records'[i].subject = records[i].subject
                                   /\ records'[i].key = records[i].key
                                   /\ records'[i].status = records[i].status
                                   /\ records'[i].capped = records[i].capped
                                   /\ records'[i].proposal = records[i].proposal
  BY CommitWrites
<1>2. /\ records'[id].subject = store[w].subject /\ records'[id].key = store[w].key
      /\ records'[id].status = store[w].status
      /\ records'[id].capped = (store[w].status = "NEEDS_REVIEW" /\ ProposalsLeft(w) = 0)
      /\ records'[id].proposal = IF Proposes(w) THEN "PENDING" ELSE "NONE"
  BY <1>1 DEF NewRecord
<1>3. ProposalsLeft(w) > 0 \/ ProposalsLeft(w) = 0
  BY <1>0 DEF ProposalsLeft
<1>4. Open(store[w].subject, store[w].key) <=>
        \E j \in DOMAIN records : SameMatch(id, j)' /\ records[j].proposal = "PENDING"
  BY <1>1, <1>2 DEF Open, SameMatch
<1>5. /\ Proposes(w) => store[w].status = "NEEDS_REVIEW" /\ ~Open(store[w].subject, store[w].key)
      /\ store[w].status = "NEEDS_REVIEW" /\ ~Proposes(w) =>
           ProposalsLeft(w) = 0 \/ Open(store[w].subject, store[w].key)
  BY <1>3 DEF Proposes
<1>6. \A i, j \in DOMAIN records : SameMatch(i, j)' <=> SameMatch(i, j)
  BY <1>1 DEF SameMatch
<1>7. \A i, j : SameMatch(i, j)' => SameMatch(j, i)'
  BY DEF SameMatch
<1> SUFFICES ASSUME NEW i \in DOMAIN records'
             PROVE  /\ records'[i].status = "NEEDS_REVIEW" =>
                         \/ records'[i].capped
                         \/ \E j \in DOMAIN records' : j <= i /\ SameMatch(i, j)' /\ records'[j].proposal # "NONE"
                    /\ records'[i].proposal = "PENDING" =>
                         /\ records'[i].status = "NEEDS_REVIEW"
                         /\ \A j \in DOMAIN records' : SameMatch(i, j)' /\ records'[j].proposal = "PENDING" => i = j
                    /\ records'[i].status = "APPROVED" <=> records'[i].proposal = "APPLIED"
                    /\ records'[i].status = "REJECTED" <=> records'[i].proposal = "REJECTED"
  BY DEF ReviewIsAsked
<1>8. CASE i = id
  <2>1. CASE Proposes(w)
    <3>1. records'[i].proposal = "PENDING" /\ records'[i].status = "NEEDS_REVIEW" /\ i <= i /\ SameMatch(i, i)'
      BY <1>1, <1>2, <1>5, <1>8, <2>1 DEF SameMatch
    <3>2. \A j \in DOMAIN records' : SameMatch(i, j)' /\ records'[j].proposal = "PENDING" => i = j
      BY <1>1, <1>4, <1>5, <1>8, <2>1
    <3> QED
      BY <3>1, <3>2
  <2>2. CASE ~Proposes(w)
    <3>1. records'[i].proposal = "NONE" /\ records'[i].status \notin {"APPROVED", "REJECTED"}
      BY <1>0, <1>2, <1>8, <2>2
    <3>2. ASSUME records'[i].status = "NEEDS_REVIEW", ~records'[i].capped
          PROVE  \E j \in DOMAIN records' : j <= i /\ SameMatch(i, j)' /\ records'[j].proposal # "NONE"
      <4>1. PICK j \in DOMAIN records : SameMatch(id, j)' /\ records[j].proposal = "PENDING"
        BY <1>2, <1>4, <1>5, <1>8, <2>2, <3>2
      <4>2. j \in DOMAIN records' /\ j <= i /\ records'[j].proposal = "PENDING"
        BY <1>1, <1>8, <4>1
      <4> QED
        BY <1>8, <4>1, <4>2
    <3> QED
      BY <3>1, <3>2
  <2> QED
    BY <2>1, <2>2
<1>9. CASE i # id
  <2>1. i \in DOMAIN records
    BY <1>1, <1>9
  <2>2. /\ records[i].status = "NEEDS_REVIEW" =>
             \/ records[i].capped
             \/ \E j \in DOMAIN records : j <= i /\ SameMatch(i, j) /\ records[j].proposal # "NONE"
        /\ records[i].proposal = "PENDING" =>
             /\ records[i].status = "NEEDS_REVIEW"
             /\ \A j \in DOMAIN records : SameMatch(i, j) /\ records[j].proposal = "PENDING" => i = j
        /\ records[i].status = "APPROVED" <=> records[i].proposal = "APPLIED"
        /\ records[i].status = "REJECTED" <=> records[i].proposal = "REJECTED"
    BY <1>0, <2>1 DEF ReviewIsAsked
  <2>3. /\ records'[i].status = records[i].status /\ records'[i].capped = records[i].capped
        /\ records'[i].proposal = records[i].proposal
    BY <1>1, <2>1
  <2>4. (\E j \in DOMAIN records : j <= i /\ SameMatch(i, j) /\ records[j].proposal # "NONE") =>
          \E j \in DOMAIN records' : j <= i /\ SameMatch(i, j)' /\ records'[j].proposal # "NONE"
    BY <1>1, <1>6, <2>1
  <2>5. ASSUME records[i].proposal = "PENDING", NEW j \in DOMAIN records', SameMatch(i, j)', records'[j].proposal = "PENDING"
        PROVE  i = j
    <3>1. CASE j = id
      BY <1>2, <1>4, <1>5, <1>7, <2>1, <2>5, <3>1
    <3>2. CASE j # id
      BY <1>1, <1>6, <2>1, <2>2, <2>5, <3>2
    <3> QED
      BY <3>1, <3>2
  <2> QED
    BY <2>2, <2>3, <2>4, <2>5
<1> QED
  BY <1>8, <1>9

(* The store of a batch, whose proposals stay within the limit of a run.   *)
LEMMA BatchStoresKeeps == ASSUME Inv, BatchStores PROVE Inv'
<1>0. /\ Types /\ RequestInv /\ "batch" \in Writer /\ StoreCommits("batch")
      /\ UNCHANGED <<listed, request, overlapped>> /\ "batch" \notin Asker
      /\ batch \in BatchRow /\ batch.proposed <= MaxProposals /\ MaxProposals \in Nat
  BY EnrichmentConstants DEF BatchStores, Inv, Types, Writer
<1>1. /\ records' \in Seq(RecordRow) /\ DOMAIN records \subseteq DOMAIN records'
      /\ \A i \in DOMAIN records : records'[i].subject = records[i].subject
  BY <1>0, CommitWrites
<1>2. /\ store' \in [Writer -> StoreRow \cup {NULL}]
      /\ StoreInv' /\ HasCurrent' /\ SerialStoreIsCurrent'
  BY <1>0, CommitKeeps
<1>3. ReviewIsAsked'
  BY <1>0, CommitAsks
<1>4. batch' \in BatchRow /\ batch'.proposed <= MaxProposals
  <2>1. PICK n, d : n = (IF Proposes("batch") THEN 1 ELSE 0) /\ d = store["batch"].subject
    OBVIOUS
  <2>2. batch' = [batch EXCEPT !.todo = batch.todo \ {d}, !.proposed = batch.proposed + n]
    BY <2>1 DEF BatchStores
  <2>3. Proposes("batch") => MaxProposals - batch.proposed > 0
    BY DEF Proposes, ProposalsLeft
  <2>4. batch.proposed + n \in Nat /\ batch.proposed + n <= MaxProposals /\ batch.todo \ {d} \in SUBSET (Subject \ Unwanted)
    BY <1>0, <2>1, <2>3 DEF BatchRow
  <2> QED
    BY <1>0, <2>2, <2>4 DEF BatchRow
<1>5. RequestInv'
  BY <1>0, <1>1 DEF RequestInv
<1>6. Types'
  BY <1>0, <1>1, <1>2, <1>4 DEF Types
<1> QED
  BY <1>2, <1>3, <1>5, <1>6 DEF Inv

(* The store of a lookup ends its request.                                 *)
LEMMA AnswersKeeps == ASSUME Inv, NEW a \in Asker, Answers(a) PROVE Inv'
<1> DEFINE id == Len(records) + 1
<1>0. /\ Types /\ RequestInv /\ a \in Writer /\ StoreCommits(a) /\ store[a] # NULL
      /\ UNCHANGED <<listed, batch, overlapped>>
      /\ request \in [Asker -> RequestRow \cup {NULL}]
      /\ request' = [request EXCEPT ![a].status = "DONE", ![a].result = id]
  BY DEF Answers, StoreCommits, Inv, Types, Writer
<1>1. /\ records' \in Seq(RecordRow) /\ DOMAIN records' = DOMAIN records \cup {id} /\ HasRead(a) /\ id \in Nat
      /\ \A i \in DOMAIN records : records'[i].subject = records[i].subject
      /\ records'[id].subject = store[a].subject
  <2>1. /\ records' \in Seq(RecordRow) /\ DOMAIN records' = DOMAIN records \cup {id} /\ HasRead(a) /\ id \in Nat
        /\ \A i \in DOMAIN records : records'[i].subject = records[i].subject
        /\ records'[id] = NewRecord(a)
    BY <1>0, CommitWrites
  <2> QED
    BY <2>1 DEF NewRecord
<1>2. request[a] # NULL /\ request[a] \in RequestRow /\ request[a].subject = store[a].subject
  BY <1>0, <1>1 DEF HasRead
<1> HIDE DEF id
<1>3. PICK x : x = [request[a] EXCEPT !.status = "DONE", !.result = id]
  OBVIOUS
<1>4. x \in RequestRow /\ x.status = "DONE" /\ x.result = id /\ x.subject = request[a].subject
  BY <1>1, <1>2, <1>3 DEF RequestRow
<1>5. request' = [request EXCEPT ![a] = x]
  BY <1>0, <1>3
<1>6. /\ request' \in [Asker -> RequestRow \cup {NULL}] /\ request'[a] = x
      /\ \A b \in Asker \ {a} : request'[b] = request[b]
  BY <1>0, <1>4, <1>5
<1>7. /\ store' \in [Writer -> StoreRow \cup {NULL}]
      /\ StoreInv' /\ HasCurrent' /\ SerialStoreIsCurrent'
  BY <1>0, <1>6, CommitKeeps
<1>8. ReviewIsAsked'
  BY <1>0, CommitAsks
<1>9. RequestInv'
  <2> SUFFICES ASSUME NEW b \in Asker, request'[b] # NULL
               PROVE  /\ (request'[b].status = "DONE" <=> request'[b].result # NULL)
                      /\ request'[b].result # NULL => /\ request'[b].result \in DOMAIN records'
                                                      /\ records'[request'[b].result].subject = request'[b].subject
    BY DEF RequestInv
  <2>1. CASE b = a
    BY <1>1, <1>2, <1>4, <1>6, <2>1, EnrichmentConstants
  <2>2. CASE b # a
    BY <1>0, <1>1, <1>6, <2>2 DEF RequestInv
  <2> QED
    BY <2>1, <2>2
<1>10. Types'
  BY <1>0, <1>1, <1>6, <1>7 DEF Types
<1> QED
  BY <1>7, <1>8, <1>9, <1>10 DEF Inv

(* A decision gives its verdict to the record it was asked about.          *)
LEMMA DecideKeeps == ASSUME Inv, NEW d \in DOMAIN records, NEW approve \in BOOLEAN, Decide(d, approve) PROVE Inv'
<1> DEFINE verdict == IF approve THEN "APPROVED" ELSE "REJECTED"
           outcome == IF approve THEN "APPLIED" ELSE "REJECTED"
<1>0. /\ Types /\ RequestInv /\ StoreInv /\ HasCurrent /\ SerialStoreIsCurrent /\ ReviewIsAsked
      /\ records[d].proposal = "PENDING"
      /\ UNCHANGED <<listed, batch, request, store, overlapped>> /\ records \in Seq(RecordRow)
  BY DEF Decide, Inv, Types
<1>1. \/ verdict = "APPROVED" /\ outcome = "APPLIED"
      \/ verdict = "REJECTED" /\ outcome = "REJECTED"
  OBVIOUS
<1>2. records' = [records EXCEPT ![d].proposal = outcome, ![d].status = verdict]
  BY DEF Decide, Decided
<1> HIDE DEF verdict, outcome
<1>3. DOMAIN records = 1..Len(records) /\ Len(records) \in Nat /\ records[d] \in RecordRow
  BY <1>0, Table
<1>4. PICK x : x = [records[d] EXCEPT !.proposal = outcome, !.status = verdict]
  OBVIOUS
<1>5. /\ x \in RecordRow /\ x.subject = records[d].subject /\ x.key = records[d].key
      /\ x.superseded = records[d].superseded /\ x.capped = records[d].capped
      /\ x.status = verdict /\ x.proposal = outcome
  BY <1>1, <1>3, <1>4 DEF RecordRow
<1>6. records' = [records EXCEPT ![d] = x]
  BY <1>2, <1>4
<1>7. /\ DOMAIN records' = DOMAIN records /\ records' \in Seq(RecordRow)
      /\ records'[d] = x /\ \A i \in DOMAIN records \ {d} : records'[i] = records[i]
  <2>1. records' \in Seq(RecordRow)
    BY <1>0, <1>3, <1>5, <1>6, ExceptSeq
  <2> QED
    BY <1>0, <1>6, <2>1
<1>8. \A i \in DOMAIN records : /\ records'[i].subject = records[i].subject /\ records'[i].key = records[i].key
                                /\ records'[i].superseded = records[i].superseded
                                /\ records'[i].capped = records[i].capped
  BY <1>5, <1>7
<1>9. (\A s : Current(s)' = Current(s)) /\ HasCurrent' /\ SerialStoreIsCurrent'
  BY <1>0, <1>7, <1>8, CurrentStays
<1>10. Types' /\ RequestInv'
  BY <1>0, <1>7, <1>8 DEF Types, RequestInv
<1>11. StoreInv'
  BY <1>0, <1>7, <1>8, <1>9, ZenonT(60) DEF StoreInv, HasRead
<1>12. ReviewIsAsked'
  <2>1. \A i, j \in DOMAIN records : SameMatch(i, j)' <=> SameMatch(i, j)
    BY <1>8 DEF SameMatch
  <2>2. \A i \in DOMAIN records : /\ records'[i].proposal = "NONE" => records[i].proposal = "NONE"
                                  /\ records'[i].proposal = "PENDING" => i # d /\ records[i].proposal = "PENDING"
                                  /\ records'[i].status = "NEEDS_REVIEW" => i # d /\ records[i].status = "NEEDS_REVIEW"
    BY <1>1, <1>5, <1>7
  <2>3. \A i \in DOMAIN records : /\ (records'[i].status = "APPROVED" <=> records'[i].proposal = "APPLIED")
                                  /\ (records'[i].status = "REJECTED" <=> records'[i].proposal = "REJECTED")
    BY <1>0, <1>1, <1>5, <1>7 DEF ReviewIsAsked
  <2> SUFFICES ASSUME NEW i \in DOMAIN records
               PROVE  /\ records'[i].status = "NEEDS_REVIEW" =>
                           \/ records'[i].capped
                           \/ \E j \in DOMAIN records : j <= i /\ SameMatch(i, j) /\ records'[j].proposal # "NONE"
                      /\ records'[i].proposal = "PENDING" =>
                           /\ records'[i].status = "NEEDS_REVIEW"
                           /\ \A j \in DOMAIN records : SameMatch(i, j) /\ records'[j].proposal = "PENDING" => i = j
    BY <1>7, <2>1, <2>3 DEF ReviewIsAsked
  <2>4. /\ records[i].status = "NEEDS_REVIEW" =>
             \/ records[i].capped
             \/ \E j \in DOMAIN records : j <= i /\ SameMatch(i, j) /\ records[j].proposal # "NONE"
        /\ records[i].proposal = "PENDING" =>
             /\ records[i].status = "NEEDS_REVIEW"
             /\ \A j \in DOMAIN records : SameMatch(i, j) /\ records[j].proposal = "PENDING" => i = j
    BY <1>0 DEF ReviewIsAsked
  <2>5. i # d => records'[i] = records[i]
    BY <1>7
  <2> QED
    BY <1>8, <2>2, <2>4, <2>5
<1> QED
  BY <1>9, <1>10, <1>11, <1>12 DEF Inv

(* The passing of the refresh period touches nothing else.                 *)
LEMMA AgeKeeps == ASSUME Inv, Age PROVE Inv'
<1>0. /\ Types /\ UNCHANGED <<listed, batch, request, store, overlapped>>
      /\ records \in Seq(RecordRow) /\ Len(records) \in Nat /\ DOMAIN records = 1..Len(records)
      /\ \A i \in DOMAIN records : records[i] \in RecordRow
  BY Table DEF Age, Inv, Types
<1>1. DOMAIN records' = DOMAIN records /\ \A i \in DOMAIN records : records'[i] = [records[i] EXCEPT !.fresh = FALSE]
  BY DEF Age
<1>2. ASSUME NEW i \in DOMAIN records
      PROVE  /\ records'[i] \in RecordRow
             /\ records'[i].subject = records[i].subject /\ records'[i].key = records[i].key
             /\ records'[i].superseded = records[i].superseded /\ records'[i].capped = records[i].capped
             /\ records'[i].status = records[i].status /\ records'[i].proposal = records[i].proposal
  BY <1>0, <1>1, ZenonT(60) DEF RecordRow
<1>3. records' \in Seq(RecordRow)
  <2>1. records' = [i \in 1..Len(records) |-> records'[i]]
    BY <1>0 DEF Age
  <2>2. records' \in [1..Len(records) -> RecordRow]
    BY <1>0, <1>2, <2>1
  <2> QED
    BY <1>0, <2>2, SeqDef
<1>4. (\A s : Current(s)' = Current(s)) /\ HasCurrent' /\ SerialStoreIsCurrent'
  BY <1>0, <1>1, <1>2, CurrentStays DEF Inv
<1>5. Types' /\ RequestInv'
  BY <1>0, <1>1, <1>2, <1>3 DEF Types, Inv, RequestInv
<1>6. StoreInv'
  BY <1>0, <1>1, <1>2, <1>4 DEF Inv, StoreInv, HasRead
<1>7. ReviewIsAsked'
  BY <1>0, <1>1, <1>2 DEF Inv, ReviewIsAsked, SameMatch
<1> QED
  BY <1>4, <1>5, <1>6, <1>7 DEF Inv

(* The invariant holds at first and every step keeps it.                   *)
LEMMA InvInductive == /\ Init => Inv
                      /\ Inv /\ [Next]_vars => Inv'
<1>1. ASSUME Init PROVE Inv
  <2>0. NoBatch \in BatchRow /\ NoBatch.proposed = 0 /\ MaxProposals \in Nat
    BY EnrichmentConstants DEF NoBatch, BatchRow
  <2>1. records = <<>> /\ records \in Seq(RecordRow) /\ DOMAIN records = {}
    BY <1>1 DEF Init
  <2>2. Types
    BY <1>1, <2>0, <2>1 DEF Init, Types
  <2>3. RequestInv /\ StoreInv
    BY <1>1 DEF Init, RequestInv, StoreInv
  <2>4. HasCurrent /\ SerialStoreIsCurrent /\ ReviewIsAsked
    BY <2>1 DEF HasCurrent, SerialStoreIsCurrent, ReviewIsAsked
  <2> QED
    BY <2>2, <2>3, <2>4 DEF Inv
<1>2. ASSUME Inv, [Next]_vars PROVE Inv'
  <2>0. "batch" \in Writer /\ "batch" \notin Asker /\ Asker \subseteq Writer
    BY EnrichmentConstants DEF Writer
  <2>1. CASE UNCHANGED vars
    BY <1>2, <2>1 DEF vars, Inv, Types, RequestInv, StoreInv, HasRead, HasCurrent, Current,
                      SerialStoreIsCurrent, ReviewIsAsked, SameMatch
  <2>2. ASSUME NEW s \in Subject, Enriches(s) PROVE Inv'
    <3>1. /\ StoreReads("batch", s) /\ store["batch"] = NULL
          /\ UNCHANGED <<listed, records, batch, request>>
      BY <2>2 DEF Enriches, Turn
    <3> QED
      BY <1>2, <2>0, <3>1, ReadsKeep
  <2>3. ASSUME NEW a \in Asker, LookUp(a) PROVE Inv'
    <3>1. PICK s : s = request[a].subject
      OBVIOUS
    <3>2. /\ StoreReads(a, s) /\ store[a] = NULL
          /\ request[a] # NULL /\ request[a].status = "REQUESTED" /\ request[a].found
          /\ UNCHANGED <<listed, records, batch, request>>
      BY <2>3, <3>1 DEF LookUp, Waits
    <3>3. s \in Subject
      BY <1>2, <3>1, <3>2 DEF Inv, Types, RequestRow
    <3> QED
      BY <1>2, <2>0, <3>1, <3>2, <3>3, ReadsKeep
  <2>4. CASE \/ StartBatch \/ FinishBatch \/ StopBatch
             \/ \E s \in Subject : EnrichFails(s) \/ Delist(s)
             \/ \E a \in Asker : NotListed(a) \/ \E s \in Subject : Ask(a, s)
    BY <1>2, <2>4, OtherStepsKeep
  <2> QED
    BY <1>2, <2>1, <2>2, <2>3, <2>4, BatchStoresKeeps, AnswersKeeps, DecideKeeps, AgeKeeps DEF Next
<1> QED
  BY <1>1, <1>2

-----------------------------------------------------------------------------
(* What may become of a record: it keeps the answer, a superseded one never*)
(* is current again, and a verdict is given once, where one is asked for.  *)
RecordStep(p, q) ==
  /\ q.subject = p.subject /\ q.key = p.key /\ q.capped = p.capped
  /\ p.superseded # NULL => q.superseded # NULL
  /\ \/ q.status = p.status /\ q.proposal = p.proposal
     \/ /\ p.proposal = "PENDING"
        /\ <<q.status, q.proposal>> \in {<<"APPROVED", "APPLIED">>, <<"REJECTED", "REJECTED">>}

(* No step loses or rewrites a record.                                     *)
VerdictsAreFinal ==
  [][\A i \in DOMAIN records : i \in DOMAIN records' /\ RecordStep(records[i], records'[i])]_vars

(* A store adds a record and supersedes the one that it read.              *)
LEMMA CommitGoesOn ==
  ASSUME Inv, NEW w \in Writer, StoreCommits(w), NEW i \in DOMAIN records
  PROVE  i \in DOMAIN records' /\ RecordStep(records[i], records'[i])
<1>1. /\ Len(records) + 1 \in Nat /\ DOMAIN records' = DOMAIN records \cup {Len(records) + 1}
      /\ records'[i].subject = records[i].subject /\ records'[i].key = records[i].key
      /\ records'[i].status = records[i].status /\ records'[i].capped = records[i].capped
      /\ records'[i].proposal = records[i].proposal
      /\ records'[i].superseded =
           IF i = store[w].prev THEN Len(records) + 1 ELSE records[i].superseded
  BY CommitWrites
<1>2. Len(records) + 1 # NULL
  BY <1>1, EnrichmentConstants
<1> QED
  BY <1>1, <1>2 DEF RecordStep

(* A verdict changes the record that was shown, and no other.              *)
LEMMA DecideGoesOn ==
  ASSUME Inv, NEW d \in DOMAIN records, NEW approve \in BOOLEAN, Decide(d, approve),
         NEW i \in DOMAIN records
  PROVE  i \in DOMAIN records' /\ RecordStep(records[i], records'[i])
<1>1. /\ records \in Seq(RecordRow) /\ records[d] \in RecordRow /\ records[d].proposal = "PENDING"
  BY Table DEF Inv, Types, Decide
<1> DEFINE verdict == IF approve THEN "APPROVED" ELSE "REJECTED"
           outcome == IF approve THEN "APPLIED" ELSE "REJECTED"
<1>2. /\ <<verdict, outcome>> \in {<<"APPROVED", "APPLIED">>, <<"REJECTED", "REJECTED">>}
      /\ records' = [records EXCEPT ![d].proposal = outcome, ![d].status = verdict]
  BY DEF Decide, Decided
<1> HIDE DEF verdict, outcome
<1>3. PICK x : x = [records[d] EXCEPT !.proposal = outcome, !.status = verdict]
  OBVIOUS
<1>4. /\ x.subject = records[d].subject /\ x.key = records[d].key
      /\ x.superseded = records[d].superseded /\ x.capped = records[d].capped
      /\ x.status = verdict /\ x.proposal = outcome
  BY <1>1, <1>3 DEF RecordRow
<1>5. records' = [records EXCEPT ![d] = x]
  BY <1>2, <1>3
<1>6. DOMAIN records' = DOMAIN records /\ records'[i] = IF i = d THEN x ELSE records[i]
  BY <1>5
<1>7. CASE i = d
  BY <1>1, <1>2, <1>4, <1>6, <1>7 DEF RecordStep
<1>8. CASE i # d
  BY <1>6, <1>8 DEF RecordStep
<1> QED
  BY <1>7, <1>8

(* The refresh period only makes records old.                              *)
LEMMA AgeGoesOn ==
  ASSUME Inv, Age, NEW i \in DOMAIN records
  PROVE  i \in DOMAIN records' /\ RecordStep(records[i], records'[i])
<1>1. records[i] \in RecordRow
  BY Table DEF Inv
<1>2. PICK x : x = [records[i] EXCEPT !.fresh = FALSE]
  OBVIOUS
<1>3. i \in DOMAIN records' /\ records'[i] = x
  BY <1>2 DEF Age
<1>4. /\ x.subject = records[i].subject /\ x.key = records[i].key /\ x.capped = records[i].capped
      /\ x.superseded = records[i].superseded /\ x.status = records[i].status
      /\ x.proposal = records[i].proposal
  BY <1>1, <1>2 DEF RecordRow
<1> QED
  BY <1>3, <1>4 DEF RecordStep

-----------------------------------------------------------------------------
(* Every reachable state satisfies the inductive invariant.                *)
THEOREM Invariance == Spec => []Inv
  BY InvInductive, PTL DEF Spec

(* The tables keep their types, no batch proposes more than a run may, and *)
(* a request that is DONE names a record of the subject it asked about     *)
(* (store_result, enrich_on_demand).                                       *)
THEOREM EnrichmentTypeCorrect == Spec => []EnrichmentTypeOK
<1>1. Inv => EnrichmentTypeOK
  BY TypesSuffice DEF Inv
<1> QED
  BY <1>1, Invariance, PTL

(* For any number of subjects, lookups and batches: where the stores of a  *)
(* subject do not overlap, its last record is its only current one         *)
(* (store_result).                                                         *)
THEOREM LastStoredIsCurrent == Spec => []SerialStoreIsCurrent
<1>1. Inv => SerialStoreIsCurrent
  BY DEF Inv
<1> QED
  BY <1>1, Invariance, PTL

(* No uncertain match is put aside without a proposal, its own or an       *)
(* earlier one, unless the batch had used up its proposals; a match is     *)
(* never asked about twice at once, and a verdict stands on the record the *)
(* reviewer was shown (store_result, add_proposal, decide).                *)
THEOREM UncertainIsReviewed == Spec => []ReviewIsAsked
<1>1. Inv => ReviewIsAsked
  BY DEF Inv
<1> QED
  BY <1>1, Invariance, PTL

(* A subject that a provider ever answered about always has a current      *)
(* record, even where stores overlap and leave two (store_result).         *)
THEOREM AnsweredStaysAnswered == Spec => []HasCurrent
<1>1. Inv => HasCurrent
  BY DEF Inv
<1> QED
  BY <1>1, Invariance, PTL

(* The answers are an append-only history, overlapping stores or not: a    *)
(* record keeps its answer, a superseded one never is current again, and a *)
(* verdict is given once and only on a record whose proposal waits for it  *)
(* (store_result, decide).                                                 *)
THEOREM VerdictsStand == Spec => VerdictsAreFinal
<1>1. ASSUME Inv, [Next]_vars
      PROVE  [\A i \in DOMAIN records : i \in DOMAIN records' /\ RecordStep(records[i], records'[i])]_vars
  <2>1. UNCHANGED records => \A i \in DOMAIN records : i \in DOMAIN records' /\ RecordStep(records[i], records'[i])
    BY DEF RecordStep
  <2>2. ASSUME BatchStores \/ \E a \in Asker : Answers(a)
        PROVE  \A i \in DOMAIN records : i \in DOMAIN records' /\ RecordStep(records[i], records'[i])
    <3>1. PICK w \in Writer : StoreCommits(w)
      BY <2>2 DEF BatchStores, Answers, Writer
    <3> QED
      BY <1>1, <3>1, CommitGoesOn
  <2>3. ASSUME NEW d \in DOMAIN records, NEW approve \in BOOLEAN, Decide(d, approve)
        PROVE  \A i \in DOMAIN records : i \in DOMAIN records' /\ RecordStep(records[i], records'[i])
    BY <1>1, <2>3, DecideGoesOn
  <2>4. ASSUME Age PROVE \A i \in DOMAIN records : i \in DOMAIN records' /\ RecordStep(records[i], records'[i])
    BY <1>1, <2>4, AgeGoesOn
  <2>5. ASSUME \/ StartBatch \/ FinishBatch \/ StopBatch
               \/ \E s \in Subject : Enriches(s) \/ EnrichFails(s) \/ Delist(s)
               \/ \E a \in Asker : NotListed(a) \/ LookUp(a) \/ \E s \in Subject : Ask(a, s)
               \/ UNCHANGED vars
        PROVE  UNCHANGED records
    BY <2>5 DEF StartBatch, FinishBatch, StopBatch, Enriches, EnrichFails, Delist, NotListed, LookUp, Ask, vars
  <2> QED
    BY <1>1, <2>1, <2>2, <2>3, <2>4, <2>5 DEF Next
<1> QED
  BY <1>1, Invariance, PTL DEF Spec, VerdictsAreFinal
=============================================================================
