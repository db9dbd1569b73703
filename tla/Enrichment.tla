----------------------------- MODULE Enrichment -----------------------------
(***************************************************************************)
(* Free enrichment of listed parties (Level 2): what one provider answers  *)
(* about each subject, stored by the ENRICHMENT_BATCH run of its source    *)
(* (batch.py, enrichment_batch) and by reviewers who look one hit up       *)
(* (enrich_on_demand), and decided in the review queue when the match is   *)
(* uncertain (review.py, decide).                                          *)
(*                                                                         *)
(* The two writers share store_result, which reads the current record,     *)
(* inserts the new one and marks the one it read as superseded: three      *)
(* READ COMMITTED statements without a lock.  A store is therefore two     *)
(* steps here, StoreReads when the answer arrives and Commit.              *)
(*                                                                         *)
(* Subjects are numbers: a larger one was created later.                   *)
(***************************************************************************)
EXTENDS Naturals, Sequences, FiniteSets

CONSTANTS
  Subject,        \* the listed parties of the configured entity types
  Unwanted,       \* those of them that Enricher.wants filters out
  Removable,      \* those of them that a newer list version may drop
  Key,            \* provider_key: whom the provider says it is
  KeysOf,         \* [Subject -> SUBSET Key]: those it may say of a subject
  Answer,         \* the statuses the provider's answers lead to
  Asker,          \* on-demand lookups
  BatchSize,      \* config.batch_size
  MaxErrors,      \* failed subjects a batch bears (a quarter of it, 10 at least)
  MaxProposals,   \* MAX_REVIEW_PROPOSALS_PER_RUN (50)
  MaxAges,        \* bound: how often refresh_days pass
  MaxStops,       \* bound: batches that crash or are cancelled
  NULL

ASSUME EnrichmentConstants ==
  /\ Subject \subseteq Nat /\ IsFiniteSet(Subject) /\ Unwanted \cup Removable \subseteq Subject
  /\ KeysOf \in [Subject -> SUBSET Key]
  /\ Answer \subseteq {"AUTO_ACCEPTED", "NEEDS_REVIEW", "NO_MATCH"}
  /\ {BatchSize, MaxErrors, MaxProposals, MaxAges, MaxStops} \subseteq Nat
  /\ "batch" \notin Asker /\ NULL \notin Asker \cup Nat

Writer == {"batch"} \cup Asker

VARIABLES
  listed,      \* subjects with a current record_version
  records,     \* enrichment_record, by enrichment_id, each with the status of the
               \* ENRICHMENT_MATCH proposal that was made for it (proposed_change_id)
  batch,       \* the run of the provider's source
  request,     \* [Asker -> enrichment_request or NULL]
  store,       \* [Writer -> the store_result in progress or NULL]
  ages, stops, \* counters of the bounds
  overlapped   \* history: subjects of which two stores ran at once

vars == <<listed, records, batch, request, store, ages, stops, overlapped>>

NoBatch == [running |-> FALSE, todo |-> {}, errors |-> 0, proposed |-> 0]

Init ==
  /\ listed = Subject
  /\ records = <<>>
  /\ batch = NoBatch
  /\ request = [a \in Asker |-> NULL]
  /\ store = [w \in Writer |-> NULL]
  /\ ages = 0 /\ stops = 0
  /\ overlapped = {}

(* superseded_by IS NULL *)
Current(s) ==
  {i \in DOMAIN records : records[i].subject = s /\ records[i].superseded = NULL}

HasRecent(s) == \E i \in Current(s) : records[i].fresh

(* Enricher.subjects: the newest of those without a recent current record, *)
(* cut to the batch size before the unwanted ones are taken out.           *)
Due == {s \in listed : ~HasRecent(s)}
Newest(n, S) == {s \in S : Cardinality({t \in S : t > s}) < n}
Subjects == Newest(BatchSize, Due) \ Unwanted

StartBatch ==
  /\ ~batch.running
  /\ batch' = [NoBatch EXCEPT !.running = TRUE, !.todo = Subjects]
  /\ UNCHANGED <<listed, records, request, store, ages, stops, overlapped>>

Turn(s) == batch.running /\ store["batch"] = NULL /\ s \in Newest(1, batch.todo)

(* enrich returns; the transaction of store_result reads the record it     *)
(* will supersede.                                                         *)
StoreReads(w, s) ==
  /\ \E answer \in Answer, k \in KeysOf[s], prev \in
          IF Current(s) = {} THEN {NULL} ELSE Current(s) :
       store' = [store EXCEPT ![w] =
                   [subject |-> s, status |-> answer, key |-> k, prev |-> prev]]
  /\ overlapped' = overlapped \cup
       {t \in {s} : \E v \in Writer \ {w} : store[v] # NULL /\ store[v].subject = t}

Enriches(s) ==
  /\ Turn(s)
  /\ StoreReads("batch", s)
  /\ UNCHANGED <<listed, records, batch, request, ages, stops>>

(* A FetchError or an unexpected response: counted, and the batch goes on  *)
(* to the next subject until there are too many, or the provider refuses   *)
(* us (403, host not allowed, TLS).                                        *)
EnrichFails(s) ==
  /\ Turn(s)
  /\ \E refused \in BOOLEAN :
       batch' = IF refused \/ batch.errors = MaxErrors THEN NoBatch
                ELSE [batch EXCEPT !.todo = @ \ {s}, !.errors = @ + 1]
  /\ UNCHANGED <<listed, records, request, store, ages, stops, overlapped>>

(* The proposals a writer may still make.                                  *)
ProposalsLeftPerStore(w) == 1
ProposalsLeft(w) == IF w = "batch" THEN MaxProposals - batch.proposed ELSE 1

(* ux_proposed_change_open_dedupe: none while the match has an open one    *)
(* (ON CONFLICT DO NOTHING); once that is decided, there may be another.   *)
Open(s, k) ==
  \E i \in DOMAIN records :
    records[i].subject = s /\ records[i].key = k /\ records[i].proposal = "PENDING"

Proposes(w) ==
  /\ store[w].status = "NEEDS_REVIEW"
  /\ ProposalsLeft(w) > 0
  /\ ~Open(store[w].subject, store[w].key)

NewRecord(w) ==
  [subject |-> store[w].subject, key |-> store[w].key, status |-> store[w].status,
   fresh |-> TRUE, superseded |-> NULL, proposal |-> IF Proposes(w) THEN "PENDING" ELSE "NONE",
   capped |-> store[w].status = "NEEDS_REVIEW" /\ ProposalsLeft(w) = 0]

SupersededNone(rows, prev, id) == rows
Superseded(rows, prev, id) ==
  [i \in DOMAIN rows |-> IF i = prev THEN [rows[i] EXCEPT !.superseded = id] ELSE rows[i]]

StoreCommits(w) ==
  LET id == Len(records) + 1 IN
  /\ store[w] # NULL
  /\ records' = Append(Superseded(records, store[w].prev, id), NewRecord(w))
  /\ store' = [store EXCEPT ![w] = NULL]

BatchStores ==
  /\ StoreCommits("batch")
  /\ batch' = [batch EXCEPT !.todo = @ \ {store["batch"].subject},
                            !.proposed = @ + IF Proposes("batch") THEN 1 ELSE 0]
  /\ UNCHANGED <<listed, request, ages, stops, overlapped>>

FinishBatch ==
  /\ batch.running /\ batch.todo = {}
  /\ batch' = NoBatch
  /\ UNCHANGED <<listed, records, request, store, ages, stops, overlapped>>

(* check_cancel, or the executor dies: the open transaction rolls back,    *)
(* and a run that takes the batch up starts it from the beginning.         *)
StopBatch ==
  /\ batch.running /\ stops < MaxStops
  /\ stops' = stops + 1
  /\ batch' = NoBatch
  /\ store' = [store EXCEPT !["batch"] = NULL]
  /\ UNCHANGED <<listed, records, request, ages, overlapped>>

-----------------------------------------------------------------------------
(* enrich_on_demand                                                        *)
Ask(a, s) ==
  /\ request[a] = NULL
  /\ request' = [request EXCEPT ![a] = [subject |-> s, status |-> "REQUESTED",
                                        found |-> s \in listed, result |-> NULL]]
  /\ UNCHANGED <<listed, records, batch, store, ages, stops, overlapped>>

Waits(a) == request[a] # NULL /\ request[a].status = "REQUESTED"

NotListed(a) ==
  /\ Waits(a) /\ ~request[a].found
  /\ request' = [request EXCEPT ![a].status = "FAILED"]
  /\ UNCHANGED <<listed, records, batch, store, ages, stops, overlapped>>

LookUp(a) ==
  /\ Waits(a) /\ request[a].found /\ store[a] = NULL
  /\ StoreReads(a, request[a].subject)
  /\ UNCHANGED <<listed, records, batch, request, ages, stops>>

Answers(a) ==
  /\ StoreCommits(a)
  /\ request' = [request EXCEPT ![a].status = "DONE", ![a].result = Len(records) + 1]
  /\ UNCHANGED <<listed, batch, ages, stops, overlapped>>

-----------------------------------------------------------------------------
(* decide, for ENRICHMENT_MATCH: the record named in the payload, current  *)
(* or not.                                                                 *)
DecidedCurrent(i) == CHOOSE j \in Current(records[i].subject) : TRUE
Decided(i) == i

Decide(i, approve) ==
  /\ records[i].proposal = "PENDING"
  /\ records' = [records EXCEPT
                   ![i].proposal = IF approve THEN "APPLIED" ELSE "REJECTED",
                   ![Decided(i)].status = IF approve THEN "APPROVED" ELSE "REJECTED"]
  /\ UNCHANGED <<listed, batch, request, store, ages, stops, overlapped>>

(* refresh_days pass for every record there is.                            *)
Age ==
  /\ ages < MaxAges
  /\ \E i \in DOMAIN records : records[i].fresh
  /\ ages' = ages + 1
  /\ records' = [i \in DOMAIN records |-> [records[i] EXCEPT !.fresh = FALSE]]
  /\ UNCHANGED <<listed, batch, request, store, stops, overlapped>>

(* A newer list version no longer carries the subject.                     *)
Delist(s) ==
  /\ s \in listed \cap Removable
  /\ listed' = listed \ {s}
  /\ UNCHANGED <<records, batch, request, store, ages, stops, overlapped>>

Next ==
  \/ StartBatch \/ BatchStores \/ FinishBatch \/ StopBatch \/ Age
  \/ \E s \in Subject : Enriches(s) \/ EnrichFails(s) \/ Delist(s)
  \/ \E a \in Asker : NotListed(a) \/ LookUp(a) \/ Answers(a) \/ \E s \in Subject : Ask(a, s)
  \/ \E i \in DOMAIN records, approve \in BOOLEAN : Decide(i, approve)

Spec == Init /\ [][Next]_vars

(* The planner pulls the provider again and again and executors run what   *)
(* they claim; a provider that is asked about a subject often enough       *)
(* answers some time.                                                      *)
FairSpec ==
  /\ Spec
  /\ WF_vars(StartBatch) /\ WF_vars(BatchStores) /\ WF_vars(FinishBatch)
  /\ \A s \in Subject \ Unwanted : SF_vars(Enriches(s)) /\ WF_vars(Enriches(s) \/ EnrichFails(s))

-----------------------------------------------------------------------------
RecordRow ==
  [subject : Subject, key : Key, fresh : BOOLEAN, superseded : Nat \cup {NULL}, capped : BOOLEAN,
   status : Answer \cup {"APPROVED", "REJECTED"},
   proposal : {"NONE", "PENDING", "APPLIED", "REJECTED"}]

(* Every row has the type its table gives it, no batch makes more          *)
(* proposals than a run may, and a request that is DONE names a record of  *)
(* the subject it asked about.                                             *)
EnrichmentTypeOK ==
  /\ listed \subseteq Subject /\ overlapped \subseteq Subject
  /\ records \in Seq(RecordRow)
  /\ batch.todo \subseteq Subject \ Unwanted /\ batch.proposed <= MaxProposals
  /\ \A a \in Asker : request[a] # NULL =>
       (request[a].status = "DONE" <=> request[a].result # NULL)
  /\ \A a \in Asker : request[a] # NULL /\ request[a].result # NULL =>
       records[request[a].result].subject = request[a].subject

(* However batches, restarts and lookups follow each other, a subject has  *)
(* at most one current record of the provider, and it is the last one      *)
(* stored, as long as no two stores of the subject ran at once: nothing    *)
(* locks the subject in store_result, so two that overlap leave two.       *)
SerialStoreIsCurrent ==
  \A s \in Subject \ overlapped, i \in DOMAIN records :
    records[i].subject = s =>
      (records[i].superseded = NULL <=>
         \A j \in DOMAIN records : records[j].subject = s => j <= i)

(* An uncertain match is never put aside silently: a NEEDS_REVIEW record   *)
(* is under review, or one with its match that is no newer has been,       *)
(* unless its batch had used up its proposals.  A verdict stands on the    *)
(* record the reviewer was shown, and on no other, and a match is never    *)
(* asked about twice at once.                                              *)
SameMatch(i, j) == records[i].subject = records[j].subject /\ records[i].key = records[j].key

ReviewIsAsked ==
  \A i \in DOMAIN records :
    /\ records[i].status = "NEEDS_REVIEW" =>
         \/ records[i].capped
         \/ \E j \in DOMAIN records : j <= i /\ SameMatch(i, j) /\ records[j].proposal # "NONE"
    /\ records[i].proposal = "PENDING" =>
         /\ records[i].status = "NEEDS_REVIEW"
         /\ \A j \in DOMAIN records : SameMatch(i, j) /\ records[j].proposal = "PENDING" => i = j
    /\ records[i].status = "APPROVED" <=> records[i].proposal = "APPLIED"
    /\ records[i].status = "REJECTED" <=> records[i].proposal = "REJECTED"

(* The provider covers the parties it is configured for (README.md:4,       *)
(* config/sources.yaml): every wanted subject that stays listed gets a     *)
(* recent record again and again.  False: wants() filters what is left     *)
(* after the LIMIT, an unwanted subject never gets a record, so as many of *)
(* them as a batch is long keep its places and every older subject waits.  *)
WantedAreEnriched ==
  \A s \in Subject \ Unwanted : []<>(s \notin listed \/ HasRecent(s))
=============================================================================
