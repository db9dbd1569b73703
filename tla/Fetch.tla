-------------------------------- MODULE Fetch --------------------------------
(***************************************************************************)
(* One source's downloads and the blob store they end in: http/client.py,  *)
(* http/guard.py and http/errors.py as pipeline/runner.py drives them, and *)
(* storage/blobstore.py, which the enrichers, the notices and the CLI      *)
(* write to at the same time.  The queue runs one pull of a source at a    *)
(* time (RunQueue), so the pull is one record.  Durations are left out: a  *)
(* wait between two attempts ends at some time.                            *)
(***************************************************************************)
EXTENDS Integers

CONSTANTS
  Bytes,           \* files, told apart by their SHA-256
  Host, Allowed,   \* hosts, and those on both allow-lists
  Writer,          \* other threads that archive
  MaxAttempts, MaxRedirects,
  NULL

ASSUME FetchAssumption ==
  /\ Allowed \subseteq Host /\ NULL \notin Bytes \cup Host
  /\ MaxAttempts \in Nat \ {0} /\ MaxRedirects \in Nat
ASSUME WriterAssumption == "pull" \notin Writer

VARIABLES
  serves,      \* the file the publisher serves
  pull,        \* the pull that runs, or NoPull
  evidence,    \* files that a row of fetch_evidence with status 200 names
  artifact,    \* rows of raw_artifact
  reparsed,    \* files that the options of a run name (reparse_sha256): a re-parse or a manual load
  held,        \* raw_sha256 of the versions that were held
  published,   \* raw_sha256 of the published version
  blob,        \* files of the blob store under their hash: absent, or what they hold
  put          \* put_file in progress, by thread

vars == <<serves, pull, evidence, artifact, reparsed, held, published, blob, put>>

\* error classes by what the retry loop makes of them
Retryable == {"TRANSIENT_NETWORK", "HTTP_5XX", "HTTP_429", "EMPTY_BODY"}
Fatal == {"HTTP_4XX", "TLS_ERROR", "HOST_NOT_ALLOWED", "REDIRECT_BLOCKED", "TOO_MANY_REDIRECTS",
          "TOO_LARGE", "CANCELLED"}

Pull ==
  [phase       : {"IDLE", "CHECK", "REQUEST", "BODY", "FAILED", "WAIT", "ARCHIVE", "DECIDE",
                  "UNCHANGED", "PARSE"},
   host        : Host \cup {NULL},
   hops        : 0..MaxRedirects,
   attempt     : 0..MaxAttempts,
   retry       : BOOLEAN,               \* whether the error of the failed attempt is retryable
   conditional : Bytes \cup {NULL},     \* the file whose validators are sent
   got         : Bytes \cup {NULL},
   rows        : 0..MaxAttempts,        \* its rows of fetch_evidence
   cancel      : BOOLEAN,               \* cancel_requested_at
   late        : 0..MaxAttempts]        \* attempts begun after the cancel request

NoPull == [phase |-> "IDLE", host |-> NULL, hops |-> 0, attempt |-> 0, retry |-> FALSE,
           conditional |-> NULL, got |-> NULL, rows |-> 0, cancel |-> FALSE, late |-> 0]

Thread == Writer \cup {"pull"}
Put == [step : {"NONE", "LOOK", "COPY", "LINK", "DONE"}, file : Bytes \cup {NULL}]
NoPut == [step |-> "NONE", file |-> NULL]

\* Type invariant.
FetchTypeOK ==
  /\ serves \in Bytes
  /\ pull \in Pull
  /\ {evidence, artifact, reparsed, held} \subseteq SUBSET Bytes
  /\ published \in Bytes \cup {NULL}
  /\ blob \in [Bytes -> {"ABSENT", "PARTIAL", "COMPLETE"}]
  /\ put \in [Thread -> Put]

Init ==
  /\ serves \in Bytes
  /\ pull = NoPull /\ evidence = {} /\ artifact = {} /\ reparsed = {} /\ held = {} /\ published = NULL
  /\ blob = [b \in Bytes |-> "ABSENT"]
  /\ put = [t \in Thread |-> NoPut]

version == <<reparsed, held, published>>
stored == <<evidence, artifact, version, blob, put>>

-----------------------------------------------------------------------------
(* One attempt: fetch_to_file *)

\* Mutant: the validators of any archived file are sent, not those of the published one.
ValidatorsOfAny == evidence \cup {NULL}

\* The validators a conditional request may carry: those of a download of the published file, when
\* the publisher gave any.
Validators == {NULL} \cup (evidence \cap {published})

\* UrlGuard.check
Passes(host) == host \in Allowed

\* _fetch: an unconditional pull is one with force_refetch, or of a source that is not configured
\* for conditional GET.
StartPull ==
  /\ pull.phase = "IDLE"
  /\ \E host \in Host, validators \in Validators :
       pull' = [NoPull EXCEPT !.phase = "CHECK", !.host = host, !.attempt = 1,
                              !.conditional = validators]
  /\ UNCHANGED <<serves, stored>>

\* FetchError: nothing of the answer is kept.
Fail(error) ==
  pull' = [pull EXCEPT !.phase = "FAILED", !.host = NULL, !.got = NULL, !.retry = error \in Retryable]

\* The guard is asked before every hop.
Check ==
  /\ pull.phase = "CHECK"
  /\ IF Passes(pull.host) THEN pull' = [pull EXCEPT !.phase = "REQUEST"]
     ELSE Fail(IF pull.hops = 0 THEN "HOST_NOT_ALLOWED" ELSE "REDIRECT_BLOCKED")
  /\ UNCHANGED <<serves, stored>>

MayFollow == pull.hops < MaxRedirects

Redirected ==
  /\ pull.phase = "REQUEST"
  /\ IF MayFollow
       THEN \E host \in Host :
              pull' = [pull EXCEPT !.phase = "CHECK", !.host = host, !.hops = @ + 1]
       ELSE \E e \in {"TOO_MANY_REDIRECTS", "REDIRECT_BLOCKED"} : Fail(e)
  /\ UNCHANGED <<serves, stored>>

\* 304: the publisher still serves the file whose validators it was sent.
NotModified ==
  /\ pull.phase = "REQUEST"
  /\ pull.conditional = serves
  /\ pull' = [pull EXCEPT !.phase = "UNCHANGED", !.rows = @ + 1]
  /\ UNCHANGED <<serves, stored>>

\* 200 and the beginning of the body; the rest of it is read, or lost, or cancelled.
Answered ==
  /\ pull.phase = "REQUEST"
  /\ pull' = [pull EXCEPT !.phase = "BODY", !.got = serves]
  /\ UNCHANGED <<serves, stored>>

\* classify_status and the exceptions of the transport; a body may also be empty or too large.
RequestFails ==
  /\ \/ pull.phase = "REQUEST" /\ \E e \in {"TRANSIENT_NETWORK", "HTTP_5XX", "HTTP_429", "HTTP_4XX",
                                            "TLS_ERROR"} : Fail(e)
     \/ pull.phase = "BODY" /\ \E e \in {"TRANSIENT_NETWORK", "EMPTY_BODY", "TOO_LARGE"} : Fail(e)
     \/ pull.phase = "BODY" /\ pull.cancel /\ Fail("CANCELLED")
  /\ UNCHANGED <<serves, stored>>

-----------------------------------------------------------------------------
(* The retry loop: fetch_with_retry with on_attempt of the runner *)

\* Mutant: the cancel request is not asked for between attempts.
CancelNotAsked == FALSE

CancelSeen == pull.cancel

\* Mutant: one attempt too many.
AnotherAttemptOffByOne == pull.retry /\ pull.attempt <= MaxAttempts

AnotherAttempt == pull.retry /\ pull.attempt < MaxAttempts

\* A failed attempt leaves a row of evidence; the pull waits, or ends as FAILED or CANCELLED.
AttemptFailed ==
  /\ pull.phase = "FAILED"
  /\ pull' = IF AnotherAttempt /\ ~CancelSeen
             THEN [pull EXCEPT !.phase = "WAIT", !.retry = FALSE, !.rows = @ + 1]
             ELSE NoPull
  /\ UNCHANGED <<serves, stored>>

\* Mutant: an attempt that was refused is not counted.
NextAttemptUncounted ==
  /\ pull.phase = "WAIT"
  /\ \E host \in Host : pull' = [pull EXCEPT !.phase = "CHECK", !.host = host, !.hops = 0, !.rows = 0]
  /\ UNCHANGED <<serves, stored>>

\* The wait is over; a cancel request that came meanwhile is not looked for.
NextAttempt ==
  /\ pull.phase = "WAIT"
  /\ \E host \in Host :
       pull' = [pull EXCEPT !.phase = "CHECK", !.host = host, !.hops = 0, !.attempt = @ + 1,
                            !.late = IF pull.cancel THEN @ + 1 ELSE @]
  /\ UNCHANGED <<serves, stored>>

\* The file is complete: its evidence is committed, then it is archived.
AttemptSucceeded ==
  /\ pull.phase = "BODY"
  /\ pull' = [pull EXCEPT !.phase = "ARCHIVE", !.rows = @ + 1]
  /\ evidence' = evidence \cup {pull.got}
  /\ put' = [put EXCEPT !["pull"] = [step |-> "LOOK", file |-> pull.got]]
  /\ UNCHANGED <<serves, artifact, version, blob>>

-----------------------------------------------------------------------------
(* The blob store: put_file, with mkstemp, link and unlink *)

\* Another thread archives an answer, a text or a file of its own, or load-manual the file it is given.
StartPut(t) ==
  /\ t \in Writer /\ put[t].step = "NONE"
  /\ \E b \in Bytes : put' = [put EXCEPT ![t] = [step |-> "LOOK", file |-> b]]
  /\ UNCHANGED <<serves, pull, evidence, artifact, version, blob>>

\* The hash is verified; a file that is there is not written again.
Look(t) ==
  /\ put[t].step = "LOOK"
  /\ put' = [put EXCEPT ![t].step = IF blob[put[t].file] = "ABSENT" THEN "COPY" ELSE "DONE"]
  /\ UNCHANGED <<serves, pull, evidence, artifact, version, blob>>

\* Mutant: the file is compressed in place instead of beside its name.
CopyInPlace(t) ==
  /\ put[t].step = "COPY"
  /\ put' = [put EXCEPT ![t].step = "LINK"]
  /\ blob' = [blob EXCEPT ![put[t].file] = "PARTIAL"]
  /\ UNCHANGED <<serves, pull, evidence, artifact, version>>

\* The bytes are compressed into a temporary file.
Copy(t) ==
  /\ put[t].step = "COPY"
  /\ put' = [put EXCEPT ![t].step = "LINK"]
  /\ UNCHANGED <<serves, pull, evidence, artifact, version, blob>>

\* os.link creates the name or finds it taken; the temporary file is removed either way.
Link(t) ==
  /\ put[t].step = "LINK"
  /\ put' = [put EXCEPT ![t].step = "DONE"]
  /\ blob' = [blob EXCEPT ![put[t].file] = "COMPLETE"]
  /\ UNCHANGED <<serves, pull, evidence, artifact, version>>

\* The row of the artifact: of another thread in a transaction of its own.
Row(t) ==
  /\ t \in Writer /\ put[t].step = "DONE"
  /\ artifact' = artifact \cup {put[t].file}
  /\ put' = [put EXCEPT ![t] = NoPut]
  /\ UNCHANGED <<serves, pull, evidence, version, blob>>

\* A thread dies, and its temporary file stays.
WriterDies(t) ==
  /\ t \in Writer /\ put[t].step # "NONE"
  /\ put' = [put EXCEPT ![t] = NoPut]
  /\ UNCHANGED <<serves, pull, evidence, artifact, version, blob>>

\* A run that has its file, downloaded or not.
Parsing(b) == [NoPull EXCEPT !.phase = "PARSE", !.got = b]

\* _archive: the row, and the end of the run for the file that is published (NO_CHANGE) or waits
\* for its release (UNCHANGED_PENDING), unless it is forced to go on.
Archive ==
  /\ pull.phase = "ARCHIVE" /\ put["pull"].step = "DONE"
  /\ artifact' = artifact \cup {pull.got}
  /\ put' = [put EXCEPT !["pull"] = NoPut]
  /\ \/ pull' = Parsing(pull.got)
     \/ pull.got \in {published} \cup held /\ pull' = NoPull
  /\ UNCHANGED <<serves, evidence, version, blob>>

-----------------------------------------------------------------------------
(* The rest of the run, and what happens around it *)

\* _list_ingest with reparse_sha256: reparse, load-manual after its put, and the agent's re-parse
\* take a file that has a row as an artifact, whoever archived it, and whether or not it was
\* ever downloaded; it is not compared with what is published.
Reparse ==
  /\ pull.phase = "IDLE"
  /\ \E b \in artifact : pull' = Parsing(b) /\ reparsed' = reparsed \cup {b}
  /\ UNCHANGED <<serves, evidence, artifact, held, published, blob, put>>

\* The run publishes, holds, quarantines, rejects or cancels its version (module Pipeline).
EndRun ==
  /\ pull.phase \in {"PARSE", "UNCHANGED"}
  /\ pull' = NoPull
  /\ \/ pull.phase = "PARSE" /\ published' = pull.got /\ UNCHANGED held
     \/ pull.phase = "PARSE" /\ held' = held \cup {pull.got} /\ UNCHANGED published
     \/ UNCHANGED <<held, published>>
  /\ UNCHANGED <<serves, evidence, artifact, reparsed, blob, put>>

\* A RELEASE run publishes a held version; which of them still may be is a matter of Publish.
Release ==
  /\ pull.phase = "IDLE"
  /\ published' \in held
  /\ UNCHANGED <<serves, pull, evidence, artifact, reparsed, held, blob, put>>

RequestCancel ==
  /\ pull.phase # "IDLE" /\ ~pull.cancel
  /\ pull' = [pull EXCEPT !.cancel = TRUE]
  /\ UNCHANGED <<serves, stored>>

\* The process of the run dies; the run that resumes it starts anew, or from the file that the
\* dead one had archived.
Crash ==
  /\ pull.phase # "IDLE"
  /\ pull' \in {NoPull} \cup (IF pull.phase = "PARSE" THEN {Parsing(pull.got)} ELSE {})
  /\ put' = [put EXCEPT !["pull"] = NoPut]
  /\ UNCHANGED <<serves, evidence, artifact, version, blob>>

Publisher == serves' \in Bytes /\ UNCHANGED <<pull, stored>>

PullStep == \/ Check \/ Redirected \/ NotModified \/ Answered \/ RequestFails \/ AttemptFailed
            \/ NextAttempt \/ AttemptSucceeded \/ Archive \/ EndRun
PutStep(t) == Look(t) \/ Copy(t) \/ Link(t)

Next ==
  \/ StartPull \/ PullStep
  \/ \E t \in Thread : PutStep(t) \/ StartPut(t) \/ Row(t) \/ WriterDies(t)
  \/ Reparse \/ Release \/ RequestCancel \/ Crash \/ Publisher

Spec == Init /\ [][Next]_vars

\* The executor of the pull goes on; timeouts see to it that every request is answered or fails.
FairSpec == Spec /\ WF_vars(PullStep) /\ WF_vars(PutStep("pull"))

-----------------------------------------------------------------------------
(* Properties *)

\* Provenance: every published or held file was downloaded with evidence or is named by the run an
\* operator or the agent asked for, and it has a row as an artifact; and whatever has such a row is in
\* the blob store, whole, whoever else archives the same bytes and wherever a process died.  A
\* manual load leaves no evidence of a download: its run is the record.
PublishedIsProven ==
  /\ held \cup ({published} \ {NULL}) \subseteq artifact \cap (evidence \cup reparsed)
  /\ \A b \in artifact : blob[b] = "COMPLETE"

\* A pull ends as unchanged only when the publisher serves what is published: an answer 304 never
\* vouches for a file that was held or quarantined.
UnchangedMeansPublished ==
  [][pull.phase = "REQUEST" /\ pull'.phase = "UNCHANGED" => serves = published]_vars

\* After a cancel request at most one more attempt begins, the one that was waited for.
CancelStopsRetries == pull.late <= 1

\* Every pull ends, also when the publisher fails or redirects for ever.
PullEnds == pull.phase # "IDLE" ~> pull.phase = "IDLE"
=============================================================================
