------------------------------ MODULE Curation ------------------------------
(***************************************************************************)
(* The curated EU annexes (sources/l1/eu_annex.py): lists nobody publishes *)
(* as a file.  Acts of the Official Journal are collected as notices; the  *)
(* extractor (agent/tools.py, extract_annex_act) or an analyst's CSV       *)
(* (cli.py, annex_import_csv) turns an act into an ANNEX_ENTRY proposal; a *)
(* second person approves it (review.py, decide), which changes the        *)
(* curated entries and asks for a run; the run renders the entries as a    *)
(* file and takes it through the ordinary pipeline, which may hold it for  *)
(* a reviewer.  An archived file can be parsed again.                      *)
(*                                                                         *)
(* The pipeline's steps after the archive are one action here: module      *)
(* Pipeline has them one by one, and the options dry_run and force_refetch.*)
(* A foreign file an operator loads by hand is no list of entries and is   *)
(* left out.                                                               *)
(*                                                                         *)
(* A proposal is numbered by its change_id.  An entry of the list is       *)
(* represented by the number of the proposal it was approved with.         *)
(***************************************************************************)
EXTENDS Naturals, Sequences, FiniteSets, Validation

CONSTANTS
  Act,            \* acts of the Official Journal
  Vessel,         \* keys of entries: IMO numbers or normalised names
  TextOf,         \* [Act -> SUBSET Vessel]: the entries the act's text names
  Analyst,        \* people who import CSV files
  Reviewer,       \* people with the role of a reviewer
  Agent,          \* agent:supervisor
  Limits,         \* the bounds of a large change
  MaxProposals, MaxDisturbances,   \* bounds of the model
  NULL

ASSUME CurationConstants ==
  /\ TextOf \in [Act -> SUBSET Vessel]
  /\ Agent \notin Analyst \cup Reviewer
  /\ Limits \in [maxRemovedPct : Nat, maxRemovedAbs : Nat, maxAddedPct : Nat, maxAddedAbs : Nat]
  /\ {MaxProposals, MaxDisturbances} \subseteq Nat

VARIABLES
  notice,     \* [Act -> "UNKNOWN", "NO_TEXT", "STORED" or "EXTRACTED"]
  proposals,  \* proposed_change of kind ANNEX_ENTRY, by change_id
  entries,    \* [Vessel -> change_id of the active curated_entry, or NULL]
  marker,     \* max(approved_change_id) of curated_entry, 0 if there is none
  run,        \* the active run of the source, or NULL
  archive,    \* the files kept in the archive
  held,       \* the HELD versions by seq; open: the release waits for a reviewer
  quarantined,   \* the files of QUARANTINED versions
  published,  \* the file of the published version
  disturbances   \* failures, crashes and re-parses, counted for their bound

vars == <<notice, proposals, entries, marker, run, archive, held, quarantined,
          published, disturbances>>

curated == <<notice, proposals, entries, marker>>
versions == <<held, quarantined, published>>

Nothing == [v \in Vessel |-> NULL]

Init ==
  /\ notice = [a \in Act |-> "UNKNOWN"]
  /\ proposals = <<>>
  /\ entries = Nothing
  /\ marker = 0
  /\ run = NULL
  /\ published = [content |-> Nothing, asOf |-> 0]
  /\ archive = {} /\ held = <<>> /\ quarantined = {}
  /\ disturbances = 0

-----------------------------------------------------------------------------
(* store_notice: an act that is known is left as it is.                    *)
StoreNotice(a, text) ==
  /\ notice[a] = "UNKNOWN"
  /\ notice' = [notice EXCEPT ![a] = IF text THEN "STORED" ELSE "NO_TEXT"]

(* notice_sync: an act whose text could not be fetched is stored without   *)
(* it, and the text is never asked for again.                              *)
Collect(a) ==
  /\ \E text \in BOOLEAN : StoreNotice(a, text)
  /\ UNCHANGED <<proposals, entries, marker, run, archive, versions, disturbances>>

(* propose_entries: entries that passed their verification (ok) and those  *)
(* that did not (bad) go into one proposal; keyless says that one of the   *)
(* verified has no IMO number.  The unique index on dedupe_key, the act    *)
(* and the operation, covers open proposals (ON CONFLICT DO NOTHING): an   *)
(* act that was decided may be proposed again.                             *)
ProposedAnyway(a, op) == FALSE
Proposed(a, op) == \E c \in DOMAIN proposals :
  proposals[c].act = a /\ proposals[c].op = op /\ proposals[c].status = "PENDING"

ProposeEntries(a, op, by, e) ==
  proposals' = IF Proposed(a, op) THEN proposals
               ELSE Append(proposals,
                      [act |-> a, op |-> op, by |-> by, ok |-> e.ok, bad |-> e.bad,
                       keyless |-> e.keyless, status |-> "PENDING", reviewer |-> NULL])

(* Extractor.extract: the model names some entries and may invent others;  *)
(* it may find one without an identifier, and only delistings.             *)
Extraction == [found : SUBSET Vessel, keyless : BOOLEAN, delistings : BOOLEAN]

(* verify: an entry is ok when its quote, name and identifiers are in the  *)
(* text; what kind of action it is, the model says.                        *)
Verified(a, found) == found \cap TextOf[a]

EntriesFromExtraction(a, x) ==
  [ok |-> Verified(a, x.found), bad |-> x.found \ Verified(a, x.found), keyless |-> x.keyless]

(* REMOVE when every entry, ok or not, is a delisting; ADD when there is   *)
(* none.                                                                   *)
Operation(x) ==
  IF x.delistings /\ (x.found # {} \/ x.keyless) THEN "REMOVE" ELSE "ADD"

ExtractAnnexAct(a, by) ==
  /\ notice[a] \in {"STORED", "EXTRACTED"}
  /\ Len(proposals) < MaxProposals
  /\ \E x \in Extraction : ProposeEntries(a, Operation(x), by, EntriesFromExtraction(a, x))
  /\ notice' = [notice EXCEPT ![a] = "EXTRACTED"]
  /\ UNCHANGED <<entries, marker, run, archive, versions, disturbances>>

(* annex extract-notice: the same, proposed in the name of the analyst.    *)
AnnexExtractNotice(a, by) == by \in Analyst /\ ExtractAnnexAct(a, by)

(* A row is ok when it has a name and, where the annex asks for one, a     *)
(* valid IMO number.                                                       *)
EntriesFromCsv(ok) == [ok |-> ok, bad |-> Vessel \ ok, keyless |-> FALSE]

AnnexImportCsv(a, by) ==
  /\ Len(proposals) < MaxProposals
  /\ \E ok \in SUBSET Vessel, op \in {"ADD", "REMOVE"} :
       ProposeEntries(a, op, by, EntriesFromCsv(ok))
  /\ UNCHANGED <<notice, entries, marker, run, archive, versions, disturbances>>

-----------------------------------------------------------------------------
(* again: the run re-parses an archived file; release: it releases that    *)
(* version of held.                                                        *)
NewRun == [status |-> "QUEUED", rows |-> NULL, file |-> NULL, again |-> FALSE, release |-> 0]

(* enqueue_run; RunAlreadyActive leaves the approval with the run there is. *)
Enqueued == IF run = NULL THEN NewRun ELSE run

MayDecide(c, who) == proposals[c].status = "PENDING" /\ proposals[c].by # who

Decided(c, who, status) ==
  proposals' = [proposals EXCEPT ![c].status = status, ![c].reviewer = who]

AppliedAlsoBad(c) == proposals[c].ok \cup proposals[c].bad
Applied(c) == proposals[c].ok

(* apply_annex_proposal: the active entry of each verified key is closed,  *)
(* and ADD opens one for the proposal.  A verified entry without a key     *)
(* raises, and the transaction rolls back: such a proposal can only be     *)
(* rejected.  Two approvals of one key at once are serialised by its row   *)
(* or refused by ux_curated_entry_active.                                  *)
Approve(c, who) ==
  /\ MayDecide(c, who)
  /\ ~proposals[c].keyless
  /\ entries' = [v \in Vessel |-> IF v \notin Applied(c) THEN entries[v]
                                  ELSE IF proposals[c].op = "ADD" THEN c ELSE NULL]
  /\ marker' = IF proposals[c].op = "ADD" /\ Applied(c) # {} /\ c > marker THEN c ELSE marker
  /\ run' = Enqueued
  /\ Decided(c, who, "APPLIED")
  /\ UNCHANGED <<notice, archive, versions, disturbances>>

Reject(c, who) ==
  /\ MayDecide(c, who)
  /\ Decided(c, who, "REJECTED")
  /\ UNCHANGED <<notice, entries, marker, run, archive, versions, disturbances>>

-----------------------------------------------------------------------------
(* The planner queues a run when none is active.                           *)
ScheduledPull ==
  /\ run = NULL
  /\ run' = NewRun
  /\ UNCHANGED <<curated, archive, versions, disturbances>>

(* reparse_archived, or reparse of the CLI: any archived file may be asked *)
(* for, an older one than is published too.                                *)
Reparse(file) ==
  /\ run = NULL /\ file \in archive /\ disturbances < MaxDisturbances
  /\ run' = [NewRun EXCEPT !.file = file, !.again = TRUE]
  /\ disturbances' = disturbances + 1
  /\ UNCHANGED <<curated, archive, versions>>

Claim ==
  /\ run # NULL /\ run.status = "QUEUED"
  /\ run' = [run EXCEPT !.status = "RUNNING"]
  /\ UNCHANGED <<curated, archive, versions, disturbances>>

Running == run # NULL /\ run.status = "RUNNING"

(* LIST_INGEST, and not RELEASE_HELD.                                      *)
Ingests == Running /\ run.release = 0

(* build_curated_artifact reads the active entries in one statement and    *)
(* the newest change in the next, and other transactions commit between    *)
(* the two; a run that re-parses, or was resumed after its archive step,   *)
(* takes the archived file.                                                *)
BuildReads ==
  /\ Ingests /\ run.file = NULL /\ run.rows = NULL
  /\ run' = [run EXCEPT !.rows = entries]
  /\ UNCHANGED <<curated, archive, versions, disturbances>>

Built == [content |-> run.rows, asOf |-> marker]

(* _archive: the run ends when the bytes are those of the published        *)
(* version, or of one that is held or quarantined.                         *)
SameMarker(file) == file.asOf = published.asOf
SameBytes(file) == file = published

StillPending(file) == file \in quarantined \cup {held[i].file : i \in DOMAIN held}

Archive ==
  /\ Ingests /\ run.file = NULL /\ run.rows # NULL
  /\ run' = IF SameBytes(Built) \/ StillPending(Built) THEN NULL
            ELSE [run EXCEPT !.rows = NULL, !.file = Built]
  /\ archive' = archive \cup {Built}
  /\ UNCHANGED <<curated, versions, disturbances>>

(* The list as the pipeline compares it: keys and what is said of them.    *)
(* The file has no publication date to be older than the published one's,  *)
(* and its entries meet the other bounds (min_records is 0, and every      *)
(* vessel has its IMO number).                                             *)
Records(content) == [v \in {w \in Vessel : content[w] # NULL} |-> content[v]]

Holds(file) == LargeChange(Limits, DiffPreview(Records(file.content), Records(published.content)))

Parsed == Ingests /\ run.file # NULL

(* VALIDATE_FILE to DIFF_PUBLISH: a large change is held, with a proposal  *)
(* to release it; what is published supersedes every held version.         *)
Hold ==
  /\ Parsed /\ Holds(run.file)
  /\ held' = Append(held, [file |-> run.file, again |-> run.again, open |-> TRUE])
  /\ run' = NULL
  /\ UNCHANGED <<curated, archive, quarantined, published, disturbances>>

Publish ==
  /\ Parsed /\ ~Holds(run.file)
  /\ published' = run.file
  /\ held' = <<>>
  /\ run' = NULL
  /\ UNCHANGED <<curated, archive, quarantined, disturbances>>

(* The reviewer's release needs a run and is undone when one is active; a  *)
(* refused one leaves the version held.                                    *)
CloseRelease(i) == held' = [held EXCEPT ![i].open = FALSE]

ApproveRelease(i) ==
  /\ held[i].open /\ run = NULL
  /\ CloseRelease(i)
  /\ run' = [NewRun EXCEPT !.file = held[i].file, !.again = held[i].again, !.release = i]
  /\ UNCHANGED <<curated, archive, quarantined, published, disturbances>>

RejectRelease(i) ==
  /\ held[i].open
  /\ CloseRelease(i)
  /\ UNCHANGED <<curated, run, archive, quarantined, published, disturbances>>

(* _release_held and publish_version: the versions held before are         *)
(* superseded; those held later stay, and their proposals expire.          *)
HeldAfter(i) == [j \in 1..(Len(held) - i) |-> [held[i + j] EXCEPT !.open = FALSE]]

Release ==
  /\ Running /\ run.release # 0
  /\ published' = run.file
  /\ held' = HeldAfter(run.release)
  /\ run' = NULL
  /\ UNCHANGED <<curated, archive, quarantined, disturbances>>

(* The run fails or is cancelled and leaves no version that waits.         *)
Fails ==
  /\ run # NULL /\ disturbances < MaxDisturbances
  /\ disturbances' = disturbances + 1
  /\ run' = NULL
  /\ UNCHANGED <<curated, archive, versions>>

(* An error while the file is parsed, of the database for one, quarantines *)
(* the version.                                                            *)
ParserFails ==
  /\ Parsed /\ disturbances < MaxDisturbances
  /\ disturbances' = disturbances + 1
  /\ quarantined' = quarantined \cup {run.file}
  /\ run' = NULL
  /\ UNCHANGED <<curated, archive, held, published>>

(* The executor dies, and the reclaimer queues the run that resumes it     *)
(* with its options: from the archive, if there is one.                    *)
CrashAndResume ==
  /\ Running /\ disturbances < MaxDisturbances
  /\ disturbances' = disturbances + 1
  /\ run' = [run EXCEPT !.status = "QUEUED", !.rows = NULL]
  /\ UNCHANGED <<curated, archive, versions>>

-----------------------------------------------------------------------------
Next ==
  \/ \E a \in Act : Collect(a) \/ ExtractAnnexAct(a, Agent)
  \/ \E a \in Act, by \in Analyst : AnnexExtractNotice(a, by) \/ AnnexImportCsv(a, by)
  \/ \E c \in DOMAIN proposals, who \in Reviewer : Approve(c, who) \/ Reject(c, who)
  \/ \E i \in DOMAIN held : ApproveRelease(i) \/ RejectRelease(i)
  \/ \E file \in archive : Reparse(file)
  \/ ScheduledPull \/ Claim \/ BuildReads \/ Archive \/ Hold \/ Publish \/ Release
  \/ Fails \/ ParserFails \/ CrashAndResume

Spec == Init /\ [][Next]_vars

(* The planner and the executors go on; nobody has to extract a text or to *)
(* decide on an entry or on a release.                                     *)
FairSpec ==
  /\ Spec
  /\ WF_vars(ScheduledPull) /\ WF_vars(Claim)
  /\ WF_vars(BuildReads) /\ WF_vars(Archive)
  /\ WF_vars(Hold) /\ WF_vars(Publish) /\ WF_vars(Release)

-----------------------------------------------------------------------------
Content == [Vessel -> (1..MaxProposals) \cup {NULL}]
FileType == [content : Content, asOf : 0..MaxProposals]

(* Every variable has its type, the entries of the database are those of   *)
(* applied proposals, and an act has one open proposal per operation.      *)
CurationTypeOK ==
  /\ notice \in [Act -> {"UNKNOWN", "NO_TEXT", "STORED", "EXTRACTED"}]
  /\ entries \in Content /\ marker \in 0..MaxProposals
  /\ \A v \in Vessel : entries[v] # NULL => proposals[entries[v]].status = "APPLIED"
  /\ \A c, d \in DOMAIN proposals :
       /\ proposals[c].act = proposals[d].act /\ proposals[c].op = proposals[d].op
       /\ proposals[c].status = "PENDING" /\ proposals[d].status = "PENDING"
       => c = d
  /\ run # NULL => /\ run.status \in {"QUEUED", "RUNNING"}
                   /\ run.rows \in Content \cup {NULL}
                   /\ run.file \in FileType \cup {NULL}
                   /\ run.again \in BOOLEAN /\ run.release \in {0} \cup DOMAIN held
  /\ {published} \cup archive \cup quarantined \subseteq FileType
  /\ \A i \in DOMAIN held : held[i] \in [file : FileType, again : BOOLEAN, open : BOOLEAN]

(* Every entry of the published list was verified, was added by a proposal *)
(* that somebody other than its author applied, comes from the act's text  *)
(* if the agent proposed it, and is no newer than the change the file says *)
(* it is curated as of.                                                    *)
ListedWasApproved ==
  \A v \in Vessel :
    published.content[v] # NULL =>
      LET c == published.content[v] IN
      /\ proposals[c].status = "APPLIED" /\ proposals[c].op = "ADD"
      /\ proposals[c].reviewer # proposals[c].by
      /\ v \in proposals[c].ok
      /\ proposals[c].by = Agent => v \in TextOf[proposals[c].act]
      /\ c <= published.asOf

(* What was approved reaches the published list or a held or quarantined   *)
(* version: again and again one of them has exactly the active entries,    *)
(* although an approval that finds a run active gets none of its own, that *)
(* run may have read the entries before, and a resumed run takes what its  *)
(* predecessor archived.  Without a reviewer a held version goes no        *)
(* further: every later pull of the same entries ends at it.               *)
Waits == \/ \E i \in DOMAIN held : held[i].file.content = entries
         \/ \E file \in quarantined : file.content = entries

ApprovedIsPublished == []<>(published.content = entries \/ Waits)
=============================================================================
