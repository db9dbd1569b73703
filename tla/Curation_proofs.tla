-------------------------- MODULE Curation_proofs ---------------------------
(***************************************************************************)
(* Proofs about the curated EU annexes. ListedWasApproved says something   *)
(* of the published list only, which a run read from the entries several   *)
(* steps before, or found in the archive: its inductive invariant says the *)
(* same of every list on the way - the entries in force, what a run has    *)
(* read of them, every archived file, and what is published - and that a   *)
(* decision is final. At the end, what a step may do: a proposal is        *)
(* decided once, the list changes by approvals only, and what is published *)
(* goes back only when an archived file is parsed again.                   *)
(***************************************************************************)
EXTENDS Curation, SequenceTheorems, TLAPS

ProposalRow ==
  [act : Act, op : {"ADD", "REMOVE"}, by : Analyst \cup {Agent}, ok : SUBSET Vessel, bad : SUBSET Vessel,
   keyless : BOOLEAN, status : {"PENDING", "APPLIED", "REJECTED"}, reviewer : Reviewer \cup {NULL}]

RunRow == [status : {"QUEUED", "RUNNING"}, rows : Content \cup {NULL}, file : FileType \cup {NULL},
           again : BOOLEAN, release : Nat]

Version == [file : FileType, again : BOOLEAN, open : BOOLEAN]

(* The types of the rows; a run that releases a version names one that is  *)
(* held.                                                                   *)
Types ==
  /\ notice \in [Act -> {"UNKNOWN", "NO_TEXT", "STORED", "EXTRACTED"}]
  /\ proposals \in Seq(ProposalRow) /\ Len(proposals) <= MaxProposals
  /\ entries \in Content /\ marker \in 0..MaxProposals
  /\ run \in RunRow \cup {NULL}
  /\ run # NULL => run.release \in {0} \cup DOMAIN held
  /\ archive \subseteq FileType /\ quarantined \subseteq FileType
  /\ held \in Seq(Version)
  /\ published \in FileType

SameOpen(c, d) ==
  /\ proposals[c].act = proposals[d].act /\ proposals[c].op = proposals[d].op
  /\ proposals[c].status = "PENDING" /\ proposals[d].status = "PENDING"

(* The index on the key of open proposals.                                 *)
OneOpen == \A c, d \in DOMAIN proposals : SameOpen(c, d) => c = d

(* What the agent proposes as verified is in the text of the act.          *)
AgentQuotes == \A c \in DOMAIN proposals : proposals[c].by = Agent => proposals[c].ok \subseteq TextOf[proposals[c].act]

(* Each entry of a list that is curated as of asOf was added by an         *)
(* approved proposal that is no newer.                                     *)
ApprovedEntry(v, c, asOf) ==
  /\ c \in DOMAIN proposals /\ proposals[c].status = "APPLIED" /\ proposals[c].op = "ADD"
  /\ proposals[c].reviewer # proposals[c].by /\ v \in proposals[c].ok
  /\ c <= asOf

ApprovedList(content, asOf) ==
  \A v \in Vessel : content[v] # NULL => ApprovedEntry(v, content[v], asOf)

(* It holds of the entries, of what a run has read of them, of every       *)
(* archived file, and of what is published; what a run parses and what is  *)
(* held is archived.                                                       *)
ListsInv ==
  /\ ApprovedList(entries, marker)
  /\ \A file \in archive \cup {published} : ApprovedList(file.content, file.asOf)
  /\ run # NULL => /\ run.rows # NULL => ApprovedList(run.rows, marker)
                   /\ run.file # NULL \/ run.release # 0 => run.file \in archive
  /\ \A i \in DOMAIN held : held[i].file \in archive

(* The inductive invariant.                                                *)
Inv == Types /\ OneOpen /\ AgentQuotes /\ ListsInv

(* The invariant implies what the run checks.                              *)
LEMMA InvSuffices == Inv => CurationTypeOK /\ ListedWasApproved
<1> SUFFICES ASSUME Inv PROVE CurationTypeOK /\ ListedWasApproved
  OBVIOUS
<1>1. \A v \in Vessel : entries[v] # NULL => proposals[entries[v]].status = "APPLIED"
  BY DEF Inv, ListsInv, ApprovedList, ApprovedEntry
<1>2. \A c, d \in DOMAIN proposals :
       /\ proposals[c].act = proposals[d].act /\ proposals[c].op = proposals[d].op
       /\ proposals[c].status = "PENDING" /\ proposals[d].status = "PENDING"
       => c = d
  BY DEF Inv, OneOpen, SameOpen
<1>3. CurationTypeOK
  <2>0. \A i \in DOMAIN held : held[i] \in Version
    BY LenProperties, ElementOfSeq DEF Inv, Types
  <2>1. \A i \in DOMAIN held : held[i] \in [file : FileType, again : BOOLEAN, open : BOOLEAN]
    BY <2>0 DEF Version
  <2> QED
    BY <1>1, <1>2, <2>1 DEF Inv, Types, CurationTypeOK, RunRow
<1>4. ListedWasApproved
  BY DEF Inv, ListsInv, ApprovedList, ApprovedEntry, AgentQuotes, ListedWasApproved
<1> QED
  BY <1>3, <1>4

(* The proposals as a table.                                               *)
LEMMA Table ==
  ASSUME Types
  PROVE  /\ Len(proposals) \in Nat /\ DOMAIN proposals = 1..Len(proposals) /\ DOMAIN proposals \subseteq Nat
         /\ MaxProposals \in Nat /\ \A c \in DOMAIN proposals : proposals[c] \in ProposalRow /\ c <= MaxProposals
<1>1. Len(proposals) \in Nat /\ DOMAIN proposals = 1..Len(proposals) /\ \A c \in DOMAIN proposals : proposals[c] \in ProposalRow
  BY LenProperties, ElementOfSeq DEF Types
<1>2. MaxProposals \in Nat /\ Len(proposals) <= MaxProposals
  BY CurationConstants DEF Types
<1> QED
  BY <1>1, <1>2

(* What was approved stays approved as long as no decision is changed.     *)
Kept == \A c \in DOMAIN proposals : proposals[c].status = "APPLIED" =>
          c \in DOMAIN proposals' /\ proposals'[c] = proposals[c]

(* Such a step keeps a list approved, and as of any later change too.      *)
LEMMA ApprovedStays ==
  ASSUME Types, Kept, NEW content, NEW asOf \in Nat, NEW later \in Nat, asOf <= later, ApprovedList(content, asOf)
  PROVE  ApprovedList(content, later)'
<1>1. ASSUME NEW v, NEW c, ApprovedEntry(v, c, asOf) PROVE ApprovedEntry(v, c, later)'
  <2>1. c \in Nat /\ c <= later
    BY <1>1, Table DEF ApprovedEntry
  <2> QED
    BY <1>1, <2>1 DEF Kept, ApprovedEntry
<1> QED
  BY <1>1 DEF ApprovedList

(* A step that changes no decision and no list keeps the lists.            *)
LEMMA ListsStay ==
  ASSUME Inv, Kept, UNCHANGED <<entries, marker, run, archive, held, quarantined, published>>
  PROVE  ListsInv'
<1>1. Types /\ ListsInv /\ marker \in Nat /\ published.asOf \in Nat
  BY CurationConstants DEF Inv, Types, FileType
<1>2. ApprovedList(entries, marker)'
  <2>1. PICK f, m : f = entries /\ m = marker
    OBVIOUS
  <2>2. ApprovedList(f, m)'
    BY <1>1, <2>1, ApprovedStays DEF ListsInv
  <2> QED
    BY <2>1, <2>2
<1>3. ASSUME NEW file \in archive \cup {published} PROVE ApprovedList(file.content, file.asOf)'
  <2>1. file.asOf \in Nat
    BY <1>1, CurationConstants DEF Types, FileType
  <2> QED
    BY <1>1, <2>1, ApprovedStays DEF ListsInv
<1>4. ASSUME run # NULL, run.rows # NULL PROVE ApprovedList(run.rows, marker)'
  <2>1. PICK f, m : f = run.rows /\ m = marker
    OBVIOUS
  <2>2. ApprovedList(f, m)'
    BY <1>1, <1>4, <2>1, ApprovedStays DEF ListsInv
  <2> QED
    BY <2>1, <2>2
<1>5. \A file \in (archive \cup {published})' : ApprovedList(file.content, file.asOf)'
  BY <1>3
<1> QED
  BY <1>1, <1>2, <1>4, <1>5 DEF ListsInv

(* A proposal is filed: nothing else changes, and what the agent proposes  *)
(* was verified.                                                           *)
LEMMA ProposesKeeps ==
  ASSUME Inv, NEW a \in Act, NEW op \in {"ADD", "REMOVE"}, NEW by \in Analyst \cup {Agent}, NEW e,
         e.ok \subseteq Vessel, e.bad \subseteq Vessel, e.keyless \in BOOLEAN, by = Agent => e.ok \subseteq TextOf[a],
         ProposeEntries(a, op, by, e), Len(proposals) < MaxProposals,
         notice' \in [Act -> {"UNKNOWN", "NO_TEXT", "STORED", "EXTRACTED"}],
         UNCHANGED <<entries, marker, run, archive, held, quarantined, published>>
  PROVE  Inv'
<1> DEFINE n == Len(proposals) + 1
           x == [act |-> a, op |-> op, by |-> by, ok |-> e.ok, bad |-> e.bad,
                 keyless |-> e.keyless, status |-> "PENDING", reviewer |-> NULL]
<1>1. /\ Types /\ OneOpen /\ AgentQuotes /\ Len(proposals) \in Nat /\ DOMAIN proposals = 1..Len(proposals)
      /\ MaxProposals \in Nat /\ proposals \in Seq(ProposalRow)
  BY Table DEF Inv, Types
<1>2. x \in ProposalRow
  BY DEF ProposalRow
<1>3. x.act = a /\ x.op = op /\ x.by = by /\ x.ok = e.ok /\ x.status = "PENDING"
  OBVIOUS
<1>4. proposals' = IF Proposed(a, op) THEN proposals ELSE Append(proposals, x)
  BY DEF ProposeEntries
<1> HIDE DEF x
<1>5. CASE Proposed(a, op)
  <2>1. proposals' = proposals
    BY <1>4, <1>5
  <2>2. Kept /\ Types' /\ OneOpen' /\ AgentQuotes'
    BY <1>1, <2>1 DEF Kept, Types, OneOpen, SameOpen, AgentQuotes
  <2> QED
    BY <2>2, ListsStay DEF Inv
<1>6. CASE ~Proposed(a, op)
  <2>1. PICK m : m = n
    OBVIOUS
  <2>2. /\ proposals' \in Seq(ProposalRow) /\ Len(proposals') = m /\ m \in Nat /\ m <= MaxProposals
        /\ \A c \in 1..Len(proposals) : proposals'[c] = proposals[c]
        /\ proposals'[m] = x
    BY <1>1, <1>2, <1>4, <1>6, <2>1, AppendProperties
  <2>3. DOMAIN proposals' = DOMAIN proposals \cup {m} /\ m \notin DOMAIN proposals
    <3>1. DOMAIN proposals' = 1..m
      BY <2>2, LenProperties
    <3> QED
      BY <1>1, <2>1, <3>1
  <2>4. Kept /\ Types'
    BY <1>1, <2>2, <2>3 DEF Kept, Types
  <2>5. AgentQuotes'
    BY <1>1, <1>3, <2>2, <2>3 DEF AgentQuotes
  <2>6. \A c \in DOMAIN proposals : ~(proposals[c].act = a /\ proposals[c].op = op /\ proposals[c].status = "PENDING")
    BY <1>6 DEF Proposed
  <2>7. OneOpen'
    BY <1>1, <1>3, <2>2, <2>3, <2>6 DEF OneOpen, SameOpen
  <2> QED
    BY <2>4, <2>5, <2>7, ListsStay DEF Inv
<1> QED
  BY <1>5, <1>6

(* The extractor and the CSV propose only what they verified.              *)
LEMMA ExtractKeeps ==
  ASSUME Inv, NEW a \in Act, NEW by \in Analyst \cup {Agent}, ExtractAnnexAct(a, by)
  PROVE  Inv'
<1>1. PICK x \in Extraction : ProposeEntries(a, Operation(x), by, EntriesFromExtraction(a, x))
  BY DEF ExtractAnnexAct
<1>2. PICK e, op : e = EntriesFromExtraction(a, x) /\ op = Operation(x)
  OBVIOUS
<1>3. x.found \subseteq Vessel /\ x.keyless \in BOOLEAN
  BY DEF Extraction
<1>4. e.ok \subseteq Vessel /\ e.bad \subseteq Vessel /\ e.keyless \in BOOLEAN /\ e.ok \subseteq TextOf[a]
  BY <1>2, <1>3 DEF EntriesFromExtraction, Verified
<1>5. op \in {"ADD", "REMOVE"}
  BY <1>2 DEF Operation
<1>6. /\ Len(proposals) < MaxProposals /\ UNCHANGED <<entries, marker, run, archive, held, quarantined, published>>
      /\ notice' \in [Act -> {"UNKNOWN", "NO_TEXT", "STORED", "EXTRACTED"}]
  BY DEF ExtractAnnexAct, Inv, Types, versions
<1> QED
  BY <1>1, <1>2, <1>4, <1>5, <1>6, ProposesKeeps

(* A CSV is proposed in the name of an analyst, who is not the agent.      *)
LEMMA ImportKeeps ==
  ASSUME Inv, NEW a \in Act, NEW by \in Analyst, AnnexImportCsv(a, by)
  PROVE  Inv'
<1>1. PICK ok \in SUBSET Vessel, op \in {"ADD", "REMOVE"} : ProposeEntries(a, op, by, EntriesFromCsv(ok))
  BY DEF AnnexImportCsv
<1>2. PICK e : e = EntriesFromCsv(ok)
  OBVIOUS
<1>3. e.ok \subseteq Vessel /\ e.bad \subseteq Vessel /\ e.keyless \in BOOLEAN
  BY <1>2 DEF EntriesFromCsv
<1>4. by # Agent
  BY CurationConstants
<1>5. /\ Len(proposals) < MaxProposals /\ UNCHANGED <<entries, marker, run, archive, held, quarantined, published>>
      /\ notice' \in [Act -> {"UNKNOWN", "NO_TEXT", "STORED", "EXTRACTED"}]
  BY DEF AnnexImportCsv, Inv, Types, versions
<1> QED
  BY <1>1, <1>2, <1>3, <1>4, <1>5, ProposesKeeps

(* A decision changes one open proposal.                                   *)
LEMMA DecisionWrites ==
  ASSUME Inv, NEW c \in DOMAIN proposals, NEW who \in Reviewer, NEW status \in {"APPLIED", "REJECTED"},
         MayDecide(c, who), Decided(c, who, status)
  PROVE  /\ proposals' \in Seq(ProposalRow) /\ Len(proposals') = Len(proposals)
         /\ DOMAIN proposals' = DOMAIN proposals
         /\ \A d \in DOMAIN proposals \ {c} : proposals'[d] = proposals[d]
         /\ proposals'[c].status = status /\ proposals'[c].reviewer = who /\ who # proposals'[c].by
         /\ proposals'[c].op = proposals[c].op /\ proposals'[c].ok = proposals[c].ok
         /\ Kept /\ OneOpen' /\ AgentQuotes'
<1>1. /\ Types /\ OneOpen /\ AgentQuotes /\ proposals \in Seq(ProposalRow)
      /\ Len(proposals) \in Nat /\ DOMAIN proposals = 1..Len(proposals) /\ proposals[c] \in ProposalRow
      /\ proposals[c].status = "PENDING" /\ proposals[c].by # who
  BY Table DEF Inv, Types, MayDecide
<1>2. PICK x : x = [proposals[c] EXCEPT !.status = status, !.reviewer = who]
  OBVIOUS
<1>3. /\ x \in ProposalRow /\ x.status = status /\ x.reviewer = who /\ x.by = proposals[c].by
      /\ x.op = proposals[c].op /\ x.ok = proposals[c].ok /\ x.act = proposals[c].act
  BY <1>1, <1>2 DEF ProposalRow
<1>4. proposals' = [proposals EXCEPT ![c] = x]
  BY <1>2 DEF Decided
<1>5. /\ proposals' \in Seq(ProposalRow) /\ Len(proposals') = Len(proposals)
      /\ DOMAIN proposals' = DOMAIN proposals /\ proposals'[c] = x
      /\ \A d \in DOMAIN proposals \ {c} : proposals'[d] = proposals[d]
  <2>1. proposals' \in Seq(ProposalRow) /\ Len(proposals') = Len(proposals)
    BY <1>1, <1>3, <1>4, ExceptSeq
  <2> QED
    BY <1>1, <1>4, <2>1
<1>6. Kept /\ AgentQuotes'
  BY <1>1, <1>3, <1>5 DEF Kept, AgentQuotes
<1>7. OneOpen'
  BY <1>1, <1>3, <1>5 DEF OneOpen, SameOpen
<1> QED
  BY <1>1, <1>3, <1>5, <1>6, <1>7

(* A rejected proposal changes no list.                                    *)
LEMMA RejectKeeps == ASSUME Inv, NEW c \in DOMAIN proposals, NEW who \in Reviewer, Reject(c, who) PROVE Inv'
<1>1. MayDecide(c, who) /\ Decided(c, who, "REJECTED") /\ UNCHANGED <<notice, entries, marker, run, archive, held, quarantined, published>>
  BY DEF Reject, versions
<1>2. /\ proposals' \in Seq(ProposalRow) /\ Len(proposals') = Len(proposals)
      /\ Kept /\ OneOpen' /\ AgentQuotes'
  BY <1>1, DecisionWrites
<1>3. Types' /\ ListsInv'
  BY <1>1, <1>2, ListsStay DEF Inv, Types
<1> QED
  BY <1>2, <1>3 DEF Inv

(* An approval puts the verified entries of the proposal in force, and the *)
(* change the list is curated as of never goes back.                       *)
LEMMA ApproveKeeps == ASSUME Inv, NEW c \in DOMAIN proposals, NEW who \in Reviewer, Approve(c, who) PROVE Inv'
<1>1. /\ MayDecide(c, who) /\ Decided(c, who, "APPLIED")
      /\ entries' = [v \in Vessel |-> IF v \notin Applied(c) THEN entries[v]
                                      ELSE IF proposals[c].op = "ADD" THEN c ELSE NULL]
      /\ marker' = IF proposals[c].op = "ADD" /\ Applied(c) # {} /\ c > marker THEN c ELSE marker
      /\ run' = Enqueued /\ UNCHANGED <<notice, archive, held, quarantined, published>>
  BY DEF Approve, versions
<1>2. /\ proposals' \in Seq(ProposalRow) /\ Len(proposals') = Len(proposals) /\ DOMAIN proposals' = DOMAIN proposals
      /\ proposals'[c].status = "APPLIED" /\ proposals'[c].reviewer # proposals'[c].by
      /\ proposals'[c].op = proposals[c].op /\ proposals'[c].ok = proposals[c].ok
      /\ Kept /\ OneOpen' /\ AgentQuotes'
  BY <1>1, DecisionWrites
<1>3. /\ Types /\ ListsInv /\ marker \in Nat /\ published.asOf \in Nat /\ entries \in Content /\ marker \in 0..MaxProposals
      /\ c \in Nat /\ c \in 1..MaxProposals /\ MaxProposals \in Nat
  BY Table, CurationConstants DEF Inv, Types, FileType
<1>4. marker' \in 0..MaxProposals /\ marker' \in Nat /\ marker <= marker'
  BY <1>1, <1>3
<1>5. entries' \in Content
  BY <1>1, <1>3 DEF Content
<1>6. /\ run' \in RunRow \cup {NULL}
      /\ run' = run \/ (run'.rows = NULL /\ run'.file = NULL /\ run'.release = 0)
  BY <1>1, <1>3 DEF Enqueued, NewRun, Types, RunRow
<1>7. Types'
  BY <1>1, <1>2, <1>3, <1>4, <1>5, <1>6 DEF Types
<1>8. ApprovedList(entries, marker)'
  <2>1. PICK f, m, n : f = entries /\ m = marker /\ n = marker'
    OBVIOUS
  <2>2. ApprovedList(f, n)'
    BY <1>2, <1>3, <1>4, <2>1, ApprovedStays DEF ListsInv
  <2> SUFFICES ASSUME NEW v \in Vessel, entries'[v] # NULL, NEW i, i = entries'[v]
               PROVE  /\ i \in DOMAIN proposals' /\ proposals'[i].status = "APPLIED" /\ proposals'[i].op = "ADD"
                      /\ proposals'[i].reviewer # proposals'[i].by /\ v \in proposals'[i].ok
                      /\ i <= marker'
    BY DEF ApprovedList, ApprovedEntry
  <2>3. CASE v \notin Applied(c)
    <3>1. entries'[v] = f[v]
      BY <1>1, <2>1, <2>3
    <3> QED
      BY <2>1, <2>2, <3>1 DEF ApprovedList, ApprovedEntry
  <2>4. CASE v \in Applied(c)
    <3>1. proposals[c].op = "ADD" /\ i = c
      BY <1>1, <2>4
    <3>2. c <= marker'
      BY <1>1, <1>3, <2>4, <3>1
    <3> QED
      BY <1>2, <2>4, <3>1, <3>2 DEF Applied
  <2> QED
    BY <2>3, <2>4
<1>9. ASSUME NEW file \in archive \cup {published} PROVE ApprovedList(file.content, file.asOf)'
  <2>1. file.asOf \in Nat
    BY <1>3, CurationConstants DEF Types, FileType
  <2> QED
    BY <1>2, <1>3, <2>1, ApprovedStays DEF ListsInv
<1>10. ASSUME run' # NULL, run'.rows # NULL PROVE ApprovedList(run.rows, marker)'
  <2>1. PICK f, m, n : f = run.rows /\ m = marker /\ n = marker'
    OBVIOUS
  <2>2. run # NULL /\ run.rows # NULL /\ run' = run
    BY <1>6, <1>10
  <2>3. ApprovedList(f, n)'
    BY <1>2, <1>3, <1>4, <2>1, <2>2, ApprovedStays DEF ListsInv
  <2> QED
    BY <2>1, <2>2, <2>3
<1>11. run' # NULL /\ (run'.file # NULL \/ run'.release # 0) => run'.file \in archive
  BY <1>3, <1>6 DEF ListsInv
<1>12. \A file \in (archive \cup {published})' : ApprovedList(file.content, file.asOf)'
  BY <1>1, <1>9
<1>13. ListsInv'
  BY <1>1, <1>3, <1>8, <1>10, <1>11, <1>12 DEF ListsInv
<1> QED
  BY <1>2, <1>7, <1>13 DEF Inv

(* A step of a run or of a release changes no proposal and no entry: it    *)
(* keeps the invariant if what it writes is well typed, and the lists it   *)
(* archives, reads or publishes are approved.                              *)
LEMMA RunStep ==
  ASSUME Inv, UNCHANGED <<notice, proposals, entries, marker>>,
         NEW x \in RunRow \cup {NULL}, NEW A \in SUBSET FileType, NEW H \in Seq(Version), NEW P \in FileType,
         run' = x, archive' = A, held' = H, published' = P, quarantined' \subseteq FileType,
         x # NULL => /\ x.release \in {0} \cup DOMAIN H
                     /\ x.rows # NULL => ApprovedList(x.rows, marker)
                     /\ x.file # NULL \/ x.release # 0 => x.file \in A,
         \A file \in A \cup {P} : ApprovedList(file.content, file.asOf),
         \A i \in DOMAIN H : H[i].file \in A
  PROVE  Inv'
<1>1. Types'
  BY DEF Inv, Types
<1>2. OneOpen' /\ AgentQuotes'
  BY DEF Inv, OneOpen, SameOpen, AgentQuotes
<1>3. \A f, m : ApprovedList(f, m) => ApprovedList(f, m)'
  BY DEF ApprovedList, ApprovedEntry
<1>4. PICK f, m : f = entries /\ m = marker
  OBVIOUS
<1>5. ApprovedList(f, m)'
  BY <1>3, <1>4 DEF Inv, ListsInv
<1>6. \A file \in A \cup {P} : ApprovedList(file.content, file.asOf)'
  BY <1>3
<1>7. x # NULL /\ x.rows # NULL => ApprovedList(x.rows, m)'
  BY <1>3, <1>4
<1>8. ListsInv'
  BY <1>4, <1>5, <1>6, <1>7 DEF ListsInv
<1> QED
  BY <1>1, <1>2, <1>8 DEF Inv

(* What the steps of a run find.                                           *)
LEMMA RunFinds ==
  ASSUME Inv
  PROVE  /\ run \in RunRow \cup {NULL} /\ archive \in SUBSET FileType /\ quarantined \subseteq FileType
         /\ held \in Seq(Version) /\ published \in FileType
         /\ Len(held) \in Nat /\ DOMAIN held = 1..Len(held) /\ \A i \in DOMAIN held : held[i] \in Version
         /\ NewRun \in RunRow /\ NewRun.rows = NULL /\ NewRun.file = NULL /\ NewRun.release = 0
         /\ run # NULL => /\ run \in RunRow /\ run.release \in {0} \cup DOMAIN held
                          /\ run.rows # NULL => ApprovedList(run.rows, marker)
                          /\ run.file # NULL \/ run.release # 0 => run.file \in archive
         /\ \A file \in archive \cup {published} : ApprovedList(file.content, file.asOf)
         /\ \A i \in DOMAIN held : held[i].file \in archive
<1>1. Types /\ ListsInv
  BY DEF Inv
<1>2. NewRun \in RunRow /\ NewRun.rows = NULL /\ NewRun.file = NULL /\ NewRun.release = 0
  BY DEF NewRun, RunRow
<1>3. Len(held) \in Nat /\ DOMAIN held = 1..Len(held) /\ \A i \in DOMAIN held : held[i] \in Version
  BY <1>1, LenProperties, ElementOfSeq DEF Types
<1> QED
  BY <1>1, <1>2, <1>3 DEF Types, ListsInv

(* Steps of a run that leave the versions as they are.                     *)
LEMMA RunKeeps ==
  ASSUME Inv, \/ ScheduledPull \/ Claim \/ BuildReads \/ Archive \/ Fails \/ CrashAndResume
              \/ \E file \in archive : Reparse(file)
  PROVE  Inv'
<1>1. UNCHANGED <<notice, proposals, entries, marker, held, quarantined, published>>
  BY DEF ScheduledPull, Claim, BuildReads, Archive, Fails, CrashAndResume, Reparse, curated, versions
<1>2. ASSUME archive' = archive, NEW x \in RunRow \cup {NULL}, run' = x,
             x # NULL => /\ x.release \in {0} \cup DOMAIN held
                         /\ x.rows # NULL => ApprovedList(x.rows, marker)
                         /\ x.file # NULL \/ x.release # 0 => x.file \in archive
      PROVE  Inv'
  BY <1>1, <1>2, RunStep, RunFinds
<1>3. CASE ScheduledPull \/ Fails
  BY <1>2, <1>3, RunFinds DEF ScheduledPull, Fails, versions
<1>4. CASE Claim
  <2>1. PICK x : x = [run EXCEPT !.status = "RUNNING"]
    OBVIOUS
  <2>2. run # NULL /\ x \in RunRow /\ x.rows = run.rows /\ x.file = run.file /\ x.release = run.release
    BY <1>4, <2>1, RunFinds DEF Claim, RunRow
  <2> QED
    BY <1>2, <1>4, <2>1, <2>2, RunFinds DEF Claim
<1>5. CASE BuildReads
  <2>1. PICK x : x = [run EXCEPT !.rows = entries]
    OBVIOUS
  <2>2. entries \in Content /\ ApprovedList(entries, marker)
    BY DEF Inv, Types, ListsInv
  <2>3. run # NULL /\ x \in RunRow /\ x.rows = entries /\ x.file = run.file /\ x.release = run.release
    BY <1>5, <2>1, <2>2, RunFinds DEF BuildReads, Ingests, Running, RunRow
  <2> QED
    BY <1>2, <1>5, <2>1, <2>2, <2>3, RunFinds DEF BuildReads
<1>6. CASE Archive
  <2>1. PICK b : b = Built
    OBVIOUS
  <2>2. PICK x : x = [run EXCEPT !.rows = NULL, !.file = b]
    OBVIOUS
  <2>3. run # NULL /\ run.rows # NULL /\ run \in RunRow /\ run.release \in {0} \cup DOMAIN held
    BY <1>6, RunFinds DEF Archive, Ingests, Running
  <2>4. b \in FileType /\ b.content = run.rows /\ b.asOf = marker
    BY <2>1, <2>3 DEF Built, FileType, RunRow, Inv, Types
  <2>5. x \in RunRow /\ x.rows = NULL /\ x.file = b /\ x.release = run.release
    BY <2>2, <2>3, <2>4 DEF RunRow
  <2>6. archive' = archive \cup {b} /\ (run' = NULL \/ run' = x)
    BY <1>6, <2>1, <2>2 DEF Archive
  <2>7. PICK A : A = archive \cup {b}
    OBVIOUS
  <2>8. /\ A \in SUBSET FileType /\ \A i \in DOMAIN held : held[i].file \in A
        /\ \A file \in A \cup {published} : ApprovedList(file.content, file.asOf)
    BY <2>3, <2>4, <2>7, RunFinds
  <2>9. PICK y \in RunRow \cup {NULL} : y = run' /\ (y = NULL \/ y = x)
    BY <2>5, <2>6
  <2>10. y # NULL => y.release \in {0} \cup DOMAIN held /\ y.rows = NULL /\ y.file \in A
    BY <2>3, <2>5, <2>7, <2>9
  <2> QED
    BY <1>1, <2>6, <2>7, <2>8, <2>9, <2>10, RunStep, RunFinds
<1>7. CASE CrashAndResume
  <2>1. PICK x : x = [run EXCEPT !.status = "QUEUED", !.rows = NULL]
    OBVIOUS
  <2>2. run # NULL /\ x \in RunRow /\ x.rows = NULL /\ x.file = run.file /\ x.release = run.release
    BY <1>7, <2>1, RunFinds DEF CrashAndResume, Running, RunRow
  <2> QED
    BY <1>2, <1>7, <2>1, <2>2, RunFinds DEF CrashAndResume
<1>8. ASSUME NEW file \in archive, Reparse(file) PROVE Inv'
  <2>1. PICK x : x = [NewRun EXCEPT !.file = file, !.again = TRUE]
    OBVIOUS
  <2>2. x \in RunRow /\ x.rows = NULL /\ x.file = file /\ x.release = 0
    BY <2>1, RunFinds DEF NewRun, RunRow
  <2> QED
    BY <1>2, <1>8, <2>1, <2>2, RunFinds DEF Reparse
<1> QED
  BY <1>3, <1>4, <1>5, <1>6, <1>7, <1>8

(* Closing the proposal of a release changes nothing else of the version.  *)
LEMMA CloseWrites ==
  ASSUME Inv, NEW i \in DOMAIN held, CloseRelease(i)
  PROVE  /\ held' \in Seq(Version) /\ DOMAIN held' = DOMAIN held /\ Len(held') = Len(held)
         /\ \A j \in DOMAIN held : held'[j].file = held[j].file /\ held'[j].again = held[j].again
<1>1. PICK x : x = [held[i] EXCEPT !.open = FALSE]
  OBVIOUS
<1>2. /\ held \in Seq(Version) /\ held[i] \in Version /\ Len(held) \in Nat /\ DOMAIN held = 1..Len(held)
      /\ held' = [held EXCEPT ![i] = x]
  BY <1>1, RunFinds DEF CloseRelease
<1>3. x \in Version /\ x.file = held[i].file /\ x.again = held[i].again
  BY <1>1, <1>2 DEF Version
<1>4. held' \in Seq(Version)
  BY <1>2, <1>3, ExceptSeq
<1> QED
  BY <1>2, <1>3, <1>4

(* After a release the versions held later are left.                       *)
LEMMA AfterRelease ==
  ASSUME Inv, NEW i \in DOMAIN held
  PROVE  /\ HeldAfter(i) \in Seq(Version) /\ DOMAIN HeldAfter(i) = 1..(Len(held) - i)
         /\ \A j \in 1..(Len(held) - i) : /\ i + j \in DOMAIN held
                                          /\ HeldAfter(i)[j].file = held[i + j].file
                                          /\ HeldAfter(i)[j].again = held[i + j].again
<1>1. Len(held) \in Nat /\ DOMAIN held = 1..Len(held) /\ i \in 1..Len(held) /\ \A j \in DOMAIN held : held[j] \in Version
  BY RunFinds
<1>2. PICK n : n = Len(held) - i
  OBVIOUS
<1>3. n \in Nat /\ \A j \in 1..n : i + j \in DOMAIN held
  BY <1>1, <1>2
<1>4. ASSUME NEW x \in Version
      PROVE  /\ [x EXCEPT !.open = FALSE] \in Version
             /\ [x EXCEPT !.open = FALSE].file = x.file /\ [x EXCEPT !.open = FALSE].again = x.again
  BY DEF Version
<1>5. HeldAfter(i) = [j \in 1..n |-> [held[i + j] EXCEPT !.open = FALSE]]
  BY <1>2 DEF HeldAfter
<1>6. HeldAfter(i) \in [1..n -> Version]
  BY <1>1, <1>3, <1>4, <1>5
<1>7. HeldAfter(i) \in Seq(Version)
  BY <1>3, <1>6, SeqDef
<1>8. ASSUME NEW j \in 1..n PROVE HeldAfter(i)[j].file = held[i + j].file /\ HeldAfter(i)[j].again = held[i + j].again
  <2>1. HeldAfter(i)[j] = [held[i + j] EXCEPT !.open = FALSE]
    BY <1>5
  <2> QED
    BY <1>1, <1>3, <1>4, <2>1
<1> QED
  BY <1>2, <1>3, <1>5, <1>7, <1>8

(* Steps that write versions: they hold, publish, release or quarantine an *)
(* archived file, or decide on a release.                                  *)
LEMMA VersionsKeep ==
  ASSUME Inv, \/ Hold \/ Publish \/ Release \/ ParserFails
              \/ \E i \in DOMAIN held : ApproveRelease(i) \/ RejectRelease(i)
  PROVE  Inv'
<1>1. UNCHANGED <<notice, proposals, entries, marker, archive>>
  BY DEF Hold, Publish, Release, ParserFails, ApproveRelease, RejectRelease, curated
<1>2. ASSUME NEW x \in RunRow \cup {NULL}, NEW H \in Seq(Version), NEW P \in archive \cup {published},
             run' = x, held' = H, published' = P, quarantined' \subseteq FileType,
             x # NULL => /\ x.release \in {0} \cup DOMAIN H
                         /\ x.rows # NULL => ApprovedList(x.rows, marker)
                         /\ x.file # NULL \/ x.release # 0 => x.file \in archive,
             \A i \in DOMAIN H : H[i].file \in archive
      PROVE  Inv'
  <2>1. archive \in SUBSET FileType /\ P \in FileType /\ archive' = archive
    BY <1>1, RunFinds
  <2>2. \A file \in archive \cup {P} : ApprovedList(file.content, file.asOf)
    BY RunFinds
  <2> QED
    BY <1>1, <1>2, <2>1, <2>2, RunStep
<1>3. CASE Hold
  <2>1. run # NULL /\ run \in RunRow /\ run.file # NULL /\ run.file \in archive
    BY <1>3, RunFinds DEF Hold, Parsed, Ingests, Running
  <2>2. PICK v : v = [file |-> run.file, again |-> run.again, open |-> TRUE]
    OBVIOUS
  <2>3. v \in Version /\ v.file = run.file
    BY <2>1, <2>2, RunFinds DEF RunRow, Version
  <2>4. PICK H : H = Append(held, v)
    OBVIOUS
  <2>5. H \in Seq(Version) /\ \A i \in DOMAIN H : H[i].file \in archive
    <3>1. /\ H \in Seq(Version) /\ Len(H) = Len(held) + 1 /\ H[Len(held) + 1] = v
          /\ \A i \in 1..Len(held) : H[i] = held[i]
      BY <2>3, <2>4, RunFinds, AppendProperties
    <3>2. DOMAIN H = 1..(Len(held) + 1)
      BY <3>1, LenProperties
    <3> QED
      BY <2>1, <2>3, <3>1, <3>2, RunFinds
  <2>6. run' = NULL /\ held' = H /\ published' = published /\ quarantined' = quarantined
    BY <1>3, <2>2, <2>4 DEF Hold
  <2> QED
    BY <1>2, <2>5, <2>6, RunFinds
<1>4. CASE Publish
  <2>1. run # NULL /\ run.file # NULL /\ run.file \in archive
    BY <1>4, RunFinds DEF Publish, Parsed, Ingests, Running
  <2>2. run' = NULL /\ held' = <<>> /\ published' = run.file /\ quarantined' = quarantined
    BY <1>4 DEF Publish
  <2>3. <<>> \in Seq(Version) /\ DOMAIN <<>> = {}
    OBVIOUS
  <2> QED
    BY <1>2, <2>1, <2>2, <2>3, RunFinds
<1>5. CASE Release
  <2>1. run # NULL /\ run \in RunRow /\ run.release \in DOMAIN held
    BY <1>5, RunFinds DEF Release, Running
  <2>2. PICK i \in DOMAIN held : i = run.release
    BY <2>1
  <2>3. PICK H : H = HeldAfter(i)
    OBVIOUS
  <2>4. H \in Seq(Version) /\ \A j \in DOMAIN H : H[j].file \in archive
    BY <2>3, AfterRelease, RunFinds
  <2>5. run' = NULL /\ held' = H /\ published' = run.file /\ quarantined' = quarantined
    BY <1>5, <2>2, <2>3 DEF Release
  <2>6. run.file \in archive
    BY <1>5, <2>1, RunFinds DEF Release
  <2> QED
    BY <1>2, <2>4, <2>5, <2>6, RunFinds
<1>6. CASE ParserFails
  <2>1. run # NULL /\ run.file # NULL /\ run.file \in archive
    BY <1>6, RunFinds DEF ParserFails, Parsed, Ingests, Running
  <2>2. run' = NULL /\ held' = held /\ published' = published /\ quarantined' = quarantined \cup {run.file}
    BY <1>6 DEF ParserFails
  <2>3. quarantined' \subseteq FileType
    BY <2>1, <2>2, RunFinds
  <2> QED
    BY <1>2, <2>2, <2>3, RunFinds
<1>7. ASSUME NEW i \in DOMAIN held, ApproveRelease(i) PROVE Inv'
  <2>1. PICK x, H : x = [NewRun EXCEPT !.file = held[i].file, !.again = held[i].again, !.release = i] /\ H = held'
    OBVIOUS
  <2>2. held[i] \in Version /\ held[i].file \in archive /\ i \in Nat
    BY RunFinds
  <2>3. x \in RunRow /\ x.rows = NULL /\ x.file = held[i].file /\ x.release = i
    BY <2>1, <2>2 DEF NewRun, RunRow, Version
  <2>4. H \in Seq(Version) /\ DOMAIN H = DOMAIN held /\ \A j \in DOMAIN H : H[j].file \in archive
    BY <1>7, <2>1, CloseWrites, RunFinds DEF ApproveRelease
  <2>5. run' = x /\ held' = H /\ published' = published /\ quarantined' = quarantined
    BY <1>7, <2>1 DEF ApproveRelease
  <2> HIDE <2>1
  <2> QED
    BY <1>2, <2>2, <2>3, <2>4, <2>5, RunFinds
<1>8. ASSUME NEW i \in DOMAIN held, RejectRelease(i) PROVE Inv'
  <2>1. PICK H : H = held'
    OBVIOUS
  <2>2. H \in Seq(Version) /\ DOMAIN H = DOMAIN held /\ \A j \in DOMAIN H : H[j].file \in archive
    BY <1>8, <2>1, CloseWrites, RunFinds DEF RejectRelease
  <2>3. run' = run /\ published' = published /\ quarantined' = quarantined
    BY <1>8 DEF RejectRelease
  <2> QED
    BY <1>2, <2>1, <2>2, <2>3, RunFinds
<1> QED
  BY <1>3, <1>4, <1>5, <1>6, <1>7, <1>8

(* The invariant holds at first and every step keeps it.                   *)
LEMMA InvInductive == /\ Init => Inv
                      /\ Inv /\ [Next]_vars => Inv'
<1>1. ASSUME Init PROVE Inv
  <2>1. MaxProposals \in Nat /\ Nothing \in Content
    BY CurationConstants DEF Nothing, Content
  <2>2. PICK f : f = [content |-> Nothing, asOf |-> 0]
    OBVIOUS
  <2>3. f \in FileType /\ f.content = Nothing /\ f.asOf = 0
    BY <2>1, <2>2 DEF FileType
  <2>4. proposals = <<>> /\ DOMAIN proposals = {} /\ Len(proposals) = 0 /\ proposals \in Seq(ProposalRow)
    BY <1>1 DEF Init
  <2>5. Types
    <3>1. held \in Seq(Version)
      BY <1>1 DEF Init
    <3> QED
      BY <1>1, <2>1, <2>2, <2>3, <2>4, <3>1 DEF Init, Types
  <2>6. OneOpen /\ AgentQuotes
    BY <2>4 DEF OneOpen, AgentQuotes
  <2>7. \A m : ApprovedList(Nothing, m)
    BY DEF ApprovedList, Nothing
  <2>8. ListsInv
    BY <1>1, <2>2, <2>3, <2>7 DEF Init, ListsInv
  <2> QED
    BY <2>5, <2>6, <2>8 DEF Inv
<1>2. ASSUME Inv, [Next]_vars PROVE Inv'
  <2>1. ASSUME UNCHANGED <<proposals, entries, marker, run, archive, held, quarantined, published>>,
               notice' \in [Act -> {"UNKNOWN", "NO_TEXT", "STORED", "EXTRACTED"}]
        PROVE  Inv'
    <3>1. Kept /\ Types' /\ OneOpen' /\ AgentQuotes'
      BY <1>2, <2>1 DEF Inv, Kept, Types, OneOpen, SameOpen, AgentQuotes
    <3> QED
      BY <1>2, <2>1, <3>1, ListsStay DEF Inv
  <2>2. CASE UNCHANGED vars
    BY <1>2, <2>1, <2>2 DEF vars, Inv, Types
  <2>3. ASSUME NEW a \in Act, Collect(a) PROVE Inv'
    BY <1>2, <2>1, <2>3 DEF Collect, StoreNotice, Inv, Types, versions
  <2>4. ASSUME NEW a \in Act, ExtractAnnexAct(a, Agent) PROVE Inv'
    BY <1>2, <2>4, ExtractKeeps
  <2>5. ASSUME NEW a \in Act, NEW by \in Analyst, AnnexExtractNotice(a, by) \/ AnnexImportCsv(a, by) PROVE Inv'
    BY <1>2, <2>5, ExtractKeeps, ImportKeeps DEF AnnexExtractNotice
  <2>6. ASSUME NEW c \in DOMAIN proposals, NEW who \in Reviewer, Approve(c, who) \/ Reject(c, who) PROVE Inv'
    BY <1>2, <2>6, ApproveKeeps, RejectKeeps
  <2>7. CASE \/ ScheduledPull \/ Claim \/ BuildReads \/ Archive \/ Fails \/ CrashAndResume
             \/ \E file \in archive : Reparse(file)
    BY <1>2, <2>7, RunKeeps
  <2>8. CASE \/ Hold \/ Publish \/ Release \/ ParserFails
             \/ \E i \in DOMAIN held : ApproveRelease(i) \/ RejectRelease(i)
    BY <1>2, <2>8, VersionsKeep
  <2> QED
    BY <1>2, <2>2, <2>3, <2>4, <2>5, <2>6, <2>7, <2>8 DEF Next
<1> QED
  BY <1>1, <1>2

-----------------------------------------------------------------------------
(* What may become of a proposal: it keeps what it says, and a reviewer who*)
(* did not file it decides it once.                                        *)
ProposalStep(p, q) ==
  /\ q.act = p.act /\ q.op = p.op /\ q.by = p.by /\ q.ok = p.ok /\ q.bad = p.bad /\ q.keyless = p.keyless
  /\ \/ q.status = p.status /\ q.reviewer = p.reviewer
     \/ /\ p.status = "PENDING" /\ q.status \in {"APPLIED", "REJECTED"}
        /\ q.reviewer \in Reviewer \ {p.by}

(* No proposal is lost, rewritten or decided twice.                        *)
DecidedOnce ==
  [][\A c \in DOMAIN proposals : c \in DOMAIN proposals' /\ ProposalStep(proposals[c], proposals'[c])]_vars

(* Nothing but the approval of a proposal that verified an entry adds it to*)
(* the list or takes it off.                                               *)
OnlyApprovalsChangeTheList ==
  [][\A v \in Vessel : entries'[v] # entries[v] =>
       \E c \in DOMAIN proposals :
         proposals[c].status = "PENDING" /\ proposals'[c].status = "APPLIED" /\ v \in proposals[c].ok]_vars

(* The published list goes back to an earlier change only when an archived *)
(* file was parsed again.                                                  *)
GoesBackByReparse == published'.asOf < published.asOf => run # NULL /\ run.again

BackByReparseOnly == [][GoesBackByReparse]_vars

Fresh(again) == again = FALSE

(* No file is newer than the newest change.  What was not parsed again -   *)
(* the run's file, a held version - is no older than what is published and *)
(* than the versions held before.  A run that releases a version has its   *)
(* file.                                                                   *)
AsOfOrder ==
  /\ \A file \in archive \cup {published} : file.asOf <= marker
  /\ \A i \in DOMAIN held : Fresh(held[i].again) =>
       /\ published.asOf <= held[i].file.asOf
       /\ \A j \in DOMAIN held : j < i => held[j].file.asOf <= held[i].file.asOf
  /\ run # NULL /\ run.file # NULL /\ run.release = 0 /\ Fresh(run.again) =>
       /\ published.asOf <= run.file.asOf
       /\ \A i \in DOMAIN held : held[i].file.asOf <= run.file.asOf
  /\ run # NULL /\ run.release # 0 =>
       run.file = held[run.release].file /\ run.again = held[run.release].again

(* The three at one step.                                                  *)
Proceeds ==
  /\ \A c \in DOMAIN proposals : c \in DOMAIN proposals' /\ ProposalStep(proposals[c], proposals'[c])
  /\ \A v \in Vessel : entries'[v] # entries[v] =>
       \E c \in DOMAIN proposals :
         proposals[c].status = "PENDING" /\ proposals'[c].status = "APPLIED" /\ v \in proposals[c].ok
  /\ AsOfOrder => GoesBackByReparse /\ AsOfOrder'

(* What the order is about.                                                *)
LEMMA OrderFinds ==
  ASSUME Inv
  PROVE  /\ marker \in Nat /\ published.asOf \in Nat /\ \A file \in archive : file.asOf \in Nat
         /\ \A i \in DOMAIN held : held[i].file \in archive /\ held[i].again \in BOOLEAN
         /\ run # NULL => /\ run.file # NULL => run.file \in archive /\ run.file.asOf \in Nat
                          /\ run.again \in BOOLEAN /\ run.release \in {0} \cup DOMAIN held
         /\ Len(held) \in Nat /\ DOMAIN held = 1..Len(held)
<1>1. MaxProposals \in Nat
  BY CurationConstants
<1>2. \A file \in FileType : file.asOf \in Nat
  BY <1>1 DEF FileType
<1>3. marker \in Nat
  BY <1>1 DEF Inv, Types
<1>4. \A i \in DOMAIN held : held[i].again \in BOOLEAN
  BY RunFinds DEF Version
<1>5. run # NULL => run.again \in BOOLEAN
  BY RunFinds DEF RunRow
<1> QED
  BY <1>2, <1>3, <1>4, <1>5, RunFinds

(* The run has no file after the step, one it parses again, the newest, or *)
(* the one it had before; what is new in the archive is the newest.        *)
CarriesOn ==
  /\ \A file \in archive' \ archive : file.asOf = marker
  /\ run' # NULL => \/ run'.file = NULL /\ run'.release = 0
                    \/ run'.again = TRUE /\ run'.release = 0
                    \/ run'.file.asOf = marker /\ run'.release = 0
                    \/ /\ run # NULL /\ run'.file = run.file
                       /\ run'.again = run.again /\ run'.release = run.release

(* Such a step keeps the order if it leaves the versions as they are.      *)
LEMMA OrderStays ==
  ASSUME Inv, AsOfOrder, UNCHANGED <<held, published>>, marker' \in Nat, marker <= marker', CarriesOn
  PROVE  AsOfOrder'
<1>1. ASSUME NEW file \in archive' \cup {published} PROVE file.asOf <= marker'
  <2>1. file.asOf \in Nat /\ file.asOf <= marker /\ marker \in Nat
    BY <1>1, OrderFinds DEF AsOfOrder, CarriesOn
  <2> QED
    BY <2>1
<1>2. ASSUME run' # NULL, run'.file # NULL, run'.release = 0, Fresh(run'.again)
      PROVE  /\ published.asOf <= run'.file.asOf
             /\ \A i \in DOMAIN held : held[i].file.asOf <= run'.file.asOf
  <2>1. CASE run'.file.asOf = marker
    BY <2>1, OrderFinds DEF AsOfOrder
  <2>2. CASE /\ run # NULL /\ run'.file = run.file
             /\ run'.again = run.again /\ run'.release = run.release
    BY <1>2, <2>2 DEF AsOfOrder
  <2> QED
    BY <1>2, <2>1, <2>2 DEF Fresh, CarriesOn
<1>3. ASSUME run' # NULL, run'.release # 0
      PROVE  run'.file = held[run'.release].file /\ run'.again = held[run'.release].again
  BY <1>3 DEF AsOfOrder, CarriesOn
<1> QED
  BY <1>1, <1>2, <1>3 DEF AsOfOrder

(* A proposal that is filed comes after the others.                        *)
LEMMA FiledProceeds ==
  ASSUME Inv, NEW a, NEW op, NEW by, NEW e, ProposeEntries(a, op, by, e),
         UNCHANGED <<entries, marker, run, archive, held, quarantined, published>>
  PROVE  Proceeds
<1>1. proposals \in Seq(ProposalRow) /\ DOMAIN proposals = 1..Len(proposals) /\ Len(proposals) \in Nat
  BY Table DEF Inv, Types
<1>2. \A c \in DOMAIN proposals : c \in DOMAIN proposals' /\ proposals'[c] = proposals[c]
  <2>1. CASE Proposed(a, op)
    BY <2>1 DEF ProposeEntries
  <2>2. CASE ~Proposed(a, op)
    <3>1. PICK x : proposals' = Append(proposals, x)
      BY <2>2 DEF ProposeEntries
    <3> QED
      BY <1>1, <3>1
  <2> QED
    BY <2>1, <2>2
<1>3. ASSUME AsOfOrder PROVE AsOfOrder'
  <2>1. marker' \in Nat /\ marker <= marker'
    BY OrderFinds
  <2>2. CarriesOn
    BY DEF CarriesOn
  <2> QED
    BY <1>3, <2>1, <2>2, OrderStays
<1>4. GoesBackByReparse
  BY OrderFinds DEF GoesBackByReparse
<1> QED
  BY <1>2, <1>3, <1>4 DEF Proceeds, ProposalStep

(* A decision is made by somebody else than the author, and an approval    *)
(* changes the entries that were verified.                                 *)
LEMMA DecisionProceeds ==
  ASSUME Inv, NEW c \in DOMAIN proposals, NEW who \in Reviewer, Approve(c, who) \/ Reject(c, who)
  PROVE  Proceeds
<1>1. PICK status \in {"APPLIED", "REJECTED"} :
        /\ MayDecide(c, who) /\ Decided(c, who, status) /\ UNCHANGED <<archive, held, published>>
        /\ status = "APPLIED" <=> Approve(c, who)
        /\ status = "REJECTED" => UNCHANGED <<entries, marker, run>>
  BY DEF Approve, Reject, Decided, versions
<1>2. /\ DOMAIN proposals' = DOMAIN proposals
      /\ \A d \in DOMAIN proposals \ {c} : proposals'[d] = proposals[d]
      /\ proposals'[c] = [proposals[c] EXCEPT !.status = status, !.reviewer = who]
      /\ proposals[c] \in ProposalRow /\ proposals[c].status = "PENDING" /\ proposals[c].by # who
  BY <1>1, Table DEF Inv, Decided, MayDecide
<1>3. PICK x, y : x = proposals[c] /\ y = [x EXCEPT !.status = status, !.reviewer = who]
  OBVIOUS
<1>4. /\ x \in ProposalRow /\ y = proposals'[c] /\ x.status = "PENDING" /\ x.by # who
      /\ y.status = status /\ y.reviewer = who
      /\ y.act = x.act /\ y.op = x.op /\ y.by = x.by /\ y.ok = x.ok /\ y.bad = x.bad /\ y.keyless = x.keyless
  BY <1>2, <1>3 DEF ProposalRow
<1>5. ASSUME NEW d \in DOMAIN proposals
      PROVE  d \in DOMAIN proposals' /\ ProposalStep(proposals[d], proposals'[d])
  <2>1. CASE d = c
    BY <1>2, <1>3, <1>4, <2>1 DEF ProposalStep
  <2>2. CASE d # c
    BY <1>2, <2>2 DEF ProposalStep
  <2> QED
    BY <2>1, <2>2
<1>6. ASSUME NEW v \in Vessel, entries'[v] # entries[v]
      PROVE  proposals[c].status = "PENDING" /\ proposals'[c].status = "APPLIED" /\ v \in proposals[c].ok
  <2>1. Approve(c, who) /\ status = "APPLIED"
    BY <1>1, <1>6
  <2>2. entries' = [w \in Vessel |-> IF w \notin Applied(c) THEN entries[w]
                                     ELSE IF proposals[c].op = "ADD" THEN c ELSE NULL]
    BY <2>1 DEF Approve
  <2>3. v \in Applied(c)
    BY <1>6, <2>2
  <2> QED
    BY <1>2, <1>4, <2>1, <2>3 DEF Applied
<1>7. ASSUME AsOfOrder PROVE AsOfOrder'
  <2>1. c \in Nat /\ marker \in Nat
    BY Table, OrderFinds DEF Inv
  <2>2. marker' \in Nat /\ marker <= marker'
    BY <1>1, <2>1 DEF Approve
  <2>3. run' = run \/ (run'.file = NULL /\ run'.release = 0)
    BY <1>1 DEF Approve, Enqueued, NewRun
  <2>4. CarriesOn
    BY <1>1, <2>3 DEF CarriesOn
  <2> QED
    BY <1>1, <1>7, <2>2, <2>4, OrderStays
<1>8. GoesBackByReparse
  BY <1>1, OrderFinds DEF GoesBackByReparse
<1> QED
  BY <1>5, <1>6, <1>7, <1>8 DEF Proceeds

(* A run that leaves the versions has no file, the newest, or an old one   *)
(* that it parses again.                                                   *)
LEMMA RunProceeds ==
  ASSUME Inv, AsOfOrder,
         \/ ScheduledPull \/ Claim \/ BuildReads \/ Archive \/ Fails \/ ParserFails \/ CrashAndResume
         \/ \E file \in archive : Reparse(file)
  PROVE  GoesBackByReparse /\ AsOfOrder'
<1>1. UNCHANGED <<held, published, marker>>
  BY DEF ScheduledPull, Claim, BuildReads, Archive, Fails, ParserFails, CrashAndResume, Reparse, curated, versions
<1>2. /\ marker \in Nat /\ marker <= marker
      /\ run # NULL => run \in RunRow
      /\ NewRun.file = NULL /\ NewRun.release = 0
  BY OrderFinds, RunFinds
<1>3. CarriesOn => GoesBackByReparse /\ AsOfOrder'
  <2>1. marker' \in Nat /\ marker <= marker' /\ UNCHANGED <<held, published>>
    BY <1>1, <1>2
  <2>2. GoesBackByReparse
    BY <2>1, OrderFinds DEF GoesBackByReparse
  <2> QED
    BY <2>1, <2>2, OrderStays
<1>4. CASE ScheduledPull \/ Fails \/ ParserFails
  BY <1>2, <1>3, <1>4 DEF ScheduledPull, Fails, ParserFails, CarriesOn
<1>5. CASE Claim \/ BuildReads \/ CrashAndResume
  <2>1. run # NULL /\ archive' = archive
    BY <1>5 DEF Claim, BuildReads, CrashAndResume, Ingests, Running
  <2>2. PICK x : /\ run' = x
                 /\ \/ x = [run EXCEPT !.status = "RUNNING"] \/ x = [run EXCEPT !.rows = entries]
                    \/ x = [run EXCEPT !.status = "QUEUED", !.rows = NULL]
    BY <1>5 DEF Claim, BuildReads, CrashAndResume
  <2>3. run \in RunRow
    BY <1>2, <2>1
  <2>4. x.file = run.file /\ x.again = run.again /\ x.release = run.release
    BY <2>2, <2>3 DEF RunRow
  <2> QED
    BY <1>3, <2>1, <2>2, <2>4 DEF CarriesOn
<1>6. CASE Archive
  <2>1. PICK b, A : b = Built /\ A = archive \cup {b}
    OBVIOUS
  <2>2. PICK x : x = [run EXCEPT !.rows = NULL, !.file = b]
    OBVIOUS
  <2>3. run # NULL /\ run.file = NULL /\ archive' = A /\ b.asOf = marker /\ (run' = NULL \/ run' = x)
    BY <1>6, <2>1, <2>2 DEF Archive, Ingests, Running, Built
  <2>4. x.file = b /\ x.release = run.release /\ x.again = run.again
    BY <1>2, <2>2, <2>3 DEF RunRow
  <2>5. run.release = 0
    BY <1>6 DEF Archive, Ingests
  <2>6. PICK y : y = run' /\ (y = NULL \/ y = x)
    BY <2>3
  <2>7. y # NULL => y.file.asOf = marker /\ y.release = 0
    BY <2>3, <2>4, <2>5, <2>6
  <2>8. \A file \in A \ archive : file.asOf = marker
    BY <2>1, <2>3
  <2>9. CarriesOn
    BY <2>3, <2>6, <2>7, <2>8 DEF CarriesOn
  <2> QED
    BY <1>3, <2>9
<1>7. ASSUME NEW file \in archive, Reparse(file) PROVE GoesBackByReparse /\ AsOfOrder'
  <2>1. PICK x : x = [NewRun EXCEPT !.file = file, !.again = TRUE]
    OBVIOUS
  <2>2. x.again = TRUE /\ x.release = 0
    BY <2>1 DEF NewRun
  <2> QED
    BY <1>3, <1>7, <2>1, <2>2 DEF Reparse, CarriesOn
<1> QED
  BY <1>4, <1>5, <1>6, <1>7

(* A version that is held comes after those held before; what is published *)
(* or released is no older than what it replaces, unless it was parsed     *)
(* again, and no newer than what stays held.                               *)
LEMMA VersionsProceed ==
  ASSUME Inv, AsOfOrder,
         \/ Hold \/ Publish \/ Release \/ \E i \in DOMAIN held : ApproveRelease(i) \/ RejectRelease(i)
  PROVE  GoesBackByReparse /\ AsOfOrder'
<1>1. UNCHANGED <<marker, archive>>
  BY DEF Hold, Publish, Release, ApproveRelease, RejectRelease, curated
<1>2. ASSUME NEW P \in archive \cup {published} PROVE \A file \in archive \cup {P} : file.asOf <= marker
  BY <1>2, OrderFinds DEF AsOfOrder
<1>3. CASE Hold
  <2>1. run # NULL /\ run \in RunRow /\ run.file # NULL /\ run.file \in archive /\ run.release = 0
    BY <1>3, RunFinds DEF Hold, Parsed, Ingests, Running
  <2>2. PICK v : v = [file |-> run.file, again |-> run.again, open |-> TRUE]
    OBVIOUS
  <2>3. v \in Version /\ v.file = run.file /\ v.again = run.again
    BY <2>1, <2>2, RunFinds DEF RunRow, Version
  <2>4. held' = Append(held, v) /\ run' = NULL /\ published' = published
    BY <1>3, <2>2 DEF Hold
  <2>5. PICK n : n = Len(held)
    OBVIOUS
  <2>6. n \in Nat /\ DOMAIN held = 1..n /\ held'[n + 1] = v /\ \A i \in 1..n : held'[i] = held[i]
    BY <2>3, <2>4, <2>5, RunFinds, AppendProperties
  <2>7. DOMAIN held' = 1..(n + 1)
    BY <2>3, <2>4, <2>5, RunFinds, AppendProperties, LenProperties
  <2>8. ASSUME NEW i \in DOMAIN held', Fresh(held'[i].again)
        PROVE  /\ published.asOf <= held'[i].file.asOf
               /\ \A j \in DOMAIN held' : j < i => held'[j].file.asOf <= held'[i].file.asOf
    <3>1. CASE i = n + 1
      BY <2>1, <2>3, <2>6, <2>7, <2>8, <3>1 DEF AsOfOrder
    <3>2. CASE i \in 1..n
      BY <2>6, <2>7, <2>8, <3>2 DEF AsOfOrder
    <3> QED
      BY <2>6, <2>7, <3>1, <3>2
  <2>9. AsOfOrder'
    BY <1>1, <1>2, <2>4, <2>8 DEF AsOfOrder
  <2> QED
    BY <2>4, <2>9, OrderFinds DEF GoesBackByReparse
<1>4. CASE Publish
  <2>1. /\ run # NULL /\ run.file # NULL /\ run.release = 0 /\ run.file \in archive
        /\ run.file.asOf \in Nat /\ run.again \in BOOLEAN
    BY <1>4, OrderFinds DEF Publish, Parsed, Ingests, Running
  <2>2. run' = NULL /\ held' = <<>> /\ published' = run.file
    BY <1>4 DEF Publish
  <2>3. DOMAIN held' = {}
    BY <2>2
  <2>4. AsOfOrder'
    BY <1>1, <1>2, <2>1, <2>2, <2>3 DEF AsOfOrder
  <2>5. run.again = FALSE => published.asOf <= run.file.asOf
    BY <2>1 DEF AsOfOrder, Fresh
  <2>6. GoesBackByReparse
    BY <2>1, <2>2, <2>5, OrderFinds DEF GoesBackByReparse
  <2> QED
    BY <2>4, <2>6
<1>5. CASE Release
  <2>1. PICK i \in DOMAIN held : /\ run # NULL /\ i = run.release /\ i # 0
                                 /\ run.file = held[i].file /\ run.again = held[i].again
    BY <1>5, OrderFinds DEF Release, Running, AsOfOrder
  <2>2. PICK n, k : n = Len(held) - i /\ k = Len(held)
    OBVIOUS
  <2>3. n \in Nat /\ k \in Nat /\ i \in 1..k /\ n = k - i /\ DOMAIN held = 1..k
    BY <2>2, OrderFinds
  <2>4. /\ run' = NULL /\ published' = held[i].file /\ DOMAIN held' = 1..n
        /\ \A j \in 1..n : /\ i + j \in DOMAIN held
                           /\ held'[j].file = held[i + j].file /\ held'[j].again = held[i + j].again
    BY <1>5, <2>1, <2>2, AfterRelease DEF Release
  <2>5. ASSUME NEW l \in DOMAIN held', Fresh(held'[l].again)
        PROVE  /\ published'.asOf <= held'[l].file.asOf
               /\ \A j \in DOMAIN held' : j < l => held'[j].file.asOf <= held'[l].file.asOf
    <3>1. l \in Nat /\ i + l \in DOMAIN held /\ Fresh(held[i + l].again) /\ i < i + l /\ i \in DOMAIN held
      BY <2>3, <2>4, <2>5
    <3>2. held[i].file.asOf <= held[i + l].file.asOf
      BY <3>1 DEF AsOfOrder
    <3>3. ASSUME NEW j \in DOMAIN held', j < l PROVE held'[j].file.asOf <= held'[l].file.asOf
      <4>1. i + j \in DOMAIN held /\ i + j < i + l
        BY <2>3, <2>4, <3>1, <3>3
      <4>2. held[i + j].file.asOf <= held[i + l].file.asOf
        BY <3>1, <4>1 DEF AsOfOrder
      <4> QED
        BY <2>4, <2>5, <3>3, <4>2
    <3> QED
      BY <2>4, <2>5, <3>2, <3>3
  <2>6. published' \in archive
    BY <2>4, OrderFinds
  <2>7. AsOfOrder'
    BY <1>1, <1>2, <2>4, <2>5, <2>6 DEF AsOfOrder
  <2>8. held[i].again = FALSE => published.asOf <= held[i].file.asOf
    BY DEF AsOfOrder, Fresh
  <2>9. held[i].again \in BOOLEAN /\ held[i].file.asOf \in Nat /\ published.asOf \in Nat
    BY OrderFinds
  <2>10. GoesBackByReparse
    BY <2>1, <2>4, <2>8, <2>9 DEF GoesBackByReparse
  <2> QED
    BY <2>7, <2>10
<1>6. ASSUME NEW i \in DOMAIN held, CloseRelease(i), published' = published, NEW x, run' = x,
             \/ x = run
             \/ x.release = i /\ x.file = held[i].file /\ x.again = held[i].again
      PROVE  AsOfOrder'
  <2>1. /\ DOMAIN held' = DOMAIN held
        /\ \A j \in DOMAIN held : held'[j].file = held[j].file /\ held'[j].again = held[j].again
    BY <1>6, CloseWrites
  <2>2. ASSUME NEW j \in DOMAIN held', Fresh(held'[j].again)
        PROVE  /\ published.asOf <= held'[j].file.asOf
               /\ \A k \in DOMAIN held' : k < j => held'[k].file.asOf <= held'[j].file.asOf
    BY <2>1, <2>2 DEF AsOfOrder
  <2>3. i # 0
    BY OrderFinds
  <2>4. ASSUME x # NULL, x.file # NULL, x.release = 0, Fresh(x.again)
        PROVE  published.asOf <= x.file.asOf /\ \A j \in DOMAIN held' : held'[j].file.asOf <= x.file.asOf
    BY <1>6, <2>1, <2>3, <2>4 DEF AsOfOrder
  <2>5. ASSUME x # NULL, x.release # 0
        PROVE  x.file = held'[x.release].file /\ x.again = held'[x.release].again
    BY <1>6, <2>1, <2>5, OrderFinds DEF AsOfOrder
  <2>6. \A file \in archive \cup {published} : file.asOf <= marker
    BY <1>2
  <2> QED
    BY <1>1, <1>6, <2>2, <2>4, <2>5, <2>6 DEF AsOfOrder
<1>7. ASSUME NEW i \in DOMAIN held, ApproveRelease(i) PROVE AsOfOrder'
  <2>1. PICK x : x = [NewRun EXCEPT !.file = held[i].file, !.again = held[i].again, !.release = i]
    OBVIOUS
  <2>2. x.release = i /\ x.file = held[i].file /\ x.again = held[i].again
    BY <2>1 DEF NewRun
  <2> QED
    BY <1>6, <1>7, <2>1, <2>2 DEF ApproveRelease
<1>8. ASSUME NEW i \in DOMAIN held, RejectRelease(i) PROVE AsOfOrder'
  BY <1>6, <1>8 DEF RejectRelease
<1>9. ASSUME NEW i \in DOMAIN held, ApproveRelease(i) \/ RejectRelease(i) PROVE GoesBackByReparse
  <2>1. published' = published
    BY <1>9 DEF ApproveRelease, RejectRelease
  <2> QED
    BY <2>1, OrderFinds DEF GoesBackByReparse
<1> QED
  BY <1>3, <1>4, <1>5, <1>7, <1>8, <1>9

(* Every step proceeds.                                                    *)
LEMMA StepProceeds == Inv /\ [Next]_vars => Proceeds
<1> SUFFICES ASSUME Inv, [Next]_vars PROVE Proceeds
  OBVIOUS
<1>1. ASSUME UNCHANGED <<proposals, entries>>,
             AsOfOrder => GoesBackByReparse /\ AsOfOrder'
      PROVE  Proceeds
  BY <1>1 DEF Proceeds, ProposalStep
<1>0. ASSUME UNCHANGED <<proposals, entries, marker, run, archive, held, published>> PROVE Proceeds
  <2>1. marker' \in Nat /\ marker <= marker' /\ published.asOf \in Nat
    BY <1>0, OrderFinds
  <2>2. CarriesOn
    BY <1>0 DEF CarriesOn
  <2>3. AsOfOrder => AsOfOrder'
    BY <1>0, <2>1, <2>2, OrderStays
  <2>4. GoesBackByReparse
    BY <1>0, <2>1 DEF GoesBackByReparse
  <2> QED
    BY <1>0, <1>1, <2>3, <2>4
<1>2. ASSUME NEW a \in Act, Collect(a) PROVE Proceeds
  BY <1>0, <1>2 DEF Collect, versions
<1>3. ASSUME NEW a \in Act, NEW by, ExtractAnnexAct(a, by) PROVE Proceeds
  BY <1>3, FiledProceeds DEF ExtractAnnexAct, versions
<1>4. ASSUME NEW a \in Act, NEW by \in Analyst, AnnexImportCsv(a, by) PROVE Proceeds
  BY <1>4, FiledProceeds DEF AnnexImportCsv, versions
<1>5. CASE UNCHANGED vars
  BY <1>0, <1>5 DEF vars
<1>6. CASE \/ ScheduledPull \/ Claim \/ BuildReads \/ Archive \/ Fails \/ ParserFails \/ CrashAndResume
           \/ \E file \in archive : Reparse(file)
  <2>1. UNCHANGED <<proposals, entries>>
    BY <1>6 DEF ScheduledPull, Claim, BuildReads, Archive, Fails, ParserFails, CrashAndResume, Reparse, curated
  <2> QED
    BY <1>1, <1>6, <2>1, RunProceeds
<1>7. CASE \/ Hold \/ Publish \/ Release \/ \E i \in DOMAIN held : ApproveRelease(i) \/ RejectRelease(i)
  <2>1. UNCHANGED <<proposals, entries>>
    BY <1>7 DEF Hold, Publish, Release, ApproveRelease, RejectRelease, curated
  <2> QED
    BY <1>1, <1>7, <2>1, VersionsProceed
<1> QED
  BY <1>2, <1>3, <1>4, <1>5, <1>6, <1>7, DecisionProceeds DEF Next, AnnexExtractNotice

-----------------------------------------------------------------------------
(* Every row keeps its type, the entries are those of applied proposals,   *)
(* and an act has one open proposal per operation (propose_entries,        *)
(* apply_annex_proposal).                                                  *)
THEOREM CurationTypeCorrect == Spec => []CurationTypeOK
<1>1. Spec => []Inv
  BY InvInductive, PTL DEF Spec
<1>2. Inv => CurationTypeOK
  BY InvSuffices
<1> QED
  BY <1>1, <1>2, PTL

(* For any number of acts, entries, people and proposals: what is          *)
(* published was verified and approved by a second person, comes from the  *)
(* act's text if the agent proposed it, and is no newer than the change    *)
(* the file says it is curated as of (apply_annex_proposal,                *)
(* build_curated_artifact).                                                *)
THEOREM ApprovedWhenListed == Spec => []ListedWasApproved
<1>1. Spec => []Inv
  BY InvInductive, PTL DEF Spec
<1>2. Inv => ListedWasApproved
  BY InvSuffices
<1> QED
  BY <1>1, <1>2, PTL

(* A decision is final: a proposal keeps what it says, whoever extracts,   *)
(* imports or decides meanwhile, and is decided at most once, by a reviewer*)
(* who did not file it (decide, review.py).                                *)
THEOREM DecisionsAreFinal == Spec => DecidedOnce
<1>1. Inv /\ [Next]_vars => [\A c \in DOMAIN proposals :
                              c \in DOMAIN proposals' /\ ProposalStep(proposals[c], proposals'[c])]_vars
  BY StepProceeds DEF Proceeds
<1>2. Spec => []Inv
  BY InvInductive, PTL DEF Spec
<1> QED
  BY <1>1, <1>2, PTL DEF Spec, DecidedOnce

(* An entry comes on the curated list or goes only when a proposal that    *)
(* verified it is approved: neither a run, a failure nor a notice touches  *)
(* the list (apply_annex_proposal).                                        *)
THEOREM ListChangesByApproval == Spec => OnlyApprovalsChangeTheList
<1>1. Inv /\ [Next]_vars =>
        [\A v \in Vessel : entries'[v] # entries[v] =>
           \E c \in DOMAIN proposals :
             proposals[c].status = "PENDING" /\ proposals'[c].status = "APPLIED" /\ v \in proposals[c].ok]_vars
  BY StepProceeds DEF Proceeds
<1>2. Spec => []Inv
  BY InvInductive, PTL DEF Spec
<1> QED
  BY <1>1, <1>2, PTL DEF Spec, OnlyApprovalsChangeTheList

(* While a source has one run at a time, the published list goes back to an*)
(* earlier change only by a file that was parsed again (reparse_archived,  *)
(* the CLI's reparse), possibly held and released meanwhile: neither a run *)
(* that publishes what its predecessor archived, nor a release that waited *)
(* while other approvals and releases came, puts an older list in force    *)
(* (publish_version refuses a lower seq, and supersedes what is held).     *)
THEOREM PublishedGoesForward == Spec => BackByReparseOnly
<1>1. Init => AsOfOrder
  <2>1. 0 <= 0 /\ DOMAIN <<>> = {}
    OBVIOUS
  <2>2. [content |-> Nothing, asOf |-> 0].asOf = 0
    OBVIOUS
  <2> QED
    BY <2>1, <2>2 DEF Init, AsOfOrder
<1>2. Inv /\ AsOfOrder /\ [Next]_vars =>
        AsOfOrder' /\ [GoesBackByReparse]_vars
  BY StepProceeds DEF Proceeds
<1>3. Spec => []Inv
  BY InvInductive, PTL DEF Spec
<1> QED
  BY <1>1, <1>2, <1>3, PTL DEF Spec, BackByReparseOnly
=============================================================================
