-------------------------- MODULE ConfigChange_proofs --------------------------
(***************************************************************************)
(* Proofs about ConfigChange, for any users, URLs and bounds.  A proposal  *)
(* and the version it names go through their states together, no two       *)
(* proposals name the same version, and what a row says of the change it   *)
(* makes is never rewritten: that is what the review relies on. So the     *)
(* history of the configuration is append-only, and nothing the agent      *)
(* wrote comes into force without an admin.                                *)
(***************************************************************************)
EXTENDS ConfigChange, SequenceTheorems, TLAPS

\* The source runs with a version that exists and is in force.
SourceRunsAVersion ==
  source.version \in DOMAIN version /\ version[source.version].status = "ACTIVE"

\* A version was made from an earlier one; only the first comes from nowhere.
BaseIsEarlier ==
  \A i \in DOMAIN version : IF i = 1 THEN version[i].trusted ELSE version[i].base \in 1..i - 1

\* A proposal names the version that its author wrote.
ProposalNamesItsVersion ==
  \A i \in DOMAIN proposal : proposal[i].kind = "CONFIG_CHANGE" =>
    /\ proposal[i].version \in DOMAIN version
    /\ version[proposal[i].version].author = proposal[i].by

\* No version is proposed twice.
OneProposalEach ==
  \A i, j \in DOMAIN proposal :
    /\ proposal[i].kind = "CONFIG_CHANGE" /\ proposal[j].kind = "CONFIG_CHANGE"
    /\ proposal[i].version = proposal[j].version
    => i = j

Inv == /\ ConfigTypeOK
       /\ OneVersionInForce /\ SourceRunsAVersion /\ BaseIsEarlier
       /\ ProposalNamesItsVersion /\ OneProposalEach
       /\ FourEyes
-----------------------------------------------------------------------------
(* Rows *)

\* The positions of the rows are the numbers up to the last.
LEMMA Positions ==
  ASSUME ConfigTypeOK
  PROVE  /\ Last \in Nat \ {0} /\ Last \in 1..MaxVersions /\ DOMAIN version = 1..Last
         /\ Len(proposal) \in Nat /\ Len(proposal) <= MaxProposals /\ DOMAIN proposal = 1..Len(proposal)
         /\ \A i \in 1..Last : version[i] \in VersionRow
         /\ \A i \in 1..Len(proposal) : proposal[i] \in ProposalRow
<1>1. /\ Len(version) \in Nat /\ version \in [1..Len(version) -> VersionRow]
      /\ Len(proposal) \in Nat /\ proposal \in [1..Len(proposal) -> ProposalRow]
  BY LenProperties DEF ConfigTypeOK
<1> QED
  BY <1>1, BoundAssumption DEF ConfigTypeOK, Last

\* Putting a version in force changes nothing but the status of the rows.
LEMMA InForceRows ==
  ASSUME NEW rows \in Seq(VersionRow), NEW n \in 1..Len(rows)
  PROVE  /\ InForce(rows, n) \in Seq(VersionRow) /\ Len(InForce(rows, n)) = Len(rows)
         /\ \A i \in 1..Len(rows) :
              /\ InForce(rows, n)[i].config = rows[i].config
              /\ InForce(rows, n)[i].author = rows[i].author
              /\ InForce(rows, n)[i].base = rows[i].base
              /\ InForce(rows, n)[i].approver = rows[i].approver
              /\ InForce(rows, n)[i].trusted = rows[i].trusted
              /\ InForce(rows, n)[i].status =
                   IF i = n THEN "ACTIVE"
                   ELSE IF rows[i].status = "ACTIVE" THEN "SUPERSEDED" ELSE rows[i].status
<1> DEFINE new(i) == [rows[i] EXCEPT !.status = IF i = n THEN "ACTIVE"
                                                ELSE IF @ = "ACTIVE" THEN "SUPERSEDED" ELSE @]
<1>1. Len(rows) \in Nat /\ DOMAIN rows = 1..Len(rows) /\ \A i \in 1..Len(rows) : rows[i] \in VersionRow
  BY LenProperties, ElementOfSeq
<1>2. ASSUME NEW i \in 1..Len(rows)
      PROVE  /\ new(i) \in VersionRow
             /\ new(i).config = rows[i].config /\ new(i).author = rows[i].author
             /\ new(i).base = rows[i].base /\ new(i).approver = rows[i].approver
             /\ new(i).trusted = rows[i].trusted
             /\ new(i).status = IF i = n THEN "ACTIVE"
                                ELSE IF rows[i].status = "ACTIVE" THEN "SUPERSEDED" ELSE rows[i].status
  BY <1>1 DEF VersionRow
<1>3. InForce(rows, n) = [i \in 1..Len(rows) |-> new(i)]
  BY <1>1 DEF InForce
<1> HIDE DEF new
<1>4. [i \in 1..Len(rows) |-> new(i)] \in Seq(VersionRow)
  BY <1>1, <1>2, IsASeq
<1>5. Len([i \in 1..Len(rows) |-> new(i)]) = Len(rows)
  BY <1>1, <1>4, LenProperties
<1> QED
  BY <1>2, <1>3, <1>4, <1>5

\* A decision changes the status of one proposal.
LEMMA DecidedRows ==
  ASSUME ConfigTypeOK, NEW n \in DOMAIN proposal, NEW status \in {"APPLIED", "REJECTED"},
         proposal' = [proposal EXCEPT ![n].status = status]
  PROVE  /\ proposal' \in Seq(ProposalRow) /\ Len(proposal') = Len(proposal)
         /\ DOMAIN proposal' = DOMAIN proposal
         /\ \A i \in DOMAIN proposal :
              /\ proposal'[i].kind = proposal[i].kind
              /\ proposal'[i].by = proposal[i].by
              /\ proposal'[i].version = proposal[i].version
              /\ proposal'[i].status = IF i = n THEN status ELSE proposal[i].status
<1> DEFINE row == [proposal[n] EXCEPT !.status = status]
<1>1. proposal \in Seq(ProposalRow) /\ DOMAIN proposal = 1..Len(proposal) /\ proposal[n] \in ProposalRow
  BY Positions DEF ConfigTypeOK
<1>2. /\ row \in ProposalRow /\ row.kind = proposal[n].kind /\ row.by = proposal[n].by
      /\ row.version = proposal[n].version /\ row.status = status
  BY <1>1 DEF ProposalRow
<1>3. proposal' = [proposal EXCEPT ![n] = row]
  BY <1>1
<1> HIDE DEF row
<1>4. /\ proposal' \in Seq(ProposalRow) /\ Len(proposal') = Len(proposal)
      /\ \A i \in 1..Len(proposal) : proposal'[i] = IF i = n THEN row ELSE proposal[i]
  BY <1>1, <1>2, <1>3, ExceptSeq
<1>5. DOMAIN proposal' = DOMAIN proposal
  BY <1>1, <1>3
<1> QED
  BY <1>1, <1>2, <1>4, <1>5

\* A row of a version takes another status or an approver and keeps what it says of the change.
LEMMA ReplacedRow ==
  ASSUME ConfigTypeOK, NEW n \in 1..Last, NEW row \in VersionRow
  PROVE  /\ [version EXCEPT ![n] = row] \in Seq(VersionRow)
         /\ Len([version EXCEPT ![n] = row]) = Last
         /\ DOMAIN [version EXCEPT ![n] = row] = 1..Last
         /\ \A i \in 1..Last : [version EXCEPT ![n] = row][i] = IF i = n THEN row ELSE version[i]
  BY Positions, ExceptSeq DEF ConfigTypeOK, Last

\* A form differs from a configuration in one value of its type.
LEMMA OneChangeType ==
  ASSUME NEW config \in Config, NEW changed \in OneChange(config)
  PROVE  changed \in Config
  BY DEF OneChange, Config

-----------------------------------------------------------------------------
(* The steps *)

\* A version that is proposed waits beside the one in force.
LEMMA ProposedKeeps ==
  ASSUME Inv,
         NEW row \in VersionRow, row.status = "PENDING_APPROVAL", row.base = source.version,
         NEW p \in ProposalRow, p.kind = "CONFIG_CHANGE", p.status = "PENDING",
         p.version = Last + 1, p.by = row.author,
         Last < MaxVersions, Len(proposal) < MaxProposals,
         version' = Append(version, row), proposal' = Append(proposal, p),
         UNCHANGED <<source, form, switches>>
  PROVE  Inv'
<1>0. /\ Last \in Nat \ {0} /\ DOMAIN version = 1..Last
      /\ Len(proposal) \in Nat /\ DOMAIN proposal = 1..Len(proposal)
      /\ \A i \in 1..Last : version[i] \in VersionRow
      /\ \A i \in 1..Len(proposal) : proposal[i] \in ProposalRow
  BY Positions DEF Inv
<1> USE DEF Inv
<1>1. /\ version' \in Seq(VersionRow) /\ Len(version') = Last + 1
      /\ \A i \in 1..Last : version'[i] = version[i]
      /\ version'[Last + 1] = row
      /\ DOMAIN version' = 1..Last + 1
  BY AppendProperties, LenProperties DEF ConfigTypeOK, Last
<1>2. /\ proposal' \in Seq(ProposalRow) /\ Len(proposal') = Len(proposal) + 1
      /\ \A i \in 1..Len(proposal) : proposal'[i] = proposal[i]
      /\ proposal'[Len(proposal) + 1] = p
      /\ DOMAIN proposal' = 1..Len(proposal) + 1
  BY AppendProperties, LenProperties DEF ConfigTypeOK
<1>3. source.version \in 1..Last
  BY <1>0 DEF SourceRunsAVersion
<1>4. ConfigTypeOK'
  <2>1. ASSUME NEW i \in DOMAIN proposal', proposal'[i].kind = "CONFIG_CHANGE"
        PROVE  <<proposal'[i].status, version'[proposal'[i].version].status>> \in
                 {<<"PENDING", "PENDING_APPROVAL">>, <<"REJECTED", "REJECTED">>,
                  <<"APPLIED", "ACTIVE">>, <<"APPLIED", "SUPERSEDED">>}
    <3>1. CASE i = Len(proposal) + 1
      BY <1>0, <1>1, <1>2, <3>1
    <3>2. CASE i \in 1..Len(proposal)
      BY <1>0, <1>1, <1>2, <2>1, <3>2 DEF ConfigTypeOK, ProposalNamesItsVersion
    <3>3. i = Len(proposal) + 1 \/ i \in 1..Len(proposal)
      BY <1>0, <1>2
    <3> QED
      BY <3>1, <3>2, <3>3
  <2>2. Len(version') \in 1..MaxVersions /\ Len(proposal') <= MaxProposals
    BY <1>0, <1>1, <1>2, BoundAssumption
  <2> QED
    BY <1>1, <1>2, <2>1, <2>2 DEF ConfigTypeOK
<1>5. OneVersionInForce' /\ SourceRunsAVersion'
  BY <1>0, <1>1, <1>3 DEF OneVersionInForce, SourceRunsAVersion
<1>6. BaseIsEarlier'
  BY <1>0, <1>1, <1>3 DEF BaseIsEarlier
<1>7. ProposalNamesItsVersion'
  BY <1>0, <1>1, <1>2 DEF ProposalNamesItsVersion
<1>8. OneProposalEach'
  BY <1>0, <1>2 DEF OneProposalEach, ProposalNamesItsVersion
<1>9. FourEyes'
  BY <1>0, <1>1 DEF FourEyes, BaseIsEarlier
<1> QED
  BY <1>4, <1>5, <1>6, <1>7, <1>8, <1>9

\* A version that needs no review is in force at once, and replaces no URL unless a seed brought it.
LEMMA AppliedKeeps ==
  ASSUME Inv,
         NEW row \in VersionRow, row.base = source.version,
         row.trusted \/ ~Replaces(row.config, source.config),
         Last < MaxVersions,
         version' = InForce(Append(version, row), Last + 1),
         source' \in SourceRow, source'.config = row.config, source'.version = Last + 1,
         UNCHANGED <<proposal, form, switches>>
  PROVE  Inv'
<1>0. /\ Last \in Nat \ {0} /\ DOMAIN version = 1..Last
      /\ Len(proposal) \in Nat /\ DOMAIN proposal = 1..Len(proposal)
      /\ \A i \in 1..Last : version[i] \in VersionRow
      /\ \A i \in 1..Len(proposal) : proposal[i] \in ProposalRow
  BY Positions DEF Inv
<1> DEFINE rows == Append(version, row)
<1>1. /\ rows \in Seq(VersionRow) /\ Len(rows) = Last + 1
      /\ \A i \in 1..Last : rows[i] = version[i]
      /\ rows[Last + 1] = row
      /\ version' = InForce(rows, Last + 1)
  BY AppendProperties DEF Inv, ConfigTypeOK, Last
<1> HIDE DEF rows
<1>2. /\ version' \in Seq(VersionRow) /\ Len(version') = Last + 1 /\ DOMAIN version' = 1..Last + 1
      /\ \A i \in 1..Last + 1 :
           /\ version'[i].config = rows[i].config
           /\ version'[i].author = rows[i].author
           /\ version'[i].base = rows[i].base
           /\ version'[i].approver = rows[i].approver
           /\ version'[i].trusted = rows[i].trusted
           /\ version'[i].status =
                IF i = Last + 1 THEN "ACTIVE"
                ELSE IF rows[i].status = "ACTIVE" THEN "SUPERSEDED" ELSE rows[i].status
  <2>1. Last + 1 \in 1..Len(rows)
    BY <1>0, <1>1
  <2>2. version' \in Seq(VersionRow) /\ Len(version') = Last + 1
    BY <1>1, <2>1, InForceRows
  <2>3. DOMAIN version' = 1..Last + 1
    BY <2>2, LenProperties
  <2> QED
    BY <1>1, <2>1, <2>2, <2>3, InForceRows
<1>3. \A i \in 1..Last :
        /\ version'[i].config = version[i].config
        /\ version'[i].author = version[i].author
        /\ version'[i].base = version[i].base
        /\ version'[i].approver = version[i].approver
        /\ version'[i].trusted = version[i].trusted
        /\ version'[i].status = IF version[i].status = "ACTIVE" THEN "SUPERSEDED" ELSE version[i].status
  BY <1>0, <1>1, <1>2
<1>4. /\ version'[Last + 1].config = row.config /\ version'[Last + 1].base = row.base
      /\ version'[Last + 1].trusted = row.trusted /\ version'[Last + 1].status = "ACTIVE"
  BY <1>0, <1>1, <1>2
<1>5. source.version \in 1..Last /\ version[source.version].config = source.config
  BY <1>0 DEF Inv, SourceRunsAVersion, OneVersionInForce
<1>6. \A i \in DOMAIN version' : i = Last + 1 \/ i \in 1..Last
  BY <1>0, <1>2
<1>7. ConfigTypeOK'
  <2>1. ASSUME NEW i \in DOMAIN proposal, proposal[i].kind = "CONFIG_CHANGE"
        PROVE  <<proposal[i].status, version'[proposal[i].version].status>> \in
                 {<<"PENDING", "PENDING_APPROVAL">>, <<"REJECTED", "REJECTED">>,
                  <<"APPLIED", "ACTIVE">>, <<"APPLIED", "SUPERSEDED">>}
    BY <1>0, <1>3, <2>1 DEF Inv, ConfigTypeOK, ProposalNamesItsVersion
  <2>2. Len(version') \in 1..MaxVersions
    BY <1>0, <1>2, BoundAssumption
  <2> QED
    BY <1>2, <2>1, <2>2 DEF Inv, ConfigTypeOK
<1>8. OneVersionInForce'
  BY <1>0, <1>2, <1>3, <1>4, <1>6 DEF OneVersionInForce, VersionRow
<1>9. SourceRunsAVersion'
  BY <1>0, <1>2, <1>4 DEF SourceRunsAVersion
<1>10. BaseIsEarlier'
  <2>1. Last + 1 # 1 /\ version'[Last + 1].base \in 1..(Last + 1) - 1
    BY <1>0, <1>4, <1>5
  <2>2. ASSUME NEW i \in 1..Last
        PROVE  IF i = 1 THEN version'[i].trusted ELSE version'[i].base \in 1..i - 1
    BY <1>0, <1>3 DEF Inv, BaseIsEarlier
  <2> QED
    BY <1>6, <2>1, <2>2 DEF BaseIsEarlier
<1>11. ProposalNamesItsVersion' /\ OneProposalEach'
  BY <1>0, <1>2, <1>3 DEF Inv, ProposalNamesItsVersion, OneProposalEach
<1>12. FourEyes'
  <2> SUFFICES ASSUME NEW i \in DOMAIN version',
                      version'[i].status \in {"ACTIVE", "SUPERSEDED"}, ~version'[i].trusted,
                      Replaces(version'[i].config, version'[version'[i].base].config)
               PROVE  /\ version'[i].approver \notin {version'[i].author, NULL}
                      /\ HostsListed(version'[i].config)
    BY DEF FourEyes
  <2>1. CASE i = Last + 1
    BY <1>3, <1>4, <1>5, <2>1
  <2>2. CASE i \in 1..Last
    <3>1. version[i].base \in 1..Last
      BY <1>0, <1>3, <2>2 DEF Inv, BaseIsEarlier
    <3>2. version[i].status \in {"ACTIVE", "SUPERSEDED"}
      BY <1>3, <2>2
    <3> QED
      BY <1>0, <1>3, <2>2, <3>1, <3>2, SMTT(40) DEF Inv, FourEyes
  <2> QED
    BY <1>6, <2>1, <2>2
<1> QED
  BY <1>7, <1>8, <1>9, <1>10, <1>11, <1>12 DEF Inv

\* A proposal that is rejected takes its version with it, which was never in force.
LEMMA RejectKeeps ==
  ASSUME Inv, NEW u \in Admin, NEW n \in DOMAIN proposal, Reject(u, n)
  PROVE  Inv'
<1>0. /\ Last \in Nat \ {0} /\ DOMAIN version = 1..Last
      /\ Len(proposal) \in Nat /\ DOMAIN proposal = 1..Len(proposal)
      /\ \A i \in 1..Last : version[i] \in VersionRow
      /\ \A i \in 1..Len(proposal) : proposal[i] \in ProposalRow
  BY Positions DEF Inv
<1>1. /\ proposal' \in Seq(ProposalRow) /\ Len(proposal') = Len(proposal)
      /\ DOMAIN proposal' = DOMAIN proposal
      /\ \A i \in DOMAIN proposal :
           /\ proposal'[i].kind = proposal[i].kind
           /\ proposal'[i].by = proposal[i].by
           /\ proposal'[i].version = proposal[i].version
           /\ proposal'[i].status = IF i = n THEN "REJECTED" ELSE proposal[i].status
  <2>1. proposal' = [proposal EXCEPT ![n].status = "REJECTED"]
    BY DEF Reject
  <2> QED
    BY <2>1, DecidedRows DEF Inv
<1>2. CASE proposal[n].kind # "CONFIG_CHANGE"
  <2>1. UNCHANGED <<source, version, form, switches>>
    BY <1>2 DEF Reject
  <2>2. ConfigTypeOK'
    BY <1>0, <1>1, <1>2, <2>1 DEF Inv, ConfigTypeOK
  <2>3. OneVersionInForce' /\ SourceRunsAVersion' /\ BaseIsEarlier' /\ FourEyes'
    BY <2>1 DEF Inv, OneVersionInForce, SourceRunsAVersion, BaseIsEarlier, FourEyes
  <2>4. ProposalNamesItsVersion' /\ OneProposalEach'
    BY <1>1, <2>1 DEF Inv, ProposalNamesItsVersion, OneProposalEach
  <2> QED
    BY <2>2, <2>3, <2>4 DEF Inv
<1>3. CASE proposal[n].kind = "CONFIG_CHANGE"
  <2> DEFINE m == proposal[n].version
             row == [version[m] EXCEPT !.status = "REJECTED"]
  <2>1. m \in 1..Last /\ proposal[n].status = "PENDING" /\ version[m].status = "PENDING_APPROVAL"
    BY <1>0, <1>3 DEF Reject, MayDecide, Inv, ConfigTypeOK, ProposalNamesItsVersion
  <2>2. /\ row \in VersionRow /\ row.config = version[m].config /\ row.author = version[m].author
        /\ row.base = version[m].base /\ row.approver = version[m].approver
        /\ row.trusted = version[m].trusted /\ row.status = "REJECTED"
    BY <1>0, <2>1 DEF VersionRow
  <2>3. version' = [version EXCEPT ![m] = row] /\ UNCHANGED <<source, form, switches>>
    BY <1>0, <1>3, <2>1 DEF Reject
  <2> HIDE DEF m, row
  <2>4. /\ version' \in Seq(VersionRow) /\ Len(version') = Last /\ DOMAIN version' = DOMAIN version
        /\ \A i \in 1..Last : version'[i] = IF i = m THEN row ELSE version[i]
    BY <1>0, <2>1, <2>2, <2>3, ReplacedRow DEF Inv
  <2>5. \A i \in 1..Last :
          /\ version'[i].config = version[i].config
          /\ version'[i].author = version[i].author
          /\ version'[i].base = version[i].base
          /\ version'[i].approver = version[i].approver
          /\ version'[i].trusted = version[i].trusted
          /\ version'[i].status = IF i = m THEN "REJECTED" ELSE version[i].status
    BY <2>2, <2>4
  <2>6. ConfigTypeOK'
    <3>1. ASSUME NEW i \in DOMAIN proposal, proposal[i].kind = "CONFIG_CHANGE"
          PROVE  <<proposal'[i].status, version'[proposal[i].version].status>> \in
                   {<<"PENDING", "PENDING_APPROVAL">>, <<"REJECTED", "REJECTED">>,
                    <<"APPLIED", "ACTIVE">>, <<"APPLIED", "SUPERSEDED">>}
      <4>1. CASE i = n
        BY <1>1, <2>1, <2>5, <4>1 DEF m
      <4>2. CASE i # n
        <5>1. proposal[i].version # m /\ proposal[i].version \in 1..Last
          BY <1>0, <1>3, <3>1, <4>2 DEF m, Inv, OneProposalEach, ProposalNamesItsVersion
        <5> QED
          BY <1>1, <2>5, <3>1, <4>2, <5>1, SMTT(40) DEF Inv, ConfigTypeOK
      <4> QED
        BY <4>1, <4>2
    <3>2. Len(version') \in 1..MaxVersions /\ Len(proposal') <= MaxProposals
      BY <1>1, <2>4 DEF Inv, ConfigTypeOK, Last
    <3> QED
      BY <1>1, <2>3, <2>4, <3>1, <3>2 DEF Inv, ConfigTypeOK
  <2>7. OneVersionInForce' /\ SourceRunsAVersion'
    BY <1>0, <2>1, <2>3, <2>4, <2>5 DEF Inv, OneVersionInForce, SourceRunsAVersion
  <2>8. BaseIsEarlier'
    BY <1>0, <2>4, <2>5 DEF Inv, BaseIsEarlier
  <2>9. ProposalNamesItsVersion' /\ OneProposalEach'
    BY <1>0, <1>1, <2>4, <2>5, SMTT(40) DEF Inv, ProposalNamesItsVersion, OneProposalEach
  <2>10. FourEyes'
    <3> SUFFICES ASSUME NEW i \in DOMAIN version',
                        version'[i].status \in {"ACTIVE", "SUPERSEDED"}, ~version'[i].trusted,
                        Replaces(version'[i].config, version'[version'[i].base].config)
                 PROVE  /\ version'[i].approver \notin {version'[i].author, NULL}
                        /\ HostsListed(version'[i].config)
      BY DEF FourEyes
    <3>1. i \in 1..Last /\ version[i].base \in 1..Last /\ version[i].status = version'[i].status
      BY <1>0, <2>4, <2>5 DEF Inv, BaseIsEarlier
    <3> QED
      BY <1>0, <2>5, <3>1 DEF Inv, FourEyes
  <2> QED
    BY <2>6, <2>7, <2>8, <2>9, <2>10 DEF Inv
<1> QED
  BY <1>2, <1>3

\* A version that is approved replaces the one it was made from, with an approver who is not its author.
LEMMA ApproveKeeps ==
  ASSUME Inv, NEW u \in Admin, NEW n \in DOMAIN proposal, ApproveChange(u, n)
  PROVE  Inv'
<1>0. /\ Last \in Nat \ {0} /\ DOMAIN version = 1..Last
      /\ Len(proposal) \in Nat /\ DOMAIN proposal = 1..Len(proposal)
      /\ \A i \in 1..Last : version[i] \in VersionRow
      /\ \A i \in 1..Len(proposal) : proposal[i] \in ProposalRow
  BY Positions DEF Inv
<1> DEFINE m == proposal[n].version
           row == [version[m] EXCEPT !.approver = u]
           rows == [version EXCEPT ![m] = row]
<1>1. /\ proposal' \in Seq(ProposalRow) /\ Len(proposal') = Len(proposal)
      /\ DOMAIN proposal' = DOMAIN proposal
      /\ \A i \in DOMAIN proposal :
           /\ proposal'[i].kind = proposal[i].kind
           /\ proposal'[i].by = proposal[i].by
           /\ proposal'[i].version = proposal[i].version
           /\ proposal'[i].status = IF i = n THEN "APPLIED" ELSE proposal[i].status
  <2>1. proposal' = [proposal EXCEPT ![n].status = "APPLIED"]
    BY DEF ApproveChange
  <2> QED
    BY <2>1, DecidedRows DEF Inv
<1>2. /\ proposal[n].kind = "CONFIG_CHANGE" /\ proposal[n].status = "PENDING"
      /\ proposal[n].by # u /\ UNCHANGED <<form, switches>>
      /\ version[m].base = source.version /\ HostsListed(version[m].config)
  BY DEF ApproveChange, MayDecide
<1>3. m \in 1..Last /\ version[m].author = proposal[n].by /\ version[m].status = "PENDING_APPROVAL"
  BY <1>0, <1>2 DEF Inv, ConfigTypeOK, ProposalNamesItsVersion
<1>4. /\ row \in VersionRow /\ row.config = version[m].config /\ row.author = version[m].author
      /\ row.base = version[m].base /\ row.approver = u
      /\ row.trusted = version[m].trusted /\ row.status = version[m].status
  BY <1>0, <1>3 DEF VersionRow
<1>5. version' = InForce(rows, m)
  BY <1>0, <1>3 DEF ApproveChange
<1>6. source' = [source EXCEPT !.config = version[m].config, !.version = m]
  BY DEF ApproveChange
<1> HIDE DEF m, row
<1>7. /\ rows \in Seq(VersionRow) /\ Len(rows) = Last
      /\ \A i \in 1..Last : rows[i] = IF i = m THEN row ELSE version[i]
  BY <1>3, <1>4, ReplacedRow DEF Inv
<1> HIDE DEF rows
<1>8. /\ version' \in Seq(VersionRow) /\ Len(version') = Last /\ DOMAIN version' = DOMAIN version
  BY <1>0, <1>3, <1>5, <1>7, InForceRows, LenProperties
<1>9. \A i \in 1..Last :
        /\ version'[i].config = version[i].config
        /\ version'[i].author = version[i].author
        /\ version'[i].base = version[i].base
        /\ version'[i].trusted = version[i].trusted
        /\ version'[i].approver = IF i = m THEN u ELSE version[i].approver
        /\ version'[i].status = IF i = m THEN "ACTIVE"
                                ELSE IF version[i].status = "ACTIVE" THEN "SUPERSEDED" ELSE version[i].status
  <2>1. \A i \in 1..Last :
          /\ version'[i].config = rows[i].config
          /\ version'[i].author = rows[i].author
          /\ version'[i].base = rows[i].base
          /\ version'[i].approver = rows[i].approver
          /\ version'[i].trusted = rows[i].trusted
          /\ version'[i].status = IF i = m THEN "ACTIVE"
                                  ELSE IF rows[i].status = "ACTIVE" THEN "SUPERSEDED" ELSE rows[i].status
    BY <1>3, <1>5, <1>7, InForceRows
  <2> QED
    BY <1>4, <1>7, <2>1
<1>10. source' \in SourceRow /\ source'.version = m /\ source'.config = version[m].config
  <2>1. m \in 1..MaxVersions /\ version[m].config \in Config
    <3>1. Last \in 1..MaxVersions /\ MaxVersions \in Nat
      BY Positions, BoundAssumption DEF Inv
    <3> QED
      BY <1>0, <1>3, <3>1 DEF VersionRow
  <2> QED
    BY <1>6, <2>1 DEF Inv, ConfigTypeOK, SourceRow
<1>11. ConfigTypeOK'
  <2>1. ASSUME NEW i \in DOMAIN proposal, proposal[i].kind = "CONFIG_CHANGE"
        PROVE  <<proposal'[i].status, version'[proposal[i].version].status>> \in
                 {<<"PENDING", "PENDING_APPROVAL">>, <<"REJECTED", "REJECTED">>,
                  <<"APPLIED", "ACTIVE">>, <<"APPLIED", "SUPERSEDED">>}
    <3>1. CASE i = n
      BY <1>1, <1>3, <1>9, <3>1 DEF m
    <3>2. CASE i # n
      <4>1. proposal[i].version # m /\ proposal[i].version \in 1..Last
        BY <1>0, <1>2, <2>1, <3>2 DEF m, Inv, OneProposalEach, ProposalNamesItsVersion
      <4>2. <<proposal[i].status, version[proposal[i].version].status>> \in
              {<<"PENDING", "PENDING_APPROVAL">>, <<"REJECTED", "REJECTED">>,
               <<"APPLIED", "ACTIVE">>, <<"APPLIED", "SUPERSEDED">>}
        BY <2>1 DEF Inv, ConfigTypeOK
      <4> QED
        BY <1>1, <1>9, <3>2, <4>1, <4>2
    <3> QED
      BY <3>1, <3>2
  <2>2. Len(version') \in 1..MaxVersions /\ Len(proposal') <= MaxProposals
    BY <1>1, <1>8 DEF Inv, ConfigTypeOK, Last
  <2>3. form' \in [Admin -> Form \cup {NULL}] /\ switches' \in 0..MaxSwitches
    BY <1>2 DEF Inv, ConfigTypeOK
  <2> QED
    BY <1>1, <1>8, <1>10, <2>1, <2>2, <2>3 DEF ConfigTypeOK
<1>12. OneVersionInForce' /\ SourceRunsAVersion'
  <2>1. version'[m].config = source'.config /\ version'[m].status = "ACTIVE" /\ m \in DOMAIN version'
    BY <1>0, <1>3, <1>8, <1>9, <1>10
  <2>2. ASSUME NEW i \in DOMAIN version', i # m PROVE version'[i].status # "ACTIVE"
    BY <1>0, <1>8, <1>9, <2>2
  <2> QED
    BY <1>10, <2>1, <2>2 DEF OneVersionInForce, SourceRunsAVersion
<1>13. BaseIsEarlier'
  BY <1>0, <1>8, <1>9 DEF Inv, BaseIsEarlier
<1>14. ProposalNamesItsVersion' /\ OneProposalEach'
  BY <1>0, <1>1, <1>8, <1>9 DEF Inv, ProposalNamesItsVersion, OneProposalEach
<1>15. FourEyes'
  <2> SUFFICES ASSUME NEW i \in DOMAIN version',
                      version'[i].status \in {"ACTIVE", "SUPERSEDED"}, ~version'[i].trusted,
                      Replaces(version'[i].config, version'[version'[i].base].config)
               PROVE  /\ version'[i].approver \notin {version'[i].author, NULL}
                      /\ HostsListed(version'[i].config)
    BY DEF FourEyes
  <2>1. CASE i = m
    <3>1. u # NULL
      BY UserAssumption
    <3> QED
      BY <1>2, <1>3, <1>9, <2>1, <3>1
  <2>2. CASE i # m
    <3>1. i \in 1..Last /\ version[i].base \in 1..Last /\ version[i].status \in {"ACTIVE", "SUPERSEDED"}
      BY <1>0, <1>8, <1>9, <2>2 DEF Inv, BaseIsEarlier
    <3> QED
      BY <1>0, <1>9, <2>2, <3>1, SMTT(40) DEF Inv, FourEyes
  <2> QED
    BY <2>1, <2>2
<1> QED
  BY <1>11, <1>12, <1>13, <1>14, <1>15 DEF Inv

\* Whoever edits writes a row of its own, made from the version in force.
LEMMA UpdateKeeps ==
  ASSUME Inv, NEW author \in Admin \cup {Agent}, NEW config \in Config,
         NEW trusted \in BOOLEAN, NEW force \in BOOLEAN, NEW expected,
         Update(author, expected, config, trusted, force)
  PROVE  Inv' /\ (source'.version # source.version => version'[source'.version].base = source.version)
<1> DEFINE row == [config |-> config, status |-> "PENDING_APPROVAL", author |-> author,
                   base |-> expected, approver |-> NULL, trusted |-> trusted]
           p == [kind |-> "CONFIG_CHANGE", by |-> author, status |-> "PENDING", version |-> Last + 1]
           review == (Sensitive(source.config, config) \/ force) /\ ~trusted
<1>0. /\ Last \in Nat \ {0} /\ Last + 1 \in 1..MaxVersions /\ Last < MaxVersions
      /\ source.version \in 1..MaxVersions /\ source.version = expected
      /\ UNCHANGED <<form, switches>>
  BY Positions, BoundAssumption DEF Update, Unchanged, Inv, ConfigTypeOK, SourceRow
<1>1. /\ row \in VersionRow /\ row.status = "PENDING_APPROVAL" /\ row.base = source.version
      /\ row.author = author /\ row.config = config /\ row.trusted = trusted
  BY <1>0 DEF VersionRow
<1>2. /\ p \in ProposalRow /\ p.kind = "CONFIG_CHANGE" /\ p.status = "PENDING"
      /\ p.version = Last + 1 /\ p.by = author
  BY <1>0 DEF ProposalRow
<1>3. CASE review
  <2>1. /\ Len(proposal) < MaxProposals /\ version' = Append(version, row)
        /\ proposal' = Append(proposal, p) /\ UNCHANGED source
    BY <1>3 DEF Update
  <2> HIDE DEF row, p
  <2> QED
    BY <1>0, <1>1, <1>2, <2>1, ProposedKeeps
<1>4. CASE ~review
  <2>1. /\ version' = InForce(Append(version, row), Last + 1) /\ UNCHANGED proposal
        /\ source' = [source EXCEPT !.config = config, !.version = Last + 1]
    BY <1>4 DEF Update
  <2>2. row.trusted \/ ~Replaces(row.config, source.config)
    BY <1>1, <1>4 DEF Sensitive, Replaces
  <2>3. source' \in SourceRow /\ source'.config = row.config /\ source'.version = Last + 1
    BY <1>0, <1>1, <2>1 DEF Inv, ConfigTypeOK, SourceRow
  <2> HIDE DEF row, p
  <2>4. Inv'
    BY <1>0, <1>1, <2>1, <2>2, <2>3, AppliedKeeps
  <2>5. version'[Last + 1].base = source.version
    <3> DEFINE rows == Append(version, row)
    <3>1. /\ rows \in Seq(VersionRow) /\ Len(rows) = Last + 1 /\ rows[Last + 1] = row
          /\ version' = InForce(rows, Last + 1)
      BY <1>1, <2>1, AppendProperties DEF Inv, ConfigTypeOK, Last
    <3> HIDE DEF rows
    <3>2. Last + 1 \in 1..Len(rows)
      BY <1>0, <3>1
    <3>3. version'[Last + 1].base = rows[Last + 1].base
      BY <3>1, <3>2, InForceRows
    <3> QED
      BY <1>1, <3>1, <3>3
  <2> QED
    BY <2>3, <2>4, <2>5
<1> QED
  BY <1>3, <1>4

\* A step that edits nobody's rows keeps the invariant if the source keeps its configuration.
LEMMA OtherKeeps ==
  ASSUME Inv, UNCHANGED version,
         source' \in SourceRow, source'.config = source.config, source'.version = source.version,
         form' \in [Admin -> Form \cup {NULL}], switches' \in 0..MaxSwitches, UNCHANGED proposal
  PROVE  Inv'
<1>1. ConfigTypeOK' /\ OneVersionInForce'
  BY DEF Inv, ConfigTypeOK, OneVersionInForce
<1>2. SourceRunsAVersion' /\ BaseIsEarlier' /\ FourEyes'
  BY DEF Inv, SourceRunsAVersion, BaseIsEarlier, FourEyes
<1>3. ProposalNamesItsVersion' /\ OneProposalEach'
  BY DEF Inv, ProposalNamesItsVersion, OneProposalEach
<1> QED
  BY <1>1, <1>2, <1>3 DEF Inv

\* An activation is asked for.
LEMMA RequestKeeps ==
  ASSUME Inv, NEW u \in Admin, RequestActivation(u)
  PROVE  Inv'
<1> DEFINE p == [kind |-> "SOURCE_ACTIVATION", by |-> u, status |-> "PENDING", version |-> 0]
<1>1. /\ p \in ProposalRow /\ p.kind = "SOURCE_ACTIVATION"
      /\ Len(proposal) < MaxProposals /\ proposal' = Append(proposal, p)
      /\ UNCHANGED <<source, version, form, switches>>
  BY BoundAssumption DEF RequestActivation, ProposalRow
<1> HIDE DEF p
<1>2. /\ proposal' \in Seq(ProposalRow) /\ Len(proposal') = Len(proposal) + 1
      /\ \A i \in DOMAIN proposal : proposal'[i] = proposal[i]
      /\ proposal'[Len(proposal) + 1] = p
      /\ DOMAIN proposal' = 1..Len(proposal) + 1
      /\ Len(proposal) \in Nat /\ DOMAIN proposal = 1..Len(proposal)
  BY <1>1, AppendProperties, LenProperties DEF Inv, ConfigTypeOK
<1>3. \A i \in DOMAIN proposal' : proposal'[i].kind = "CONFIG_CHANGE" =>
        i \in DOMAIN proposal /\ proposal'[i] = proposal[i]
  BY <1>1, <1>2
<1>4. ConfigTypeOK'
  <2>1. Len(proposal') <= MaxProposals
    BY <1>1, <1>2, BoundAssumption
  <2> QED
    BY <1>1, <1>2, <1>3, <2>1 DEF Inv, ConfigTypeOK
<1>5. OneVersionInForce' /\ SourceRunsAVersion' /\ BaseIsEarlier' /\ FourEyes'
  BY <1>1 DEF Inv, OneVersionInForce, SourceRunsAVersion, BaseIsEarlier, FourEyes
<1>6. ProposalNamesItsVersion' /\ OneProposalEach'
  BY <1>1, <1>3 DEF Inv, ProposalNamesItsVersion, OneProposalEach
<1> QED
  BY <1>4, <1>5, <1>6 DEF Inv

\* An activation is granted, whatever the configuration is by then.
LEMMA ActivateKeeps ==
  ASSUME Inv, NEW u \in Admin, NEW n \in DOMAIN proposal, ApproveActivation(u, n)
  PROVE  Inv'
<1>1. /\ proposal' \in Seq(ProposalRow) /\ Len(proposal') = Len(proposal)
      /\ DOMAIN proposal' = DOMAIN proposal
      /\ \A i \in DOMAIN proposal :
           /\ proposal'[i].kind = proposal[i].kind
           /\ proposal'[i].by = proposal[i].by
           /\ proposal'[i].version = proposal[i].version
           /\ proposal'[i].status = IF i = n THEN "APPLIED" ELSE proposal[i].status
  <2>1. proposal' = [proposal EXCEPT ![n].status = "APPLIED"]
    BY DEF ApproveActivation
  <2> QED
    BY <2>1, DecidedRows DEF Inv
<1>2. /\ source' \in SourceRow /\ source'.config = source.config /\ source'.version = source.version
      /\ proposal[n].kind = "SOURCE_ACTIVATION" /\ UNCHANGED <<version, form, switches>>
  BY DEF ApproveActivation, Inv, ConfigTypeOK, SourceRow, Status
<1>3. ConfigTypeOK'
  BY <1>1, <1>2 DEF Inv, ConfigTypeOK
<1>4. OneVersionInForce' /\ SourceRunsAVersion' /\ BaseIsEarlier' /\ FourEyes'
  BY <1>2 DEF Inv, OneVersionInForce, SourceRunsAVersion, BaseIsEarlier, FourEyes
<1>5. ProposalNamesItsVersion' /\ OneProposalEach'
  BY <1>1, <1>2 DEF Inv, ProposalNamesItsVersion, OneProposalEach
<1> QED
  BY <1>3, <1>4, <1>5 DEF Inv

\* A version comes into force on top of the one it was made from.
OnTopOfItsBase == source'.version # source.version => version'[source'.version].base = source.version

\* The initial states satisfy the invariant.
LEMMA InitHolds == Init => Inv
<1> SUFFICES ASSUME Init PROVE Inv
  OBVIOUS
<1>1. PICK config \in Seed, status \in {"DRAFT", "ACTIVE"}, author \in Admin :
        /\ source = [status |-> status, pause |-> "NONE", config |-> config, version |-> 1]
        /\ version = <<[config |-> config, status |-> "ACTIVE", author |-> author, base |-> 0,
                        approver |-> NULL, trusted |-> TRUE]>>
  BY DEF Init
<1> DEFINE row == [config |-> config, status |-> "ACTIVE", author |-> author, base |-> 0,
                   approver |-> NULL, trusted |-> TRUE]
<1>2. config \in Config
  BY SeedAssumption DEF Config
<1>3. /\ row \in VersionRow /\ row.config = config /\ row.status = "ACTIVE" /\ row.trusted
  BY <1>2, BoundAssumption DEF VersionRow
<1>4. /\ source \in SourceRow /\ source.version = 1 /\ source.config = config
  BY <1>1, <1>2, BoundAssumption DEF SourceRow, Status
<1>5. version = <<row>>
  BY <1>1
<1> HIDE DEF row
<1>6. version \in Seq(VersionRow) /\ Len(version) = 1 /\ DOMAIN version = {1} /\ version[1] = row
  BY <1>3, <1>5
<1>7. /\ proposal \in Seq(ProposalRow) /\ Len(proposal) = 0 /\ DOMAIN proposal = {}
      /\ form \in [Admin -> Form \cup {NULL}] /\ switches = 0
  BY DEF Init
<1> QED
  BY <1>3, <1>4, <1>6, <1>7, BoundAssumption DEF Inv, ConfigTypeOK, OneVersionInForce,
     SourceRunsAVersion, BaseIsEarlier, ProposalNamesItsVersion, OneProposalEach, FourEyes

\* Every step keeps the invariant and puts a version in force only on top of its base.
LEMMA Step == Inv /\ [Next]_vars => Inv' /\ OnTopOfItsBase
<1> SUFFICES ASSUME Inv, [Next]_vars PROVE Inv' /\ OnTopOfItsBase
  OBVIOUS
<1> USE DEF OnTopOfItsBase
<1>0. /\ source \in SourceRow /\ source.config \in Config /\ Last \in Nat
      /\ \A n \in 1..Last : version[n].config \in Config
      /\ form \in [Admin -> Form \cup {NULL}] /\ switches \in 0..MaxSwitches
  BY Positions DEF Inv, ConfigTypeOK, SourceRow, VersionRow
<1>1. ASSUME NEW u \in Admin, Load(u) PROVE Inv' /\ OnTopOfItsBase
  <2>1. [version |-> source.version, config |-> source.config] \in Form
    BY <1>0 DEF SourceRow, Form
  <2>2. form' \in [Admin -> Form \cup {NULL}] /\ UNCHANGED <<source, version, proposal, switches>>
    BY <1>0, <1>1, <2>1 DEF Load
  <2> QED
    BY <1>0, <2>2, OtherKeeps
<1>2. ASSUME NEW u \in Admin, Edit(u) PROVE Inv' /\ OnTopOfItsBase
  <2>1. PICK config \in OneChange(form[u].config) : Update(u, form[u].version, config, FALSE, FALSE)
    BY <1>2 DEF Edit
  <2>2. config \in Config
    BY <1>0, <1>2, OneChangeType DEF Edit, Form
  <2> QED
    BY <2>1, <2>2, UpdateKeeps
<1>3. ASSUME NEW u \in Admin, Rollback(u) PROVE Inv' /\ OnTopOfItsBase
  BY <1>0, <1>3, UpdateKeeps DEF Rollback
<1>4. ASSUME NEW u \in Admin, SeedOverwrites(u) PROVE Inv' /\ OnTopOfItsBase
  BY <1>0, <1>4, OneChangeType, UpdateKeeps DEF SeedOverwrites
<1>5. CASE AgentProposes
  BY <1>0, <1>5, OneChangeType, UpdateKeeps DEF AgentProposes
<1>6. ASSUME NEW u \in Admin, RequestActivation(u) PROVE Inv' /\ OnTopOfItsBase
  BY <1>6, RequestKeeps DEF RequestActivation
<1>7. ASSUME NEW u \in Admin, NEW n \in DOMAIN proposal, Reject(u, n) PROVE Inv' /\ OnTopOfItsBase
  BY <1>7, RejectKeeps DEF Reject
<1>8. ASSUME NEW u \in Admin, NEW n \in DOMAIN proposal, ApproveChange(u, n)
      PROVE  Inv' /\ OnTopOfItsBase
  <2> DEFINE m == proposal[n].version
             row == [version[m] EXCEPT !.approver = u]
             rows == [version EXCEPT ![m] = row]
  <2>1. /\ proposal[n].kind = "CONFIG_CHANGE" /\ version[m].base = source.version
        /\ version' = InForce([version EXCEPT ![m].approver = u], m)
        /\ source' = [source EXCEPT !.config = version[m].config, !.version = m]
    BY <1>8 DEF ApproveChange
  <2>2. m \in 1..Last /\ version[m] \in VersionRow
    BY <2>1, Positions DEF Inv, ProposalNamesItsVersion
  <2>3. row \in VersionRow /\ row.base = version[m].base
    BY <2>2 DEF VersionRow
  <2>4. rows \in Seq(VersionRow) /\ Len(rows) = Last /\ rows[m] = row
    <3> HIDE DEF row
    <3> QED
      BY <2>2, <2>3, ReplacedRow DEF Inv
  <2>5. version' = InForce(rows, m)
    BY <2>1, <2>2
  <2>6. source'.version = m
    BY <1>0, <2>1 DEF SourceRow
  <2> HIDE DEF m, row, rows
  <2>7. version'[m].base = rows[m].base
    BY <2>2, <2>4, <2>5, InForceRows
  <2> QED
    BY <1>8, <2>1, <2>3, <2>4, <2>6, <2>7, ApproveKeeps DEF m
<1>9. ASSUME NEW u \in Admin, NEW n \in DOMAIN proposal, ApproveActivation(u, n)
      PROVE  Inv' /\ OnTopOfItsBase
  BY <1>0, <1>9, ActivateKeeps DEF ApproveActivation, SourceRow
<1>10. ASSUME NEW u \in User, NEW status \in {"ACTIVE", "PAUSED", "DISABLED"}, SetStatus(u, status)
       PROVE  Inv' /\ OnTopOfItsBase
  <2>1. PICK pause \in {"NONE", "AHEAD"} : source' = [source EXCEPT !.status = status, !.pause = pause]
    BY <1>10 DEF SetStatus
  <2>2. source' \in SourceRow /\ source'.config = source.config /\ source'.version = source.version
    BY <1>0, <2>1 DEF SourceRow, Status
  <2>3. switches' \in 0..MaxSwitches /\ UNCHANGED <<version, proposal, form>>
    BY <1>0, <1>10, BoundAssumption DEF SetStatus, Switch
  <2> QED
    BY <1>0, <2>2, <2>3, OtherKeeps
<1>11. CASE PausePasses \/ AutoResume
  <2>1. source' \in SourceRow /\ source'.config = source.config /\ source'.version = source.version
    BY <1>0, <1>11 DEF PausePasses, AutoResume, SourceRow, Status
  <2>2. UNCHANGED <<version, proposal, form, switches>>
    BY <1>11 DEF PausePasses, AutoResume
  <2> QED
    BY <1>0, <2>1, <2>2, OtherKeeps
<1>12. CASE UNCHANGED vars
  BY <1>0, <1>12, OtherKeeps DEF vars
<1> QED
  BY <1>1, <1>2, <1>3, <1>4, <1>5, <1>6, <1>7, <1>8, <1>9, <1>10, <1>11, <1>12 DEF Next

-----------------------------------------------------------------------------
(* The history *)

\* What may become of a row of source_config_version: it keeps what it says, an admin who is not
\* its author puts it in force or another version takes its place, and it is rejected at most once.
RowStep(v, w) ==
  /\ w.config = v.config /\ w.author = v.author /\ w.base = v.base /\ w.trusted = v.trusted
  /\ \/ w.status = v.status /\ w.approver = v.approver
     \/ v.status = "PENDING_APPROVAL" /\ w.status = "ACTIVE" /\ w.approver \in Admin \ {v.author}
     \/ v.status = "PENDING_APPROVAL" /\ w.status = "REJECTED" /\ w.approver = v.approver
     \/ v.status = "ACTIVE" /\ w.status = "SUPERSEDED" /\ w.approver = v.approver

\* The history of the configuration is append-only (config_service.py): no row is lost or rewritten.
HistoryIsKept ==
  [][\A i \in DOMAIN version : i \in DOMAIN version' /\ RowStep(version[i], version'[i])]_vars

\* The agent can only file proposals: what it wrote is in force only after an admin approved it.
AgentOnlyProposes ==
  \A i \in DOMAIN version :
    version[i].author = Agent /\ version[i].status \in {"ACTIVE", "SUPERSEDED"}
      => version[i].approver \in Admin

\* A step keeps the history, and what it adds in the agent's name waits for an approval.
HistoryStep ==
  /\ \A i \in DOMAIN version : i \in DOMAIN version' /\ RowStep(version[i], version'[i])
  /\ \A i \in DOMAIN version' \ DOMAIN version :
       version'[i].author = Agent => version'[i].status = "PENDING_APPROVAL"

\* An edit adds a row; if that one is in force at once, it takes the place of the one before it.
LEMMA UpdateHistory ==
  ASSUME Inv, NEW author \in Admin \cup {Agent}, NEW config \in Config,
         NEW trusted \in BOOLEAN, NEW force \in BOOLEAN, NEW expected,
         author = Agent => force /\ ~trusted,
         Update(author, expected, config, trusted, force)
  PROVE  HistoryStep
<1> DEFINE row == [config |-> config, status |-> "PENDING_APPROVAL", author |-> author,
                   base |-> expected, approver |-> NULL, trusted |-> trusted]
           review == (Sensitive(source.config, config) \/ force) /\ ~trusted
           rows == Append(version, row)
<1>0. /\ Last \in Nat \ {0} /\ DOMAIN version = 1..Last
      /\ expected \in 0..MaxVersions /\ version \in Seq(VersionRow)
  BY Positions, BoundAssumption DEF Update, Unchanged, Inv, ConfigTypeOK, SourceRow
<1>1. row \in VersionRow /\ row.status = "PENDING_APPROVAL" /\ row.author = author
  BY <1>0 DEF VersionRow
<1>2. /\ review => version' = rows
      /\ ~review => version' = InForce(rows, Last + 1)
      /\ author = Agent => review
  BY DEF Update
<1> HIDE DEF row, review
<1>3. /\ rows \in Seq(VersionRow) /\ Len(rows) = Last + 1 /\ rows[Last + 1] = row
      /\ \A i \in 1..Last : rows[i] = version[i]
  BY <1>0, <1>1, AppendProperties DEF Last
<1> HIDE DEF rows
<1>4. DOMAIN rows = 1..Last + 1
  BY <1>3, LenProperties
<1>5. CASE review
  <2>1. DOMAIN version' = 1..Last + 1 /\ version'[Last + 1] = row
        /\ \A i \in 1..Last : version'[i] = version[i]
    BY <1>2, <1>3, <1>4, <1>5
  <2>2. ASSUME NEW i \in DOMAIN version PROVE i \in DOMAIN version' /\ RowStep(version[i], version'[i])
    BY <1>0, <2>1 DEF RowStep
  <2>3. ASSUME NEW i \in DOMAIN version' \ DOMAIN version PROVE version'[i].status = "PENDING_APPROVAL"
    <3>1. i = Last + 1
      BY <1>0, <2>1
    <3> QED
      BY <1>1, <2>1, <3>1
  <2> QED
    BY <2>2, <2>3 DEF HistoryStep
<1>6. CASE ~review
  <2>1. Last + 1 \in 1..Len(rows)
    BY <1>0, <1>3
  <2>2. version' \in Seq(VersionRow) /\ Len(version') = Last + 1
    BY <1>2, <1>3, <1>6, <2>1, InForceRows
  <2>3. DOMAIN version' = 1..Last + 1
    BY <2>2, LenProperties
  <2>4. ASSUME NEW i \in 1..Last PROVE i \in DOMAIN version' /\ RowStep(version[i], version'[i])
    <3>1. i \in 1..Len(rows) /\ i # Last + 1 /\ rows[i] = version[i]
      BY <1>0, <1>3
    <3>2. /\ version'[i].config = version[i].config
          /\ version'[i].author = version[i].author
          /\ version'[i].base = version[i].base
          /\ version'[i].approver = version[i].approver
          /\ version'[i].trusted = version[i].trusted
          /\ version'[i].status = IF version[i].status = "ACTIVE" THEN "SUPERSEDED" ELSE version[i].status
      BY <1>2, <1>3, <1>6, <2>1, <3>1, InForceRows
    <3> QED
      BY <1>0, <2>3, <3>2 DEF RowStep
  <2>5. ASSUME NEW i \in DOMAIN version' \ DOMAIN version PROVE version'[i].author # Agent
    <3>1. i = Last + 1 /\ i \in 1..Len(rows)
      BY <1>0, <2>1, <2>3
    <3>2. version'[i].author = row.author
      BY <1>2, <1>3, <1>6, <2>1, <3>1, InForceRows
    <3> QED
      BY <1>1, <1>2, <1>6, <3>2
  <2> QED
    BY <1>0, <2>4, <2>5 DEF HistoryStep
<1> QED
  BY <1>5, <1>6

\* A rejected version was pending.
LEMMA RejectHistory ==
  ASSUME Inv, NEW u \in Admin, NEW n \in DOMAIN proposal, Reject(u, n)
  PROVE  HistoryStep
<1>1. CASE proposal[n].kind # "CONFIG_CHANGE"
  <2>1. UNCHANGED version
    BY <1>1 DEF Reject
  <2> QED
    BY <2>1 DEF HistoryStep, RowStep
<1>2. CASE proposal[n].kind = "CONFIG_CHANGE"
  <2> DEFINE m == proposal[n].version
             row == [version[m] EXCEPT !.status = "REJECTED"]
  <2>1. /\ m \in 1..Last /\ version[m].status = "PENDING_APPROVAL"
        /\ DOMAIN version = 1..Last /\ version[m] \in VersionRow
    BY <1>2, Positions DEF Reject, MayDecide, Inv, ConfigTypeOK, ProposalNamesItsVersion
  <2>2. row \in VersionRow /\ RowStep(version[m], row)
    BY <2>1 DEF VersionRow, RowStep
  <2>3. version' = [version EXCEPT ![m] = row]
    BY <1>2, <2>1 DEF Reject
  <2> HIDE DEF m, row
  <2>4. /\ DOMAIN version' = DOMAIN version
        /\ \A i \in 1..Last : version'[i] = IF i = m THEN row ELSE version[i]
    BY <2>1, <2>2, <2>3, ReplacedRow DEF Inv
  <2>5. ASSUME NEW i \in DOMAIN version PROVE RowStep(version[i], version'[i])
    <3>1. CASE i = m
      BY <2>1, <2>2, <2>4, <3>1
    <3>2. CASE i # m
      BY <2>1, <2>4, <3>2 DEF RowStep
    <3> QED
      BY <3>1, <3>2
  <2> QED
    BY <2>4, <2>5 DEF HistoryStep
<1> QED
  BY <1>1, <1>2

\* An approved version was pending and has an approver who is not its author.
LEMMA ApproveHistory ==
  ASSUME Inv, NEW u \in Admin, NEW n \in DOMAIN proposal, ApproveChange(u, n)
  PROVE  HistoryStep
<1> DEFINE m == proposal[n].version
           row == [version[m] EXCEPT !.approver = u]
           rows == [version EXCEPT ![m] = row]
<1>1. /\ m \in 1..Last /\ version[m].status = "PENDING_APPROVAL" /\ version[m].author # u
      /\ DOMAIN version = 1..Last /\ version[m] \in VersionRow
  BY Positions DEF ApproveChange, MayDecide, Inv, ConfigTypeOK, ProposalNamesItsVersion
<1>2. /\ row \in VersionRow /\ row.config = version[m].config /\ row.author = version[m].author
      /\ row.base = version[m].base /\ row.trusted = version[m].trusted /\ row.approver = u
  BY <1>1 DEF VersionRow
<1>3. version' = InForce(rows, m)
  BY <1>1 DEF ApproveChange
<1> HIDE DEF m, row
<1>4. /\ rows \in Seq(VersionRow) /\ Len(rows) = Last
      /\ \A i \in 1..Last : rows[i] = IF i = m THEN row ELSE version[i]
  BY <1>1, <1>2, ReplacedRow DEF Inv
<1> HIDE DEF rows
<1>5. DOMAIN version' = DOMAIN version
  BY <1>1, <1>3, <1>4, InForceRows, LenProperties
<1>6. ASSUME NEW i \in 1..Last PROVE RowStep(version[i], version'[i])
  <2>1. /\ version'[i].config = rows[i].config
        /\ version'[i].author = rows[i].author
        /\ version'[i].base = rows[i].base
        /\ version'[i].approver = rows[i].approver
        /\ version'[i].trusted = rows[i].trusted
        /\ version'[i].status = IF i = m THEN "ACTIVE"
                                ELSE IF rows[i].status = "ACTIVE" THEN "SUPERSEDED" ELSE rows[i].status
    BY <1>1, <1>3, <1>4, InForceRows
  <2>2. CASE i = m
    BY <1>1, <1>2, <1>4, <2>1, <2>2 DEF RowStep
  <2>3. CASE i # m
    BY <1>4, <2>1, <2>3 DEF RowStep
  <2> QED
    BY <2>2, <2>3
<1> QED
  BY <1>1, <1>5, <1>6 DEF HistoryStep

\* Every step keeps the history.
LEMMA History == Inv /\ [Next]_vars => HistoryStep
<1> SUFFICES ASSUME Inv, [Next]_vars PROVE HistoryStep
  OBVIOUS
<1>0. /\ source.config \in Config /\ form \in [Admin -> Form \cup {NULL}]
      /\ \A n \in 1..Last : version[n].config \in Config
  BY Positions DEF Inv, ConfigTypeOK, SourceRow, VersionRow
<1>1. ASSUME NEW u \in Admin, Edit(u) PROVE HistoryStep
  <2>1. PICK config \in OneChange(form[u].config) : Update(u, form[u].version, config, FALSE, FALSE)
    BY <1>1 DEF Edit
  <2>2. config \in Config /\ u # Agent
    BY <1>0, <1>1, OneChangeType, UserAssumption DEF Edit, Form
  <2> QED
    BY <2>1, <2>2, UpdateHistory
<1>2. ASSUME NEW u \in Admin, Rollback(u) PROVE HistoryStep
  <2>1. PICK n \in 1..Last : Update(u, form[u].version, version[n].config, FALSE, FALSE)
    BY <1>2 DEF Rollback
  <2>2. version[n].config \in Config /\ u # Agent
    BY <1>0, UserAssumption
  <2> QED
    BY <2>1, <2>2, UpdateHistory
<1>3. ASSUME NEW u \in Admin, SeedOverwrites(u) PROVE HistoryStep
  <2>1. PICK config \in OneChange(source.config) : Update(u, source.version, config, TRUE, FALSE)
    BY <1>3 DEF SeedOverwrites
  <2>2. config \in Config /\ u # Agent
    BY <1>0, OneChangeType, UserAssumption
  <2> QED
    BY <2>1, <2>2, UpdateHistory
<1>4. CASE AgentProposes
  <2>1. PICK config \in OneChange(source.config) : Update(Agent, source.version, config, FALSE, TRUE)
    BY <1>4 DEF AgentProposes
  <2>2. config \in Config
    BY <1>0, OneChangeType
  <2> QED
    BY <2>1, <2>2, UpdateHistory
<1>5. ASSUME NEW u \in Admin, NEW n \in DOMAIN proposal, Reject(u, n) PROVE HistoryStep
  BY <1>5, RejectHistory
<1>6. ASSUME NEW u \in Admin, NEW n \in DOMAIN proposal, ApproveChange(u, n) PROVE HistoryStep
  BY <1>6, ApproveHistory
<1>7. ASSUME UNCHANGED version PROVE HistoryStep
  BY <1>7 DEF HistoryStep, RowStep
<1>8. ASSUME NEW u \in Admin, Load(u) \/ RequestActivation(u) PROVE UNCHANGED version
  BY <1>8 DEF Load, RequestActivation
<1>9. ASSUME NEW u \in Admin, NEW n \in DOMAIN proposal, ApproveActivation(u, n) PROVE UNCHANGED version
  BY <1>9 DEF ApproveActivation
<1>10. ASSUME NEW u \in User, NEW status, SetStatus(u, status) PROVE UNCHANGED version
  BY <1>10 DEF SetStatus
<1>11. PausePasses \/ AutoResume \/ UNCHANGED vars => UNCHANGED version
  BY DEF PausePasses, AutoResume, vars
<1> QED
  BY <1>1, <1>2, <1>3, <1>4, <1>5, <1>6, <1>7, <1>8, <1>9, <1>10, <1>11 DEF Next

\* What the agent wrote is in force only with an admin's approval: it starts pending, and only
\* an approval ends that.
LEMMA AgentWaits == AgentOnlyProposes /\ HistoryStep => AgentOnlyProposes'
<1> SUFFICES ASSUME AgentOnlyProposes, HistoryStep, NEW i \in DOMAIN version',
                    version'[i].author = Agent, version'[i].status \in {"ACTIVE", "SUPERSEDED"}
             PROVE  version'[i].approver \in Admin
  BY DEF AgentOnlyProposes
<1>1. i \in DOMAIN version /\ RowStep(version[i], version'[i])
  BY DEF HistoryStep
<1> QED
  BY <1>1 DEF RowStep, AgentOnlyProposes

-----------------------------------------------------------------------------
(* Theorems *)

\* The invariant holds in every state.
LEMMA Invariant == Spec => []Inv
  BY InitHolds, Step, PTL DEF Spec

\* Every row of the source, its versions and its proposals has its type, and a proposed version has
\* the status of its proposal, whoever edits, proposes, approves or rejects meanwhile.
THEOREM ConfigTypeCorrect == Spec => []ConfigTypeOK
  BY Invariant, PTL DEF Inv

\* One version is in force, the one the source row runs with, after any number of edits, approvals,
\* rollbacks and seed imports.
THEOREM OneInForce == Spec => []OneVersionInForce
  BY Invariant, PTL DEF Inv

\* A URL that replaced another one in an edit, that of the block included, was changed by one admin,
\* approved by another one and is on the allow-list, however the change came into force.
THEOREM ReviewedByAnother == Spec => []FourEyes
  BY Invariant, PTL DEF Inv

\* Nobody's change is undone by somebody who never saw it: update_source and decide compare the
\* version that a change was made from with the one in force.
THEOREM NothingLost == Spec => NoLostUpdate
<1>1. Inv /\ [Next]_vars => [source'.version # source.version =>
                              version'[source'.version].base = source.version]_vars
  BY Step DEF OnTopOfItsBase
<1> QED
  BY <1>1, Invariant, PTL DEF Spec, NoLostUpdate

\* The history of a source's configuration is append-only: whoever edits, rolls back, imports or
\* decides, a version keeps its number, its configuration, its author and its base, and its status
\* goes only from pending to in force or rejected and from in force to superseded.
THEOREM HistoryKept == Spec => HistoryIsKept
<1>1. Inv /\ [Next]_vars => [\A i \in DOMAIN version :
                              i \in DOMAIN version' /\ RowStep(version[i], version'[i])]_vars
  BY History DEF HistoryStep
<1> QED
  BY <1>1, Invariant, PTL DEF Spec, HistoryIsKept

\* No configuration that the agent wrote comes into force without an admin: the agent calls no
\* mutating method of the configuration service but through a proposal.
THEOREM AgentNeverDecides == Spec => []AgentOnlyProposes
<1>1. Init => AgentOnlyProposes
  <2> SUFFICES ASSUME Init PROVE AgentOnlyProposes
    OBVIOUS
  <2>1. PICK config \in Seed, author \in Admin :
          version = <<[config |-> config, status |-> "ACTIVE", author |-> author, base |-> 0,
                       approver |-> NULL, trusted |-> TRUE]>>
    BY DEF Init
  <2>2. DOMAIN version = {1} /\ version[1].author = author
    BY <2>1
  <2> QED
    BY <2>2, UserAssumption DEF AgentOnlyProposes
<1>2. Inv /\ AgentOnlyProposes /\ [Next]_vars => AgentOnlyProposes'
  BY History, AgentWaits
<1> QED
  BY <1>1, <1>2, Invariant, PTL DEF Spec
=============================================================================
