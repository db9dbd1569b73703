----------------------------- MODULE ConfigChange -----------------------------
(***************************************************************************)
(* The configuration of one source and who may change it:                  *)
(* sources/config_service.py with its callers in api/routes/manage.py,     *)
(* review.py, the agent's propose_config_change, the CLI's seed import and *)
(* the auto-resume of ops/autopilot.py.  Every action is one transaction   *)
(* that locks the source row; what a user saw before it is his form.  A    *)
(* call that raises is rolled back, so it is no step.                      *)
(*                                                                         *)
(* A configuration has a URL that every adapter type requires, an optional *)
(* block with a URL of its own (CuratedListConfig.sanctions_map), and a    *)
(* bound that is not sensitive.  The lists allowed_hosts go with the URLs. *)
(***************************************************************************)
EXTENDS Sequences, Integers

CONSTANTS
  Admin, Operator,   \* users by role; a reviewer may do here what an operator may
  Agent,             \* context.actor of the supervisor
  Url, Listed,       \* URLs, and those whose host is on the deployment's allow-list
  Bound,             \* values of the field that is not sensitive
  Seed,              \* bound: the configurations the source may start with
  NULL,
  MaxVersions, MaxProposals,   \* bounds: rows of source_config_version and proposed_change
  MaxSwitches                  \* bound: changes of status

ASSUME UserAssumption ==
  /\ Admin \cap Operator = {} /\ Agent \notin Admin \cup Operator
  /\ NULL \notin Admin \cup Operator \cup {Agent} \cup Url
ASSUME UrlAssumption == Listed \subseteq Url
ASSUME SeedAssumption == Seed \subseteq [url : Url, block : Url \cup {NULL}, bound : Bound]
ASSUME BoundAssumption == MaxVersions \in Nat \ {0} /\ {MaxProposals, MaxSwitches} \subseteq Nat

VARIABLES
  source,     \* the row of the source
  version,    \* its rows of source_config_version, in order
  proposal,   \* its rows of proposed_change, in order
  form,       \* what each user has loaded into the edit form
  switches

vars == <<source, version, proposal, form, switches>>

User == Admin \cup Operator
Config == [url : Url, block : Url \cup {NULL}, bound : Bound]
Status == {"DRAFT", "ACTIVE", "PAUSED", "DISABLED"}

SourceRow == [status : Status, pause : {"NONE", "AHEAD", "PASSED"},   \* paused_until
              config : Config, version : 1..MaxVersions]
VersionRow == [config : Config, status : {"PENDING_APPROVAL", "ACTIVE", "SUPERSEDED", "REJECTED"},
               author : Admin \cup {Agent},         \* changed_by
               base : 0..MaxVersions,               \* the version it was edited from
               approver : Admin \cup {NULL},
               trusted : BOOLEAN]                   \* a seed import by the deployment
ProposalRow == [kind : {"CONFIG_CHANGE", "SOURCE_ACTIVATION"}, by : Admin \cup {Agent},
                status : {"PENDING", "APPLIED", "REJECTED"}, version : 0..MaxVersions]
Form == [version : 1..MaxVersions, config : Config]

\* Every row has the type its table gives it, and a proposed version has the status of its
\* proposal.
ConfigTypeOK ==
  /\ source \in SourceRow
  /\ version \in Seq(VersionRow) /\ Len(version) \in 1..MaxVersions
  /\ proposal \in Seq(ProposalRow) /\ Len(proposal) <= MaxProposals
  /\ form \in [Admin -> Form \cup {NULL}]
  /\ switches \in 0..MaxSwitches
  /\ \A i \in DOMAIN proposal : proposal[i].kind = "CONFIG_CHANGE" =>
       <<proposal[i].status, version[proposal[i].version].status>> \in
         {<<"PENDING", "PENDING_APPROVAL">>, <<"REJECTED", "REJECTED">>,
          <<"APPLIED", "ACTIVE">>, <<"APPLIED", "SUPERSEDED">>}

\* check_hosts
HostsListed(config) == {config.url, config.block} \subseteq Listed \cup {NULL}

\* create_source: by an admin as DRAFT, or by the first seed import with any status.
Init ==
  /\ \E config \in Seed, status \in {"DRAFT", "ACTIVE"}, author \in Admin :
       /\ status = "ACTIVE" => HostsListed(config)
       /\ source = [status |-> status, pause |-> "NONE", config |-> config, version |-> 1]
       /\ version = <<[config |-> config, status |-> "ACTIVE", author |-> author, base |-> 0,
                       approver |-> NULL, trusted |-> TRUE]>>
  /\ proposal = <<>> /\ form = [u \in Admin |-> NULL]
  /\ switches = 0

Last == Len(version)
Switch == switches < MaxSwitches /\ switches' = switches + 1

-----------------------------------------------------------------------------
(* Editing *)

\* diff_paths with is_sensitive_path: a URL that changes in place.  A block that appears or goes
\* differs at its own path, which holds no sensitive name.
Sensitive(old, new) ==
  \/ old.url # new.url
  \/ old.block # new.block /\ old.block # NULL /\ new.block # NULL

\* Mutant: the version that was in force keeps its status when another one is approved.
InForceBesides(rows, n) == [rows EXCEPT ![n].status = "ACTIVE"]

\* _apply on the rows of the versions: n is in force.
InForce(rows, n) ==
  [i \in DOMAIN rows |->
     [rows[i] EXCEPT !.status = IF i = n THEN "ACTIVE" ELSE IF @ = "ACTIVE" THEN "SUPERSEDED" ELSE @]]

\* Mutant: the version the editor loaded is not compared.
NobodyChangedIt(expected) == TRUE

\* The optimistic lock of update_source.
Unchanged(expected) == source.version = expected

\* update_source with a configuration made from version expected.
Update(author, expected, config, trusted, force) ==
  LET review == (Sensitive(source.config, config) \/ force) /\ ~trusted
      row == [config |-> config, status |-> "PENDING_APPROVAL", author |-> author,
              base |-> expected, approver |-> NULL, trusted |-> trusted]
  IN /\ Unchanged(expected)
     /\ config # source.config
     /\ source.status = "ACTIVE" => HostsListed(config)
     /\ Last < MaxVersions
     /\ IF review
          THEN /\ Len(proposal) < MaxProposals
               /\ version' = Append(version, row)
               /\ proposal' = Append(proposal, [kind |-> "CONFIG_CHANGE", by |-> author,
                                                status |-> "PENDING", version |-> Last + 1])
               /\ UNCHANGED source
          ELSE /\ version' = InForce(Append(version, row), Last + 1)
               /\ source' = [source EXCEPT !.config = config, !.version = Last + 1]
               /\ UNCHANGED proposal
     /\ UNCHANGED <<form, switches>>

\* One setting of a configuration is given another value.
OneChange(config) ==
  {[config EXCEPT !.url = url] : url \in Url} \cup {[config EXCEPT !.bound = bound] : bound \in Bound}
    \cup {[config EXCEPT !.block = block] : block \in Url \cup {NULL}}

\* source_detail fills the form of an admin.
Load(u) ==
  /\ form' = [form EXCEPT ![u] = [version |-> source.version, config |-> source.config]]
  /\ UNCHANGED <<source, version, proposal, switches>>

\* patch_source
Edit(u) ==
  /\ form[u] # NULL
  /\ \E config \in OneChange(form[u].config) : Update(u, form[u].version, config, FALSE, FALSE)

\* rollback to the configuration of any version, with the version of the form.
Rollback(u) ==
  /\ form[u] # NULL
  /\ \E n \in 1..Last : Update(u, form[u].version, version[n].config, FALSE, FALSE)

\* propose_config_change of the agent, which reads and proposes in one transaction.
AgentProposes ==
  \E config \in OneChange(source.config) : Update(Agent, source.version, config, FALSE, TRUE)

\* import_seed --overwrite
SeedOverwrites(u) ==
  \E config \in OneChange(source.config) : Update(u, source.version, config, TRUE, FALSE)

-----------------------------------------------------------------------------
(* Review *)

\* request_activation; the unique index refuses a second pending one.
RequestActivation(u) ==
  /\ source.status = "DRAFT" /\ HostsListed(source.config)
  /\ \A i \in DOMAIN proposal : proposal[i].kind = "SOURCE_ACTIVATION" => proposal[i].status # "PENDING"
  /\ Len(proposal) < MaxProposals
  /\ proposal' = Append(proposal, [kind |-> "SOURCE_ACTIVATION", by |-> u, status |-> "PENDING",
                                   version |-> 0])
  /\ UNCHANGED <<source, version, form, switches>>

\* Mutant: an admin may decide on a proposal of his own.
AnyAdminDecides(u, i) == proposal[i].status = "PENDING"

\* decide and decide_change accept u's decision on proposal i.
MayDecide(u, i) == proposal[i].status = "PENDING" /\ proposal[i].by # u

\* Mutant: a rejected proposal leaves its version pending.
RejectProposalOnly(u, i) ==
  /\ MayDecide(u, i)
  /\ proposal' = [proposal EXCEPT ![i].status = "REJECTED"]
  /\ UNCHANGED <<source, version, form, switches>>

Reject(u, i) ==
  /\ MayDecide(u, i)
  /\ proposal' = [proposal EXCEPT ![i].status = "REJECTED"]
  /\ version' = IF proposal[i].kind = "CONFIG_CHANGE"
                THEN [version EXCEPT ![proposal[i].version].status = "REJECTED"] ELSE version
  /\ UNCHANGED <<source, form, switches>>

\* The base version of a stale proposal is refused, and the exception that says so takes back the
\* status EXPIRED that was written before it: the proposal stays PENDING.
ApproveChange(u, i) ==
  LET n == proposal[i].version IN
  /\ MayDecide(u, i) /\ proposal[i].kind = "CONFIG_CHANGE"
  /\ version[n].base = source.version
  /\ HostsListed(version[n].config)
  /\ version' = InForce([version EXCEPT ![n].approver = u], n)
  /\ source' = [source EXCEPT !.config = version[n].config, !.version = n]
  /\ proposal' = [proposal EXCEPT ![i].status = "APPLIED"]
  /\ UNCHANGED <<form, switches>>

\* The configuration of the moment is activated, whatever the status has become since the request.
ApproveActivation(u, i) ==
  /\ MayDecide(u, i) /\ proposal[i].kind = "SOURCE_ACTIVATION"
  /\ HostsListed(source.config)
  /\ source' = [source EXCEPT !.status = "ACTIVE"]
  /\ proposal' = [proposal EXCEPT ![i].status = "APPLIED"]
  /\ UNCHANGED <<version, form, switches>>

-----------------------------------------------------------------------------
(* Status *)

\* set_status; a pause may have an end.  The incident of a core list is in module Supervisor.
SetStatus(u, status) ==
  /\ Switch
  /\ status = "ACTIVE" => source.status # "DRAFT" /\ HostsListed(source.config)
  /\ "DISABLED" \in {status} \cup (IF status = "ACTIVE" THEN {source.status} ELSE {}) => u \in Admin
  /\ \E pause \in IF status = "PAUSED" THEN {"NONE", "AHEAD"} ELSE {"NONE"} :
       source' = [source EXCEPT !.status = status, !.pause = pause]
  /\ UNCHANGED <<version, proposal, form>>

PausePasses ==
  /\ source.pause = "AHEAD"
  /\ source' = [source EXCEPT !.pause = "PASSED"]
  /\ UNCHANGED <<version, proposal, form, switches>>

\* chores: a pause whose window has passed ends.
AutoResume ==
  /\ source.status = "PAUSED" /\ source.pause = "PASSED"
  /\ source' = [source EXCEPT !.status = "ACTIVE", !.pause = "NONE"]
  /\ UNCHANGED <<version, proposal, form, switches>>

Next ==
  \/ \E u \in Admin : Load(u) \/ Edit(u) \/ Rollback(u) \/ SeedOverwrites(u) \/ RequestActivation(u)
  \/ AgentProposes
  \/ \E u \in Admin, i \in DOMAIN proposal :
       Reject(u, i) \/ ApproveChange(u, i) \/ ApproveActivation(u, i)
  \/ \E u \in User, status \in {"ACTIVE", "PAUSED", "DISABLED"} : SetStatus(u, status)
  \/ PausePasses \/ AutoResume

Spec == Init /\ [][Next]_vars

-----------------------------------------------------------------------------
(* Properties *)

\* Whatever edits, approvals, rollbacks and imports interleave, one version is in force, and it is
\* the one the source row runs with.
OneVersionInForce ==
  \A i \in DOMAIN version :
    version[i].status = "ACTIVE" <=> i = source.version /\ version[i].config = source.config

\* No lost update: a version comes into force on top of the version its author saw, so nobody's
\* change is undone by somebody who never saw it.
NoLostUpdate ==
  [][source'.version # source.version => version'[source'.version].base = source.version]_vars

\* One of the URLs of a configuration is replaced by another.
Replaces(new, old) == \E part \in {"url", "block"} : new[part] # old[part] /\ NULL \notin {new[part], old[part]}

\* Four eyes: a version that replaces a URL of the version it was edited from, that of the block
\* included, came into force because another admin than its author approved it, with its hosts on the
\* allow-list, unless the deployment's own seed set it.  A block that one version drops and a later
\* one sets anew is not replaced in this sense: neither edit is sensitive to the code, although
\* docs/architecture.md:245 has a second admin approve every change of a URL.
FourEyes ==
  \A i \in DOMAIN version :
    LET v == version[i] IN
    v.status \in {"ACTIVE", "SUPERSEDED"} /\ ~v.trusted /\ Replaces(v.config, version[v.base].config)
      => v.approver \notin {v.author, NULL} /\ HostsListed(v.config)
=============================================================================
