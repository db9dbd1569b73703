----------------------------- MODULE Supervisor -----------------------------
(***************************************************************************)
(* The supervisor's tick and the incidents of one core list: the loop of   *)
(* ops/scheduler.py with ops/autopilot.py, ops/incidents.py and            *)
(* ops/alerts.py, the agent's cycle in it (agent/supervisor.py with the    *)
(* guards and act tools of agent/), the runs that end meanwhile, and the   *)
(* users of the console.  Each step of the tick is one transaction, and    *)
(* one that raises ends the tick; so does a crash of the process.  The     *)
(* clocks are flags that time sets.                                        *)
(***************************************************************************)
EXTENDS Integers

CONSTANTS MaxEnqueues, MaxIncidentWrites   \* ActionLimits
ASSUME LimitAssumption == MaxEnqueues \in Nat /\ MaxIncidentWrites \in Nat

VARIABLES
  pc,           \* the step of the tick that comes next
  left,         \* what the agent may still do in this cycle
  incident,     \* the unresolved incident of each kind
  source,       \* the row of the core list
  run,          \* its active run
  maintenance,  \* the setting maintenance_mode
  dismissed     \* somebody resolved the incident CORE_SOURCE_DISABLED by hand

vars == <<pc, left, incident, source, run, maintenance, dismissed>>

Steps == {"CHORES", "WATCHDOG", "PLAN", "POLL", "ALERTS"}

\* by error class: of the watchdog and of set_status; those that a run opens are left out
Kind == {"STALE", "CORE_SOURCE_DISABLED"}
Incident == [status : {"NONE", "OPEN", "ACK"}, page : BOOLEAN,   \* severity PAGE, or below
             alert : {"NEVER", "RECENT", "LONG_AGO"}]            \* alerts_sent with last_alert_at
NoIncident == [status |-> "NONE", page |-> FALSE, alert |-> "NEVER"]
\* Nothing is announced of an incident that is acknowledged: the rest of its row is left out.
Acknowledged == [NoIncident EXCEPT !.status = "ACK"]

SourceRow == [status : {"ACTIVE", "OFF"},              \* OFF: PAUSED, or DISABLED
              pause : {"NONE", "AHEAD", "PASSED"},     \* paused_until
              stale : {"FRESH", "WARN", "HARD"},       \* by warn_staleness and hard_max_staleness
              wait : BOOLEAN]                          \* the politeness floor or the breaker refuses

\* Type invariant.
SupervisorTypeOK ==
  /\ pc \in Steps \cup {"IDLE", "AGENT"}
  /\ left \in [enqueue : 0..MaxEnqueues, incident : 0..MaxIncidentWrites]
  /\ incident \in [Kind -> Incident]
  /\ source \in SourceRow
  /\ run \in {"NONE", "QUEUED", "RUNNING"}
  /\ maintenance \in BOOLEAN /\ dismissed \in BOOLEAN

NothingLeft == [enqueue |-> 0, incident |-> 0]

Init ==
  /\ pc = "IDLE" /\ left = NothingLeft
  /\ incident = [k \in Kind |-> NoIncident]
  /\ source = [status |-> "ACTIVE", pause |-> "NONE", stale |-> "FRESH", wait |-> FALSE]
  /\ run = "NONE" /\ maintenance = FALSE /\ dismissed = FALSE

-----------------------------------------------------------------------------
(* Incidents *)

\* open_incident: an unresolved one is bumped, and its severity only rises.
Opened(incidents, k, page) ==
  CASE incidents[k].status = "NONE" ->
         [incidents EXCEPT ![k] = [status |-> "OPEN", page |-> page, alert |-> "NEVER"]]
    [] incidents[k].status = "OPEN" -> [incidents EXCEPT ![k].page = @ \/ page]
    [] incidents[k].status = "ACK" -> incidents

\* resolve
Resolved(incidents, kinds) ==
  [k \in Kind |-> IF k \in kinds THEN NoIncident ELSE incidents[k]]

\* dispatch selects it.
Owed(k) ==
  /\ incident[k].status = "OPEN"
  /\ \/ incident[k].alert = "NEVER"
     \/ incident[k].alert = "LONG_AGO" /\ (incident[k].page \/ k = "CORE_SOURCE_DISABLED")

-----------------------------------------------------------------------------
(* The tick *)

\* The guards of enqueue_guarded, and the queue's own.
MayEnqueue == ~maintenance /\ source.status = "ACTIVE" /\ ~source.wait /\ run = "NONE"

Goes(from, to) == pc = from /\ pc' = to

\* The tick begins with reclaim_abandoned (module RunQueue) and the daily purge.  The agent is asked
\* when it is enabled, there is a reason and no maintenance.
GateStep ==
  /\ \/ Goes("IDLE", "CHORES") /\ left' = NothingLeft
     \/ /\ ~maintenance /\ Goes("IDLE", "AGENT")
        /\ left' = [enqueue |-> MaxEnqueues, incident |-> MaxIncidentWrites]
  /\ UNCHANGED <<incident, source, run, maintenance, dismissed>>

\* chores: a pause whose window has passed ends, and its incident with it.
ChoresStep ==
  /\ Goes("CHORES", "WATCHDOG")
  /\ IF source.pause = "PASSED"
       THEN /\ source' = [source EXCEPT !.status = "ACTIVE", !.pause = "NONE"]
            /\ incident' = Resolved(incident, {"CORE_SOURCE_DISABLED"})
       ELSE UNCHANGED <<source, incident>>
  /\ UNCHANGED <<left, run, maintenance, dismissed>>

\* Mutant: a pull is forced only when the incident is new.
WatchdogStepOncePerIncident ==
  /\ Goes("WATCHDOG", "PLAN")
  /\ IF maintenance \/ source.status # "ACTIVE" THEN UNCHANGED <<incident, run>>
     ELSE IF source.stale = "FRESH"
       THEN incident' = Resolved(incident, {"STALE"}) /\ UNCHANGED run
     ELSE /\ incident' = Opened(incident, "STALE", source.stale = "HARD")
          /\ run' = IF source.stale = "HARD" /\ incident["STALE"].status = "NONE" /\ MayEnqueue
                    THEN "QUEUED" ELSE run
  /\ UNCHANGED <<left, source, maintenance, dismissed>>

\* watchdog: staleness is reported, and past the ceiling a pull is forced.
WatchdogStep ==
  /\ Goes("WATCHDOG", "PLAN")
  /\ IF maintenance \/ source.status # "ACTIVE" THEN UNCHANGED <<incident, run>>
     ELSE IF source.stale = "FRESH"
       THEN incident' = Resolved(incident, {"STALE"}) /\ UNCHANGED run
     ELSE /\ incident' = Opened(incident, "STALE", source.stale = "HARD")
          /\ run' = IF source.stale = "HARD" /\ MayEnqueue THEN "QUEUED" ELSE run
  /\ UNCHANGED <<left, source, maintenance, dismissed>>

\* plan and run_plan: the source may be due, or signalled.
PlanStep ==
  /\ Goes("PLAN", "POLL")
  /\ \/ UNCHANGED run
     \/ MayEnqueue /\ run' = "QUEUED"
  /\ UNCHANGED <<left, incident, source, maintenance, dismissed>>

\* Between two ticks the pool is polled as well.
PollStep ==
  /\ Goes("POLL", "ALERTS") \/ Goes("IDLE", "IDLE")
  /\ run' = IF run = "QUEUED" THEN "RUNNING" ELSE run
  /\ UNCHANGED <<left, incident, source, maintenance, dismissed>>

\* Whatever the channels deliver, the alert is marked as sent.
AlertsStep ==
  /\ Goes("ALERTS", "IDLE")
  /\ incident' = [k \in Kind |-> IF Owed(k) THEN [incident[k] EXCEPT !.alert = "RECENT"] ELSE incident[k]]
  /\ UNCHANGED <<left, source, run, maintenance, dismissed>>

\* A step raises, or the process dies and is started again; the transaction is rolled back.
TickFails ==
  /\ pc # "IDLE" /\ pc' = "IDLE" /\ left' = NothingLeft
  /\ UNCHANGED <<incident, source, run, maintenance, dismissed>>

-----------------------------------------------------------------------------
(* The agent's cycle; read tools and proposals change nothing here *)

\* Mutant: the limit is counted and not compared.
TakesUnlimited(counter) == pc = "AGENT" /\ left' = [left EXCEPT ![counter] = @ - 1]

\* guarded: a call uses up its limit, also one that is denied.
Takes(counter) == pc = "AGENT" /\ left[counter] > 0 /\ left' = [left EXCEPT ![counter] = @ - 1]

\* run_ingestion and reparse_archived, which ignores the politeness floor but not the breaker;
\* schedule_retry asks for the status of the source and nothing else.
AgentEnqueues ==
  /\ Takes("enqueue")
  /\ run' \in IF source.status = "ACTIVE" /\ run = "NONE" THEN {"NONE", "QUEUED"} ELSE {run}
  /\ UNCHANGED <<pc, incident, source, maintenance, dismissed>>

\* record_diagnosis sets any severity, which makes no difference to a core list that is off;
\* raise_incident has a key of its own for every title.
AgentDiagnoses ==
  /\ Takes("incident")
  /\ \E k \in Kind \ {"CORE_SOURCE_DISABLED"}, page \in BOOLEAN :
       /\ incident[k].status = "OPEN"
       /\ incident' = [incident EXCEPT ![k].page = page]
  /\ UNCHANGED <<pc, source, run, maintenance, dismissed>>

DismissedAfter(k) == dismissed \/ k = "CORE_SOURCE_DISABLED"

AgentResolves ==
  /\ Takes("incident")
  /\ \E k \in Kind : /\ incident[k].status # "NONE"
                     /\ incident' = Resolved(incident, {k})
                     /\ dismissed' = DismissedAfter(k)
  /\ UNCHANGED <<pc, source, run, maintenance>>

\* Mutant: a cycle that does not succeed ends the tick.
AgentEndsOrRaises == pc' \in {"CHORES", "IDLE"}

\* SUCCEEDED, FAILED, TIMEOUT, BUDGET_EXCEEDED and SKIPPED go on alike, and so does an exception.
AgentOutcome == pc' = "CHORES"

AgentEnds ==
  /\ pc = "AGENT" /\ AgentOutcome /\ left' = NothingLeft
  /\ UNCHANGED <<incident, source, run, maintenance, dismissed>>

-----------------------------------------------------------------------------
(* Runs *)

\* Mutant: a run that ends well resolves every incident of its source.
SettledAll == Kind

\* The classes a run that ends well resolves are those that runs open.
Settled == {}

\* Published, or no change; a run without a download makes nothing fresh.
RunEndsWell ==
  /\ run = "RUNNING" /\ run' = "NONE"
  /\ source' \in {[source EXCEPT !.stale = fresh, !.wait = TRUE] : fresh \in {"FRESH", source.stale}}
  /\ incident' = Resolved(incident, Settled)
  /\ UNCHANGED <<pc, left, maintenance, dismissed>>

\* Failed, held or quarantined; cancelled, in the queue or by its executor; abandoned, not resumed.
RunEndsOtherwise ==
  /\ run # "NONE" /\ run' = "NONE"
  /\ source' = [source EXCEPT !.wait = @ \/ run = "RUNNING"]
  /\ UNCHANGED <<pc, left, incident, maintenance, dismissed>>

-----------------------------------------------------------------------------
(* Users and time *)

\* set_status of a core list
ReportsOff(status) ==
  IF status = "ACTIVE" THEN Resolved(incident, {"CORE_SOURCE_DISABLED"})
  ELSE Opened(incident, "CORE_SOURCE_DISABLED", FALSE)

SetStatus(status) ==
  /\ \E pause \in IF status = "OFF" THEN {"NONE", "AHEAD"} ELSE {"NONE"} :
       source' = [source EXCEPT !.status = status, !.pause = pause]
  /\ incident' = ReportsOff(status)
  /\ dismissed' = FALSE
  /\ UNCHANGED <<pc, left, run, maintenance>>

Ack(k) ==
  /\ incident[k].status = "OPEN"
  /\ incident' = [incident EXCEPT ![k] = Acknowledged]
  /\ UNCHANGED <<pc, left, source, run, maintenance, dismissed>>

ResolveByHand(k) ==
  /\ incident[k].status # "NONE"
  /\ incident' = Resolved(incident, {k})
  /\ dismissed' = DismissedAfter(k)
  /\ UNCHANGED <<pc, left, source, run, maintenance>>

SetMaintenance ==
  /\ maintenance' = ~maintenance
  /\ UNCHANGED <<pc, left, incident, source, run, dismissed>>

TimePasses ==
  /\ \/ source.pause = "AHEAD" /\ source' = [source EXCEPT !.pause = "PASSED"]
     \/ source.stale = "FRESH" /\ source' = [source EXCEPT !.stale = "WARN"]
     \/ source.stale = "WARN" /\ source' = [source EXCEPT !.stale = "HARD"]
  /\ UNCHANGED <<pc, left, incident, run, maintenance, dismissed>>

WaitEnds ==
  /\ source.wait /\ source' = [source EXCEPT !.wait = FALSE]
  /\ UNCHANGED <<pc, left, incident, run, maintenance, dismissed>>

AlertAges(k) ==
  /\ incident[k].alert = "RECENT"
  /\ incident' = [incident EXCEPT ![k].alert = "LONG_AGO"]
  /\ UNCHANGED <<pc, left, source, run, maintenance, dismissed>>

TickStep == GateStep \/ ChoresStep \/ WatchdogStep \/ PlanStep \/ PollStep \/ AlertsStep
AgentStep == AgentEnqueues \/ AgentDiagnoses \/ AgentResolves \/ AgentEnds
RunStep == RunEndsWell \/ RunEndsOtherwise

Next ==
  \/ TickStep \/ TickFails \/ AgentStep \/ RunStep
  \/ \E status \in {"ACTIVE", "OFF"} : SetStatus(status)
  \/ \E k \in Kind : Ack(k) \/ ResolveByHand(k) \/ AlertAges(k)
  \/ SetMaintenance \/ TimePasses \/ WaitEnds

Spec == Init /\ [][Next]_vars

\* Ticks begin, a cycle of the agent ends by its timeout, and no step fails for ever.  Nothing is
\* assumed of users, of runs or of what the agent does.
Fairness ==
  /\ SF_vars(AgentEnds) /\ WF_vars(WaitEnds)
  /\ SF_vars(GateStep) /\ SF_vars(ChoresStep) /\ SF_vars(WatchdogStep)
  /\ SF_vars(PlanStep) /\ SF_vars(Goes("POLL", "ALERTS") /\ PollStep) /\ SF_vars(AlertsStep)

FairSpec == Spec /\ Fairness

-----------------------------------------------------------------------------
(* Properties *)

\* A core list that is off is reported until it is on again: no run that ends, no tick and no other
\* incident silences it; only a person or the agent can, by resolving it.
CoreOffIsReported ==
  source.status # "ACTIVE" => incident["CORE_SOURCE_DISABLED"].status # "NONE" \/ dismissed

\* An alert that is owed goes out, or the incident is taken care of, also when the agent fails, runs
\* into its timeout or is not there; a page and a core list that is off are announced again and again.
AlertsGoOut == \A k \in Kind : Owed(k) ~> ~Owed(k)

\* An active list past its ceiling is pulled, whatever the agent decided, unless it recovers, is
\* switched off, or maintenance begins.
HardStale == source.status = "ACTIVE" /\ source.stale = "HARD" /\ ~maintenance
StaleIsPulled == HardStale ~> run # "NONE" \/ ~HardStale
=============================================================================
