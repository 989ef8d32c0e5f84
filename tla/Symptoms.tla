------------------------------- MODULE Symptoms -------------------------------
(***************************************************************************)
(* What the classifier makes of a network over time: the simulator's       *)
(* scenarios (or what they stand for) happen one after the other, both     *)
(* agents report a round of events, PostgreSQL holds those of the lookback *)
(* window, and each evaluation classifies the window and advances the      *)
(* incidents.                                                              *)
(*                                                                         *)
(* While a scenario begins or ends the window holds rounds of several.     *)
(***************************************************************************)
EXTENDS ClassifierRules, Sequences

CONSTANTS
  Scenarios,    \* those that happen
  Lookback,     \* lookback_seconds, in rounds
  Others,       \* enabled agents that never run: agents rows of other set-ups
  OpenObservations, ResolveObservations,
  MaxChanges    \* bound: changes of the scenario

ASSUME SymptomsAssumption ==
  /\ {Lookback, OpenObservations, ResolveObservations} \subseteq Nat \ {0}
  /\ MinimumSamples <= Lookback
  /\ {Wired, Wifi} \cap Others = {}
  /\ MaxChanges \in Nat

VARIABLES
  scenario,   \* the condition of the network now
  window,     \* the scenarios of the rounds in the lookback window
  ages,       \* [enabled agents -> rounds since the last heartbeat]
  incidents,  \* [incident keys -> lifecycle state of the active incident]
  due,        \* no evaluation since the last round
  changes

vars == <<scenario, window, ages, incidents, due, changes>>

-----------------------------------------------------------------------------
(* ScenarioGenerator                                                       *)

\* The scenarios that differ in what the classifier sees.  "silence" is no
\* scenario of the simulator: nothing reaches PostgreSQL.
AllScenarios ==
  {"healthy", "wifi-degradation", "wifi-outage", "router-outage", "isp-outage",
   "dns-outage", "external-service-failure", "high-latency", "packet-loss",
   "agent-shutdown", "late-events", "silence"}

ASSUME ScenariosAssumption == Scenarios \subseteq AllScenarios

\* The agents whose round falls into the window: events that are two hours late
\* do not.
Reporting(s) ==
  CASE s = "silence" -> {}
    [] s \in {"agent-shutdown", "late-events"} -> {Wired}
    [] OTHER -> {Wired, Wifi}

\* _agent_round: what the checks of an agent find.
Connected(s) == s # "wifi-outage"
RouterAnswers(s, a) == s # "router-outage" /\ ~(s = "wifi-outage" /\ a = Wifi)
ExternalAnswers(s, a) == RouterAnswers(s, a) /\ s # "isp-outage"
DnsAnswers(s, a) == ExternalAnswers(s, a) /\ s # "dns-outage"
HttpAnswers(s, a) == DnsAnswers(s, a) /\ s # "external-service-failure"

Degraded(s, a) == s = "wifi-degradation" /\ a = Wifi
RouterLatency(s, a) == IF Degraded(s, a) THEN 85 ELSE 6
ExternalLatency(s, a) ==
  IF Degraded(s, a) THEN 145 ELSE IF s = "high-latency" THEN 240 ELSE 26
PacketLoss(s, a) == IF Degraded(s, a) THEN 18 ELSE IF s = "packet-loss" THEN 35 ELSE 0
Signal(s) == IF s = "wifi-degradation" THEN 84 ELSE 57

Succeeds(type, s, a) ==
  CASE type = "router_ping" -> RouterAnswers(s, a)
    [] type = "external_ping" -> ExternalAnswers(s, a)
    [] type = "wifi_diagnostics" -> Connected(s)
    [] type = "dns" -> DnsAnswers(s, a)
    [] type = "http" -> HttpAnswers(s, a)

\* latency_ms, packet_loss_pct and signal_dbm of a round's measurement.
Latency(type, s, a) ==
  IF ~Succeeds(type, s, a) \/ type = "wifi_diagnostics" THEN 0
  ELSE IF type = "router_ping" THEN RouterLatency(s, a) ELSE ExternalLatency(s, a)
Loss(type, s, a) ==
  IF ~Succeeds(type, s, a) THEN 100
  ELSE IF type = "wifi_diagnostics" THEN 0 ELSE PacketLoss(s, a)
SignalOf(type, s) == IF type = "wifi_diagnostics" /\ Connected(s) THEN Signal(s) ELSE 0

\* EXPECTED_CLASSIFICATION; late events leave the agent without a heartbeat.
Expected(s) ==
  CASE s = "wifi-degradation" -> {Finding("wifi_degradation")}
    [] s = "wifi-outage" -> {Finding("wifi_outage")}
    [] s = "router-outage" -> {Finding("router_unavailable")}
    [] s = "isp-outage" -> {Finding("isp_outage")}
    [] s = "dns-outage" -> {<<"dns_failure", {"dns-check"}>>}
    [] s = "external-service-failure" -> {<<"external_service_failure", {"example-service"}>>}
    [] s = "high-latency" -> {Finding("high_latency")}
    [] s = "packet-loss" -> {Finding("high_packet_loss")}
    [] s \in {"agent-shutdown", "late-events"} -> {<<"agent_offline", {Wifi}>>}
    [] OTHER -> {}

-----------------------------------------------------------------------------
(* PostgresIncidentRepository.load_snapshot                                *)

\* The rounds of the window with rows of an agent.
RoundsOf(a) == {i \in DOMAIN window : a \in Reporting(window[i])}
SumOver(a, Op(_)) == MapThenSumSet(LAMBDA i : Op(window[i]), RoundsOf(a))
Count(a, type) == Cardinality({i \in RoundsOf(a) : Succeeds(type, window[i], a)})

Measurement(a, type) ==
  [role |-> a, type |-> type, count |-> Cardinality(RoundsOf(a)),
   succeeded |-> Count(a, type),
   peak |-> Max({0} \union {Latency(type, window[i], a) : i \in RoundsOf(a)}),
   loss |-> SumOver(a, LAMBDA s : Loss(type, s, a)),
   signal |-> Max({0} \union {SignalOf(type, window[i]) : i \in RoundsOf(a)}),
   connected |-> Count(a, "wifi_diagnostics")]

Measurements ==
  {Measurement(a, type) : a \in {Wired, Wifi}, type \in {"router_ping", "external_ping"}}
    \union {Measurement(Wifi, "wifi_diagnostics")}

ServiceChecks ==
  {[role |-> a, endpoint |-> endpoint[2], type |-> endpoint[1],
    count |-> Cardinality(RoundsOf(a)), succeeded |-> Count(a, endpoint[1])] :
     a \in {Wired, Wifi}, endpoint \in {<<"dns", "dns-check">>, <<"http", "example-service">>}}

\* The one snapshot is bound first, then classified.
Findings ==
  UNION {Classify(m, s, ages) : m \in {Measurements}, s \in {ServiceChecks}}

-----------------------------------------------------------------------------
(* Incidents                                                               *)

Enabled == {Wired, Wifi} \union Others

Keys ==
  {Finding(type) : type \in {"router_unavailable", "wifi_outage", "isp_outage",
                             "wifi_degradation", "high_packet_loss", "high_latency",
                             "unknown_network_incident"}}
    \union {<<"dns_failure", {"dns-check"}>>, <<"external_service_failure", {"example-service"}>>}
    \union {<<"agent_offline", {a}>> : a \in Enabled}

None == [status |-> "none", positives |-> 0, recoveries |-> 0]
Incidents ==
  [status : {"none", "candidate", "open", "ongoing", "recovering"},
   positives : 0..OpenObservations, recoveries : 0..Max({1, ResolveObservations - 1})]

\* transition, for a key that has been found: the count of observations matters
\* until it reaches open_observations.
Found(i) ==
  LET positives == IF i.positives < OpenObservations THEN i.positives + 1 ELSE i.positives IN
  [status |-> CASE i.status = "none" -> "candidate"
                [] i.status = "candidate" ->
                     IF positives >= OpenObservations THEN "open" ELSE "candidate"
                [] i.status = "recovering" -> "open"
                [] OTHER -> "ongoing",
   positives |-> positives, recoveries |-> 0]

\* Mutant: recovery observations do not add up.
MissingOnce(i) ==
  IF i.status \in {"none", "candidate"} THEN None
  ELSE [i EXCEPT !.status = "recovering", !.recoveries = 1]

\* transition, for one that has not: None again when it is resolved.
Missing(i) ==
  IF \/ i.status \in {"none", "candidate"}
     \/ i.status = "recovering" /\ i.recoveries + 1 >= ResolveObservations
    THEN None
    ELSE [i EXCEPT !.status = "recovering", !.recoveries = @ + 1]

-----------------------------------------------------------------------------
Init ==
  /\ scenario = "healthy"
  /\ window = <<>>
  /\ ages = [a \in Enabled |-> StaleAfter + 1]
  /\ incidents = [key \in Keys |-> None]
  /\ due = FALSE
  /\ changes = 0

\* The network changes.
Change(s) ==
  /\ s # scenario
  /\ changes < MaxChanges
  /\ scenario' = s
  /\ changes' = changes + 1
  /\ UNCHANGED <<window, ages, incidents, due>>

\* A round passes: what the agents have sent is in the window.
Round ==
  /\ window' = LET rounds == Append(window, scenario)
               IN  IF Len(rounds) > Lookback THEN Tail(rounds) ELSE rounds
  /\ ages' = [a \in Enabled |-> IF a \in Reporting(scenario) THEN 0
                                ELSE IF ages[a] > StaleAfter THEN ages[a] ELSE ages[a] + 1]
  /\ due' = TRUE
  /\ UNCHANGED <<scenario, incidents, changes>>

\* IncidentClassifierService.evaluate_once
Evaluate ==
  /\ due
  /\ \E found \in {Findings} :
       incidents' = [key \in Keys |-> IF key \in found THEN Found(incidents[key])
                                      ELSE Missing(incidents[key])]
  /\ due' = FALSE
  /\ UNCHANGED <<scenario, window, ages, changes>>

Next == Round \/ Evaluate \/ \E s \in Scenarios : Change(s)

Spec == Init /\ [][Next]_vars

\* Agents go on reporting, and the classifier evaluates again and again.
Fairness == WF_vars(Round) /\ WF_vars(Evaluate)

FairSpec == Spec /\ Fairness

-----------------------------------------------------------------------------
(* Properties                                                              *)

TypeOK ==
  /\ scenario \in AllScenarios
  /\ window \in Seq(AllScenarios) /\ Len(window) <= Lookback
  /\ ages \in [Enabled -> 0..(StaleAfter + 1)]
  /\ incidents \in [Keys -> Incidents]
  /\ due \in BOOLEAN
  /\ changes \in 0..MaxChanges
  /\ Measurements \subseteq Summaries
  /\ ServiceChecks \subseteq Services

\* What a scenario is found to be when it lasts: its expected classification,
\* and enabled agents that never run are offline as long as another one runs.
Diagnosis(s) ==
  Expected(s) \union (IF Reporting(s) = {} THEN {} ELSE {<<"agent_offline", {a}>> : a \in Others})

\* A scenario that fills the window is found to be exactly what the simulator
\* expects, and healthy rounds are found to be nothing: no rule shadows another
\* (engine.py 55-214, scenarios.py 43-53).
SteadyScenarioClassified ==
  \A s \in Scenarios :
    /\ Len(window) = Lookback
    /\ \A i \in DOMAIN window : window[i] = s
    /\ \A a \in {Wired, Wifi} \ Reporting(s) : ages[a] > StaleAfter
    => Findings = Diagnosis(s)

\* While scenarios follow each other, an outage or a failure of a service is
\* found only if most rounds that both agents have reported, and no fewer than
\* the sample gate asks for, are of that very scenario: rounds of different
\* outages do not add up to a third (engine.py 29-37 and 55-151).
OutageIsEarned ==
  \A finding \in Findings :
    LET earning == Cardinality({i \in DOMAIN window : finding \in Expected(window[i])}) IN
    finding[1] \in {"router_unavailable", "wifi_outage", "isp_outage", "dns_failure",
                    "external_service_failure"}
      => 2 * earning > Cardinality(RoundsOf(Wifi)) /\ earning >= MinimumSamples

\* Once the network stays as it is, the incidents settle: those of its diagnosis
\* are open, and every other one has been resolved, those that a mixed window
\* had opened included (engine.py 219-291).
IncidentsSettle ==
  <>[](/\ \A key \in Diagnosis(scenario) : incidents[key].status \in {"open", "ongoing"}
       /\ \A key \in Keys \ Diagnosis(scenario) : incidents[key] = None)
=============================================================================
