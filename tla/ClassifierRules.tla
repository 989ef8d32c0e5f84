---------------------------- MODULE ClassifierRules ----------------------------
(***************************************************************************)
(* The rules of the incident classifier (ClassificationEngine.classify):   *)
(* what a snapshot of both agents' measurements, service checks and        *)
(* heartbeats is found to be a symptom of.                                 *)
(*                                                                         *)
(* A row of the snapshot is one group of samples.  Rates are kept as       *)
(* counts, a loss as the sum of the samples' percentages, a signal as      *)
(* decibels below zero, and 0 stands for a peak or a signal there is none  *)
(* of.                                                                     *)
(***************************************************************************)
EXTENDS Integers, FiniteSetsExt

CONSTANTS
  Wired, Wifi,     \* agent_role; one agent has each
  MinimumSamples, HealthyRate, FailedRate, HighLatency, HighLoss, WeakSignal,
  StaleAfter       \* heartbeat_stale_seconds, in rounds

\* ClassifierConfig.from_env
ASSUME RulesAssumption ==
  /\ Wired # Wifi
  /\ {MinimumSamples, HighLatency, StaleAfter} \subseteq Nat \ {0}
  /\ {FailedRate, HealthyRate, HighLoss} \subseteq 0..100
  /\ FailedRate < HealthyRate
  /\ WeakSignal \in 0..120

\* MeasurementSummary and ServiceSummary: type is the measurement's or check's, and
\* endpoints are those of KNOWN_ENDPOINTS that have service checks.
Summaries ==
  [role : {Wired, Wifi}, type : {"router_ping", "external_ping", "wifi_diagnostics"},
   count : Nat, succeeded : Nat, peak : Nat, loss : Nat, signal : 0..120, connected : Nat]
Services ==
  [role : {Wired, Wifi}, endpoint : {"dns-check", "example-service"},
   type : {"dns", "http"}, count : Nat, succeeded : Nat]

\* A finding is known by its incident_key: a type, and endpoints or an agent.
Finding(type) == <<type, {}>>
ServiceFinding(type, rows) == <<type, {row.endpoint : row \in rows}>>

-----------------------------------------------------------------------------
(* Rows                                                                    *)

Sampled(rows) == {row \in rows : row.count >= MinimumSamples}

Of(rows, role, type) == {row \in rows : row.role = role /\ row.type = type}

Healthy(row) == 100 * row.succeeded >= HealthyRate * row.count

Failed(row) == 100 * row.succeeded <= FailedRate * row.count

Slow(row) == row.peak >= HighLatency
Lossy(row) == row.loss >= HighLoss * row.count

AllHealthy(rows) == rows # {} /\ \A row \in rows : Healthy(row)
AllFailed(rows) == rows # {} /\ \A row \in rows : Failed(row)

CoversBothAgents(rows) == {row.role : row \in rows} = {Wired, Wifi}

\* _wifi_degraded: half the latency or three quarters of the loss, and a weak
\* signal at least once.
WifiDegraded(network, diagnostics) ==
  /\ \E row \in network :
       2 * row.peak >= HighLatency \/ 4 * row.loss >= 3 * HighLoss * row.count
  /\ \E row \in diagnostics : row.signal # 0 /\ row.signal >= WeakSignal

WifiDisconnected(rows) ==
  rows # {} /\ \A row \in rows : 100 * row.connected <= FailedRate * row.count

-----------------------------------------------------------------------------
(* Specific rules, m being the measurements and s the service checks       *)

WiredHealthy(m) ==
  AllHealthy(Of(m, Wired, "router_ping")) /\ AllHealthy(Of(m, Wired, "external_ping"))
RoutersHealthy(m) ==
  AllHealthy(Of(m, Wired, "router_ping")) /\ AllHealthy(Of(m, Wifi, "router_ping"))
ExternalHealthy(m) ==
  AllHealthy(Of(m, Wired, "external_ping")) /\ AllHealthy(Of(m, Wifi, "external_ping"))

\* Mutant: one agent's router is enough.
RouterUnavailableEither(m) ==
  AllFailed(Of(m, Wired, "router_ping")) \/ AllFailed(Of(m, Wifi, "router_ping"))

\* Both agents fail to reach the router.
RouterUnavailable(m) ==
  AllFailed(Of(m, Wired, "router_ping")) /\ AllFailed(Of(m, Wifi, "router_ping"))

\* The wired agent is well, the Wi-Fi agent is not associated.
WifiOutage(m) ==
  /\ WiredHealthy(m)
  /\ AllFailed(Of(m, Wifi, "router_ping"))
  /\ WifiDisconnected(Of(m, Wifi, "wifi_diagnostics"))

\* Mutant: routers that cannot be reached either make an ISP outage.
IspOutageAnyRouter(m) ==
  AllFailed(Of(m, Wired, "external_ping")) /\ AllFailed(Of(m, Wifi, "external_ping"))

\* Both reach the router, neither the external address.
IspOutage(m) ==
  /\ RoutersHealthy(m)
  /\ AllFailed(Of(m, Wired, "external_ping"))
  /\ AllFailed(Of(m, Wifi, "external_ping"))

\* The wired agent is well, the Wi-Fi agent slow or lossy, and its signal weak.
WifiDegradation(m) ==
  /\ WiredHealthy(m)
  /\ Of(m, Wifi, "router_ping") # {}
  /\ WifiDegraded(Of(m, Wifi, "router_ping") \union Of(m, Wifi, "external_ping"),
                  Of(m, Wifi, "wifi_diagnostics"))

\* The findings of the services, when the network is healthy.
ServiceFindings(s) ==
  LET dns == {row \in s : row.type = "dns"}
      http == {row \in s : row.type = "http"}
      failing == {row \in http : Failed(row)}
  IN  CASE CoversBothAgents({row \in dns : Failed(row)}) -> {ServiceFinding("dns_failure", dns)}
        [] /\ AllHealthy(dns)
           /\ failing # {}
           /\ \/ \E row \in http : Healthy(row)
              \/ Cardinality({row.endpoint : row \in http}) = 1
             -> {ServiceFinding("external_service_failure", failing)}
        [] OTHER -> {}

\* The if and elif of classify, in their order.
Specific(m, s) ==
  IF RouterUnavailable(m) THEN {Finding("router_unavailable")}
  ELSE IF WifiOutage(m) THEN {Finding("wifi_outage")}
  ELSE IF IspOutage(m) THEN {Finding("isp_outage")}
  ELSE IF WifiDegradation(m) THEN {Finding("wifi_degradation")}
  ELSE IF RoutersHealthy(m) /\ ExternalHealthy(m) THEN ServiceFindings(s)
  ELSE {}

-----------------------------------------------------------------------------
(* Symptoms without a specific rule, and heartbeats                        *)

\* Loss before latency, of both agents; any other impairment is unexplained.
General(m) ==
  LET pings == {row \in m : row.type # "wifi_diagnostics"} IN
  IF CoversBothAgents({row \in pings : Lossy(row)}) THEN {Finding("high_packet_loss")}
  ELSE IF CoversBothAgents({row \in m : Slow(row)}) THEN {Finding("high_latency")}
  ELSE IF \E row \in pings : Failed(row) \/ Lossy(row) \/ Slow(row)
         THEN {Finding("unknown_network_incident")}
  ELSE {}

\* _offline_findings: an agent without a recent heartbeat, while another has one.
\* ages are those of the enabled agents' last heartbeats; one that never came is
\* older than StaleAfter.
Offline(ages) ==
  LET recent == {a \in DOMAIN ages : ages[a] <= StaleAfter}
  IN  IF recent = {} THEN {} ELSE {<<"agent_offline", {a}>> : a \in DOMAIN ages \ recent}

\* classify
Classify(measurements, services, ages) ==
  LET specific == Specific(Sampled(measurements), Sampled(services))
  IN  (IF specific = {} THEN General(Sampled(measurements)) ELSE specific)
        \union Offline(ages)
=============================================================================
