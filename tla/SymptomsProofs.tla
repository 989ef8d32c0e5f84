--------------------------- MODULE SymptomsProofs ---------------------------
(***************************************************************************)
(* Theorems of Symptoms: what the rules find in a window of rounds, for    *)
(* every length of the window, every sequence of scenarios, and thresholds *)
(* that the theorems name.                                                 *)
(***************************************************************************)
EXTENDS Symptoms, Sums, TLAPS

-----------------------------------------------------------------------------
(* Rounds                                                                  *)

\* The rounds of an agent are some of those in the window.
LEMMA Rounds ==
  ASSUME window \in Seq(AllScenarios), NEW a
  PROVE  /\ RoundsOf(a) \in SUBSET (DOMAIN window)
         /\ IsFiniteSet(RoundsOf(a)) /\ Cardinality(RoundsOf(a)) \in Nat
         /\ IsFiniteSet(DOMAIN window)
<1>1. RoundsOf(a) \in SUBSET (DOMAIN window)
  BY DEF RoundsOf
<1>2. IsFiniteSet(1..Len(window)) /\ DOMAIN window = 1..Len(window)
  <2>1. Len(window) \in Nat /\ DOMAIN window = 1..Len(window)
    OBVIOUS
  <2>2. QED
    BY <2>1, FS_Interval
<1>3. IsFiniteSet(RoundsOf(a)) /\ Cardinality(RoundsOf(a)) \in Nat
  BY <1>1, <1>2, FS_Subset, FS_CardinalityType
<1>4. QED
  BY <1>1, <1>2, <1>3

\* The wired agent reports whenever the Wi-Fi agent does.
LEMMA WiredReports ==
  ASSUME window \in Seq(AllScenarios)
  PROVE  /\ RoundsOf(Wifi) \in SUBSET RoundsOf(Wired)
         /\ Cardinality(RoundsOf(Wifi)) <= Cardinality(RoundsOf(Wired))
<1>1. RoundsOf(Wifi) \in SUBSET RoundsOf(Wired)
  BY RulesAssumption DEF RoundsOf, Reporting
<1>2. QED
  BY <1>1, Rounds, FS_Subset

\* The rounds in which a check of an agent succeeds.
Successes(a, type) == {i \in RoundsOf(a) : Succeeds(type, window[i], a)}

\* count of a check, as the size of that set.
LEMMA Counts ==
  ASSUME window \in Seq(AllScenarios), NEW a, NEW type
  PROVE  /\ Successes(a, type) \in SUBSET RoundsOf(a)
         /\ Count(a, type) = Cardinality(Successes(a, type))
         /\ Count(a, type) \in 0..Cardinality(RoundsOf(a))
<1>1. Successes(a, type) \in SUBSET RoundsOf(a)
  BY DEF Successes
<1>2. Count(a, type) = Cardinality(Successes(a, type))
  BY DEF Successes, Count
<1>3. /\ Cardinality(Successes(a, type)) \in Nat
      /\ Cardinality(Successes(a, type)) <= Cardinality(RoundsOf(a))
  BY <1>1, Rounds, FS_Subset, FS_CardinalityType
<1>4. QED
  BY <1>1, <1>2, <1>3, Rounds

-----------------------------------------------------------------------------
(* Rows of the snapshot                                                    *)

MeasurementTypes == {"router_ping", "external_ping", "wifi_diagnostics"}

\* The checks that an agent runs.
Runs(a, type) ==
  /\ a \in {Wired, Wifi}
  /\ type \in MeasurementTypes
  /\ type = "wifi_diagnostics" => a = Wifi

IsSampled(a) == Cardinality(RoundsOf(a)) >= MinimumSamples

\* What the rules read of a row, sums and peaks apart.
LEMMA MeasurementRow ==
  ASSUME NEW a, NEW type
  PROVE  /\ Measurement(a, type).role = a
         /\ Measurement(a, type).type = type
         /\ Measurement(a, type).count = Cardinality(RoundsOf(a))
         /\ Measurement(a, type).succeeded = Count(a, type)
         /\ Measurement(a, type).connected = Count(a, "wifi_diagnostics")
  BY DEF Measurement

\* The snapshot has a row for each check that an agent runs, and no other.
LEMMA MeasurementRows ==
  ASSUME NEW row
  PROVE  row \in Measurements <=>
           \E a \in {Wired, Wifi}, type \in MeasurementTypes :
             Runs(a, type) /\ row = Measurement(a, type)
  BY RulesAssumption DEF Measurements, Runs, MeasurementTypes

\* A check has one row, once it has the samples.
LEMMA SampledRow ==
  ASSUME NEW a, NEW type, Runs(a, type), NEW row
  PROVE  row \in Of(Sampled(Measurements), a, type) <=>
           IsSampled(a) /\ row = Measurement(a, type)
<1>1. ASSUME row \in Of(Sampled(Measurements), a, type)
      PROVE  IsSampled(a) /\ row = Measurement(a, type)
  BY <1>1, MeasurementRow, MeasurementRows DEF Of, Sampled, IsSampled
<1>2. ASSUME IsSampled(a), row = Measurement(a, type)
      PROVE  row \in Of(Sampled(Measurements), a, type)
  BY <1>2, MeasurementRow, MeasurementRows DEF Of, Sampled, IsSampled, Runs
<1>3. QED
  BY <1>1, <1>2

\* What a verdict on a check says of the rounds.
LEMMA HealthyCheck ==
  ASSUME NEW a, NEW type, Runs(a, type), AllHealthy(Of(Sampled(Measurements), a, type))
  PROVE  /\ IsSampled(a)
         /\ 100 * Count(a, type) >= HealthyRate * Cardinality(RoundsOf(a))
<1>1. PICK row : row \in Of(Sampled(Measurements), a, type)
  BY DEF AllHealthy
<1>2. IsSampled(a) /\ row = Measurement(a, type)
  BY <1>1, SampledRow
<1>3. QED
  BY <1>1, <1>2, MeasurementRow DEF AllHealthy, Healthy

LEMMA FailedCheck ==
  ASSUME NEW a, NEW type, Runs(a, type), AllFailed(Of(Sampled(Measurements), a, type))
  PROVE  /\ IsSampled(a)
         /\ 100 * Count(a, type) <= FailedRate * Cardinality(RoundsOf(a))
<1>1. PICK row : row \in Of(Sampled(Measurements), a, type)
  BY DEF AllFailed
<1>2. IsSampled(a) /\ row = Measurement(a, type)
  BY <1>1, SampledRow
<1>3. QED
  BY <1>1, <1>2, MeasurementRow DEF AllFailed, Failed

LEMMA DisconnectedCheck ==
  ASSUME WifiDisconnected(Of(Sampled(Measurements), Wifi, "wifi_diagnostics"))
  PROVE  /\ IsSampled(Wifi)
         /\ 100 * Count(Wifi, "wifi_diagnostics") <= FailedRate * Cardinality(RoundsOf(Wifi))
<1>1. PICK row : row \in Of(Sampled(Measurements), Wifi, "wifi_diagnostics")
  BY DEF WifiDisconnected
<1>2. Runs(Wifi, "wifi_diagnostics")
  BY DEF Runs, MeasurementTypes
<1>3. IsSampled(Wifi) /\ row = Measurement(Wifi, "wifi_diagnostics")
  BY <1>1, <1>2, SampledRow
<1>4. QED
  BY <1>1, <1>3, MeasurementRow DEF WifiDisconnected

-----------------------------------------------------------------------------
(* Service checks                                                          *)

EndpointOf(type) == IF type = "dns" THEN "dns-check" ELSE "example-service"

ServiceRow(a, type) ==
  [role |-> a, endpoint |-> EndpointOf(type), type |-> type,
   count |-> Cardinality(RoundsOf(a)), succeeded |-> Count(a, type)]

LEMMA ServiceRows ==
  ASSUME NEW row
  PROVE  row \in ServiceChecks <=>
           \E a \in {Wired, Wifi}, type \in {"dns", "http"} : row = ServiceRow(a, type)
<1> DEFINE Endpoints == {<<"dns", "dns-check">>, <<"http", "example-service">>}
<1>1. row \in ServiceChecks <=>
        \E a \in {Wired, Wifi}, endpoint \in Endpoints :
          row = [role |-> a, endpoint |-> endpoint[2], type |-> endpoint[1],
                 count |-> Cardinality(RoundsOf(a)), succeeded |-> Count(a, endpoint[1])]
  BY DEF ServiceChecks
<1>2. ASSUME NEW a, NEW endpoint \in Endpoints
      PROVE  /\ endpoint[1] \in {"dns", "http"}
             /\ ServiceRow(a, endpoint[1]) =
                  [role |-> a, endpoint |-> endpoint[2], type |-> endpoint[1],
                   count |-> Cardinality(RoundsOf(a)), succeeded |-> Count(a, endpoint[1])]
  BY DEF ServiceRow, EndpointOf
<1>3. \A type \in {"dns", "http"} : \E endpoint \in Endpoints : endpoint[1] = type
  OBVIOUS
<1>4. ASSUME row \in ServiceChecks
      PROVE  \E a \in {Wired, Wifi}, type \in {"dns", "http"} : row = ServiceRow(a, type)
  <2>1. PICK a \in {Wired, Wifi}, endpoint \in Endpoints :
          row = [role |-> a, endpoint |-> endpoint[2], type |-> endpoint[1],
                 count |-> Cardinality(RoundsOf(a)), succeeded |-> Count(a, endpoint[1])]
    BY <1>1, <1>4
  <2>2. row = ServiceRow(a, endpoint[1]) /\ endpoint[1] \in {"dns", "http"}
    BY <1>2, <2>1
  <2>3. QED
    BY <2>2
<1>5. ASSUME NEW a \in {Wired, Wifi}, NEW type \in {"dns", "http"}, row = ServiceRow(a, type)
      PROVE  row \in ServiceChecks
  <2>1. PICK endpoint \in Endpoints : endpoint[1] = type
    BY <1>3
  <2>2. row = [role |-> a, endpoint |-> endpoint[2], type |-> endpoint[1],
               count |-> Cardinality(RoundsOf(a)), succeeded |-> Count(a, endpoint[1])]
    BY <1>2, <1>5, <2>1
  <2>3. QED
    BY <1>1, <2>2
<1>6. QED
  BY <1>4, <1>5

ServiceRowsOf(type) == {row \in Sampled(ServiceChecks) : row.type = type}

\* A service check of an agent has one row, once it has the samples.
LEMMA SampledService ==
  ASSUME NEW type \in {"dns", "http"}, NEW row
  PROVE  row \in ServiceRowsOf(type) <=>
           \E a \in {Wired, Wifi} : IsSampled(a) /\ row = ServiceRow(a, type)
<1>1. \A a, t : ServiceRow(a, t).type = t /\ ServiceRow(a, t).count = Cardinality(RoundsOf(a))
  BY DEF ServiceRow
<1>2. QED
  BY <1>1, ServiceRows DEF ServiceRowsOf, Sampled, IsSampled

LEMMA ServiceEndpoints ==
  ASSUME NEW type \in {"dns", "http"}, NEW rows \in SUBSET ServiceRowsOf(type), rows # {}
  PROVE  {row.endpoint : row \in rows} = {EndpointOf(type)}
<1>1. \A row \in rows : row.endpoint = EndpointOf(type)
  BY SampledService DEF ServiceRow
<1>2. QED
  BY <1>1

-----------------------------------------------------------------------------
(* Earning a finding                                                       *)

EarningRounds(finding) == {i \in DOMAIN window : finding \in Expected(window[i])}

\* The rounds that must be of an outage's own scenario, of n that were sampled.
Earns(finding, n) ==
  /\ Cardinality(EarningRounds(finding)) \in Nat
  /\ 100 * Cardinality(EarningRounds(finding)) >= (HealthyRate - FailedRate) * n

\* Most samples are healthy by one check and failed by another: the difference is
\* made by rounds that pass the one and not the other.
LEMMA Difference ==
  ASSUME NEW R, IsFiniteSet(R), NEW S, IsFiniteSet(S),
         NEW Good \in SUBSET R, NEW Bad \in SUBSET R, Good \in SUBSET (Bad \union S),
         100 * Cardinality(Good) >= HealthyRate * Cardinality(R),
         100 * Cardinality(Bad) <= FailedRate * Cardinality(R)
  PROVE  100 * Cardinality(S) >= (HealthyRate - FailedRate) * Cardinality(R)
<1>1. IsFiniteSet(Bad) /\ IsFiniteSet(Bad \union S)
  BY FS_Subset, FS_Union
<1>2. Cardinality(Good) <= Cardinality(Bad \union S)
  BY <1>1, FS_Subset
<1>3. /\ Cardinality(Bad) \in Nat /\ Cardinality(S) \in Nat /\ Cardinality(R) \in Nat
      /\ Cardinality(Good) \in Nat /\ Cardinality(Bad \union S) \in Nat
      /\ Cardinality(Bad \intersect S) \in Nat
  BY <1>1, FS_Subset, FS_CardinalityType
<1>4. Cardinality(Bad \union S) =
        Cardinality(Bad) + Cardinality(S) - Cardinality(Bad \intersect S)
  BY <1>1, FS_Union
<1>5. HealthyRate \in Int /\ FailedRate \in Int
  BY RulesAssumption
<1>6. (HealthyRate - FailedRate) * Cardinality(R)
        = HealthyRate * Cardinality(R) - FailedRate * Cardinality(R)
  BY <1>3, <1>5
<1>7. \A g, b, s, u, v, h, f \in Int :
        /\ g <= u /\ u = b + s - v /\ v >= 0
        /\ 100 * g >= h /\ 100 * b <= f
        => 100 * s >= h - f
  OBVIOUS
<1>8. HealthyRate * Cardinality(R) \in Int /\ FailedRate * Cardinality(R) \in Int
  BY <1>3, <1>5
<1>9. QED
  BY <1>2, <1>3, <1>4, <1>6, <1>7, <1>8

\* One check that fails suffices where every round would pass.
LEMMA FailuresEarn ==
  ASSUME window \in Seq(AllScenarios), NEW a, NEW type, NEW finding,
         100 * Count(a, type) <= FailedRate * Cardinality(RoundsOf(a)),
         \A i \in RoundsOf(a) :
           Succeeds(type, window[i], a) \/ finding \in Expected(window[i])
  PROVE  Earns(finding, Cardinality(RoundsOf(a)))
<1> DEFINE R == RoundsOf(a)  S == EarningRounds(finding)
<1>1. IsFiniteSet(R) /\ Cardinality(R) \in Nat /\ R \in SUBSET (DOMAIN window)
  BY Rounds
<1>2. IsFiniteSet(S) /\ Cardinality(S) \in Nat
  BY Rounds, FS_Subset, FS_CardinalityType DEF EarningRounds
<1>3. R \in SUBSET (Successes(a, type) \union S)
  BY <1>1 DEF EarningRounds, Successes
<1>4. 100 * Cardinality(R) >= HealthyRate * Cardinality(R)
  <2>1. HealthyRate \in 0..100
    BY RulesAssumption
  <2>2. \A h \in 0..100, n \in Nat : 100 * n >= h * n
    OBVIOUS
  <2>3. QED
    BY <1>1, <2>1, <2>2
<1>5. /\ Successes(a, type) \in SUBSET R
      /\ 100 * Cardinality(Successes(a, type)) <= FailedRate * Cardinality(R)
  BY Counts
<1> HIDE DEF R, S
<1>6. 100 * Cardinality(S) >= (HealthyRate - FailedRate) * Cardinality(R)
  BY <1>1, <1>2, <1>3, <1>4, <1>5, Difference
<1>7. QED
  BY <1>2, <1>6 DEF Earns, R, S

\* One check that passes and another that fails.
LEMMA ContrastEarns ==
  ASSUME window \in Seq(AllScenarios), NEW a, NEW passing, NEW failing, NEW finding,
         100 * Count(a, passing) >= HealthyRate * Cardinality(RoundsOf(a)),
         100 * Count(a, failing) <= FailedRate * Cardinality(RoundsOf(a)),
         \A i \in RoundsOf(a) :
           \/ ~Succeeds(passing, window[i], a)
           \/ Succeeds(failing, window[i], a)
           \/ finding \in Expected(window[i])
  PROVE  Earns(finding, Cardinality(RoundsOf(a)))
<1> DEFINE R == RoundsOf(a)  S == EarningRounds(finding)
<1>1. IsFiniteSet(R) /\ R \in SUBSET (DOMAIN window)
  BY Rounds
<1>2. IsFiniteSet(S) /\ Cardinality(S) \in Nat
  BY Rounds, FS_Subset, FS_CardinalityType DEF EarningRounds
<1>3. Successes(a, passing) \in SUBSET (Successes(a, failing) \union S)
  BY <1>1 DEF EarningRounds, Successes
<1>4. /\ Successes(a, passing) \in SUBSET R
      /\ 100 * Cardinality(Successes(a, passing)) >= HealthyRate * Cardinality(R)
      /\ Successes(a, failing) \in SUBSET R
      /\ 100 * Cardinality(Successes(a, failing)) <= FailedRate * Cardinality(R)
  BY Counts
<1> HIDE DEF R, S
<1>5. 100 * Cardinality(S) >= (HealthyRate - FailedRate) * Cardinality(R)
  BY <1>1, <1>2, <1>3, <1>4, Difference
<1>6. QED
  BY <1>2, <1>5 DEF Earns, R, S

\* Every sampled agent has its share of rounds in the count of the Wi-Fi agent.
EarnsShare(finding) ==
  /\ Earns(finding, Cardinality(RoundsOf(Wifi)))
  /\ IsSampled(Wifi)

\* A share of more rounds is a share of fewer.
LEMMA EarnsFewer ==
  ASSUME NEW finding, NEW n \in Nat, NEW k \in Nat, k <= n, Earns(finding, n)
  PROVE  Earns(finding, k)
<1>1. HealthyRate - FailedRate \in Nat
  BY RulesAssumption
<1>2. \A r \in Nat : r * k <= r * n
  OBVIOUS
<1> DEFINE r == HealthyRate - FailedRate
<1>3. r * k <= r * n /\ r * k \in Int /\ r * n \in Int
  BY <1>1, <1>2
<1> HIDE DEF r
<1>4. QED
  BY <1>3 DEF Earns, r

-----------------------------------------------------------------------------
(* Rule by rule                                                            *)

LEMMA RouterEarned ==
  ASSUME window \in Seq(AllScenarios), RouterUnavailable(Sampled(Measurements))
  PROVE  EarnsShare(Finding("router_unavailable"))
<1>1. Runs(Wired, "router_ping") /\ Runs(Wifi, "router_ping")
  BY DEF Runs, MeasurementTypes
<1>2. /\ IsSampled(Wifi)
      /\ 100 * Count(Wired, "router_ping") <= FailedRate * Cardinality(RoundsOf(Wired))
  BY <1>1, FailedCheck DEF RouterUnavailable
<1>3. ASSUME NEW i \in RoundsOf(Wired)
      PROVE  Succeeds("router_ping", window[i], Wired)
               \/ Finding("router_unavailable") \in Expected(window[i])
  BY RulesAssumption DEF Succeeds, RouterAnswers, Expected
<1>4. Earns(Finding("router_unavailable"), Cardinality(RoundsOf(Wired)))
  BY <1>2, <1>3, FailuresEarn
<1>5. QED
  BY <1>2, <1>4, EarnsFewer, WiredReports, Rounds DEF EarnsShare

LEMMA WifiEarned ==
  ASSUME window \in Seq(AllScenarios), WifiOutage(Sampled(Measurements))
  PROVE  EarnsShare(Finding("wifi_outage"))
<1>1. /\ IsSampled(Wifi)
      /\ 100 * Count(Wifi, "wifi_diagnostics") <= FailedRate * Cardinality(RoundsOf(Wifi))
  BY DisconnectedCheck DEF WifiOutage
<1>2. ASSUME NEW i \in RoundsOf(Wifi)
      PROVE  Succeeds("wifi_diagnostics", window[i], Wifi)
               \/ Finding("wifi_outage") \in Expected(window[i])
  BY DEF Succeeds, Connected, Expected
<1>3. QED
  BY <1>1, <1>2, FailuresEarn DEF EarnsShare

LEMMA IspEarned ==
  ASSUME window \in Seq(AllScenarios), IspOutage(Sampled(Measurements))
  PROVE  EarnsShare(Finding("isp_outage"))
<1>1. Runs(Wifi, "router_ping") /\ Runs(Wifi, "external_ping")
  BY DEF Runs, MeasurementTypes
<1>2. /\ IsSampled(Wifi)
      /\ 100 * Count(Wifi, "router_ping") >= HealthyRate * Cardinality(RoundsOf(Wifi))
      /\ 100 * Count(Wifi, "external_ping") <= FailedRate * Cardinality(RoundsOf(Wifi))
  BY <1>1, HealthyCheck, FailedCheck DEF IspOutage, RoutersHealthy
<1>3. ASSUME NEW i \in RoundsOf(Wifi)
      PROVE  \/ ~Succeeds("router_ping", window[i], Wifi)
             \/ Succeeds("external_ping", window[i], Wifi)
             \/ Finding("isp_outage") \in Expected(window[i])
  BY DEF Succeeds, ExternalAnswers, Expected
<1>4. QED
  BY <1>2, <1>3, ContrastEarns DEF EarnsShare

LEMMA DnsEarned ==
  ASSUME window \in Seq(AllScenarios), ExternalHealthy(Sampled(Measurements)),
         CoversBothAgents({row \in ServiceRowsOf("dns") : Failed(row)})
  PROVE  EarnsShare(<<"dns_failure", {"dns-check"}>>)
<1>1. Runs(Wifi, "external_ping")
  BY DEF Runs, MeasurementTypes
<1>2. /\ IsSampled(Wifi)
      /\ 100 * Count(Wifi, "external_ping") >= HealthyRate * Cardinality(RoundsOf(Wifi))
  BY <1>1, HealthyCheck DEF ExternalHealthy
<1>3. PICK row \in ServiceRowsOf("dns") : Failed(row) /\ row.role = Wifi
  BY DEF CoversBothAgents
<1>4. PICK a \in {Wired, Wifi} : row = ServiceRow(a, "dns")
  BY <1>3, SampledService
<1>5. 100 * Count(Wifi, "dns") <= FailedRate * Cardinality(RoundsOf(Wifi))
  BY <1>3, <1>4 DEF ServiceRow, Failed
<1>6. ASSUME NEW i \in RoundsOf(Wifi)
      PROVE  \/ ~Succeeds("external_ping", window[i], Wifi)
             \/ Succeeds("dns", window[i], Wifi)
             \/ <<"dns_failure", {"dns-check"}>> \in Expected(window[i])
  BY DEF Succeeds, DnsAnswers, Expected
<1>7. QED
  BY <1>2, <1>5, <1>6, ContrastEarns DEF EarnsShare

LEMMA ServiceEarned ==
  ASSUME window \in Seq(AllScenarios), ExternalHealthy(Sampled(Measurements)),
         AllHealthy(ServiceRowsOf("dns")),
         NEW failing \in ServiceRowsOf("http"), Failed(failing)
  PROVE  EarnsShare(<<"external_service_failure", {"example-service"}>>)
<1> DEFINE finding == <<"external_service_failure", {"example-service"}>>
<1>1. Runs(Wifi, "external_ping")
  BY DEF Runs, MeasurementTypes
<1>2. IsSampled(Wifi)
  BY <1>1, HealthyCheck DEF ExternalHealthy
<1>3. PICK a \in {Wired, Wifi} : IsSampled(a) /\ failing = ServiceRow(a, "http")
  BY SampledService
<1>4. 100 * Count(a, "http") <= FailedRate * Cardinality(RoundsOf(a))
  BY <1>3 DEF ServiceRow, Failed
<1>5. ServiceRow(a, "dns") \in ServiceRowsOf("dns")
  BY <1>3, SampledService
<1>6. 100 * Count(a, "dns") >= HealthyRate * Cardinality(RoundsOf(a))
  BY <1>5 DEF ServiceRow, AllHealthy, Healthy
<1>7. ASSUME NEW i \in RoundsOf(a)
      PROVE  \/ ~Succeeds("dns", window[i], a)
             \/ Succeeds("http", window[i], a)
             \/ finding \in Expected(window[i])
  BY DEF Succeeds, HttpAnswers, Expected
<1> HIDE DEF finding
<1>8. Earns(finding, Cardinality(RoundsOf(a)))
  BY <1>4, <1>6, <1>7, ContrastEarns
<1>9. Earns(finding, Cardinality(RoundsOf(Wifi)))
  BY <1>3, <1>8, EarnsFewer, WiredReports, Rounds
<1>10. QED
  BY <1>2, <1>9 DEF EarnsShare, finding

-----------------------------------------------------------------------------
(* Outages are earned                                                      *)

Outages ==
  {"router_unavailable", "wifi_outage", "isp_outage", "dns_failure",
   "external_service_failure"}

\* What OutageIsEarned counts, as a share that depends on the thresholds.
OutagesEarnTheirShare ==
  \A finding \in Findings : finding[1] \in Outages => EarnsShare(finding)

LEMMA ServiceFindingsEarned ==
  ASSUME window \in Seq(AllScenarios), ExternalHealthy(Sampled(Measurements)),
         NEW finding \in ServiceFindings(Sampled(ServiceChecks))
  PROVE  EarnsShare(finding)
<1> DEFINE dns == ServiceRowsOf("dns")
           http == ServiceRowsOf("http")
           failing == {row \in http : Failed(row)}
<1>1. \/ /\ CoversBothAgents({row \in dns : Failed(row)})
         /\ finding = ServiceFinding("dns_failure", dns)
      \/ /\ AllHealthy(dns) /\ failing # {}
         /\ finding = ServiceFinding("external_service_failure", failing)
  BY DEF ServiceFindings, ServiceRowsOf
<1>2. CASE CoversBothAgents({row \in dns : Failed(row)})
           /\ finding = ServiceFinding("dns_failure", dns)
  <2>1. dns # {}
    BY <1>2 DEF CoversBothAgents
  <2>2. {row.endpoint : row \in dns} = {"dns-check"}
    BY <2>1, ServiceEndpoints DEF EndpointOf
  <2>3. finding = <<"dns_failure", {"dns-check"}>>
    BY <1>2, <2>2 DEF ServiceFinding
  <2>4. QED
    BY <1>2, <2>3, DnsEarned
<1>3. CASE AllHealthy(dns) /\ failing # {}
           /\ finding = ServiceFinding("external_service_failure", failing)
  <2>1. {row.endpoint : row \in failing} = {EndpointOf("http")}
    BY <1>3, ServiceEndpoints
  <2>2. EndpointOf("http") = "example-service"
    BY DEF EndpointOf
  <2>3. finding = <<"external_service_failure", {"example-service"}>>
    BY <1>3, <2>1, <2>2 DEF ServiceFinding
  <2>4. PICK row \in ServiceRowsOf("http") : Failed(row)
    BY <1>3
  <2>5. QED
    BY <1>3, <2>3, <2>4, ServiceEarned
<1>4. QED
  BY <1>1, <1>2, <1>3

LEMMA SpecificEarned ==
  ASSUME window \in Seq(AllScenarios),
         NEW finding \in Specific(Sampled(Measurements), Sampled(ServiceChecks)),
         finding[1] \in Outages
  PROVE  EarnsShare(finding)
<1> DEFINE m == Sampled(Measurements)  s == Sampled(ServiceChecks)
<1>1. finding # Finding("wifi_degradation")
  BY DEF Finding, Outages
<1>2. \/ RouterUnavailable(m) /\ finding = Finding("router_unavailable")
      \/ WifiOutage(m) /\ finding = Finding("wifi_outage")
      \/ IspOutage(m) /\ finding = Finding("isp_outage")
      \/ ExternalHealthy(m) /\ finding \in ServiceFindings(s)
  BY <1>1 DEF Specific
<1>3. QED
  BY <1>2, RouterEarned, WifiEarned, IspEarned, ServiceFindingsEarned

LEMMA FindingsAre ==
  Findings = Classify(Measurements, ServiceChecks, ages)
  BY DEF Findings

LEMMA FindingsEarned ==
  ASSUME window \in Seq(AllScenarios)
  PROVE  OutagesEarnTheirShare
<1> SUFFICES ASSUME NEW finding \in Findings, finding[1] \in Outages
             PROVE  EarnsShare(finding)
  BY DEF OutagesEarnTheirShare
<1> DEFINE m == Sampled(Measurements)  s == Sampled(ServiceChecks)
<1>1. finding \notin Offline(ages)
  BY DEF Offline, Outages
<1>2. finding \notin General(m)
  BY DEF General, Finding, Outages
<1>3. finding \in Specific(m, s)
  BY <1>1, <1>2, FindingsAre DEF Classify
<1>4. QED
  BY <1>3, SpecificEarned

-----------------------------------------------------------------------------
(* The window                                                              *)

WindowInv ==
  /\ scenario \in AllScenarios
  /\ window \in Seq(AllScenarios)
  /\ Len(window) <= Lookback

\* The window holds scenarios, and no more than the lookback.
LEMMA WindowInit == Init => WindowInv
<1>1. Lookback \in Nat
  BY SymptomsAssumption
<1>2. QED
  BY <1>1 DEF Init, WindowInv, AllScenarios

LEMMA WindowStep ==
  ASSUME WindowInv, [Next]_vars
  PROVE  WindowInv'
<1> USE DEF WindowInv
<1>1. CASE Round
  <2> DEFINE rounds == Append(window, scenario)
  <2>1. /\ rounds \in Seq(AllScenarios) /\ Len(rounds) = Len(window) + 1
        /\ Len(window) \in Nat /\ Lookback \in Nat
    BY SymptomsAssumption
  <2>2. scenario' = scenario /\ window' = IF Len(rounds) > Lookback THEN Tail(rounds) ELSE rounds
    BY <1>1 DEF Round
  <2>3. CASE Len(rounds) > Lookback
    <3>1. rounds # <<>>
      BY <2>1
    <3> HIDE DEF rounds
    <3>2. Tail(rounds) \in Seq(AllScenarios) /\ Len(Tail(rounds)) = Len(rounds) - 1
      BY <2>1, <3>1
    <3>3. QED
      BY <2>1, <2>2, <2>3, <3>2
  <2>4. CASE ~(Len(rounds) > Lookback)
    <3>1. Len(rounds) <= Lookback
      BY <2>1, <2>4
    <3>2. QED
      BY <2>1, <2>2, <2>4, <3>1
  <2>5. QED
    BY <2>3, <2>4
<1>2. CASE \E s \in Scenarios : Change(s)
  BY <1>2, ScenariosAssumption DEF Change
<1>3. CASE Evaluate
  BY <1>3 DEF Evaluate
<1>4. CASE UNCHANGED vars
  BY <1>4 DEF vars
<1>5. QED
  BY <1>1, <1>2, <1>3, <1>4 DEF Next

LEMMA WindowInvariant == Spec => []WindowInv
<1>1. WindowInv /\ [Next]_vars => WindowInv'
  BY WindowStep
<1>2. QED
  BY WindowInit, <1>1, PTL DEF Spec

\* An outage or a failure of a service is found only if the rounds of its own
\* scenario make up at least the share of the Wi-Fi agent's rounds that separates
\* the two rates, and these are no fewer than the sample gate asks for
\* (engine.py 29-37 and 55-151), whatever the thresholds are.
THEOREM OutagesAreEarned == Spec => []OutagesEarnTheirShare
<1>1. WindowInv => OutagesEarnTheirShare
  BY FindingsEarned DEF WindowInv
<1>2. QED
  BY <1>1, WindowInvariant, PTL

\* The thresholds with which that share is most of the rounds, and all of them if
\* there are only as many as the sample gate asks for.  The defaults, 80% and 20% of
\* two samples, are such; with a gate of four samples, three of five rounds suffice.
DecisiveThresholds ==
  /\ 2 * (HealthyRate - FailedRate) > 100
  /\ (HealthyRate - FailedRate) * MinimumSamples > 100 * (MinimumSamples - 1)

\* With such thresholds, most rounds that both agents have reported, and no fewer
\* than the sample gate asks for, are of the scenario of an outage that is found:
\* rounds of different outages do not add up to a third (engine.py 29-37, 55-151).
THEOREM MostRoundsEarn ==
  ASSUME DecisiveThresholds
  PROVE  Spec => []OutageIsEarned
<1>1. ASSUME WindowInv, NEW finding \in Findings, finding[1] \in Outages
      PROVE  /\ 2 * Cardinality(EarningRounds(finding)) > Cardinality(RoundsOf(Wifi))
             /\ Cardinality(EarningRounds(finding)) >= MinimumSamples
  <2> DEFINE e == Cardinality(EarningRounds(finding))
             n == Cardinality(RoundsOf(Wifi))
             r == HealthyRate - FailedRate
  <2>1. e \in Nat /\ n \in Nat /\ 100 * e >= r * n /\ n >= MinimumSamples
    BY <1>1, FindingsEarned, Rounds DEF OutagesEarnTheirShare, EarnsShare, Earns, IsSampled, WindowInv
  <2>2. r \in Nat /\ MinimumSamples \in Nat /\ MinimumSamples > 0
    BY RulesAssumption
  <2>3. 2 * r > 100 /\ r * MinimumSamples > 100 * (MinimumSamples - 1)
    BY DEF DecisiveThresholds
  <2> HIDE DEF e, n, r
  <2>4. r * n >= r * MinimumSamples
    <3>1. \A a, b, c \in Nat : a >= b => c * a >= c * b
      OBVIOUS
    <3>2. QED
      BY <2>1, <2>2, <3>1
  <2>5. 2 * (r * n) > 100 * n
    <3>1. \A a, b \in Nat : 2 * a > 100 /\ b > 0 => 2 * (a * b) > 100 * b
      OBVIOUS
    <3>2. QED
      BY <2>1, <2>2, <2>3, <3>1
  <2>6. 2 * e > n
    BY <2>1, <2>2, <2>5
  <2>7. e >= MinimumSamples
    <3>1. r * n \in Nat /\ r * MinimumSamples \in Nat
      BY <2>1, <2>2
    <3>2. 100 * e > 100 * (MinimumSamples - 1)
      BY <2>1, <2>2, <2>3, <2>4, <3>1
    <3>3. QED
      BY <2>1, <2>2, <3>2
  <2>8. QED
    BY <2>6, <2>7 DEF e, n
<1>2. WindowInv => OutageIsEarned
  BY <1>1 DEF OutageIsEarned, EarningRounds, Outages
<1>3. QED
  BY <1>2, WindowInvariant, PTL

-----------------------------------------------------------------------------
(* Sums and peaks of a window                                              *)

\* The sum over rounds is the sum of a function of the rounds, which the lemmas
\* about sums speak of.
LEMMA LossSum ==
  ASSUME window \in Seq(AllScenarios), NEW a, NEW type
  PROVE  SumOver(a, LAMBDA s : Loss(type, s, a)) =
           SumOf([i \in RoundsOf(a) |-> Loss(type, window[i], a)], RoundsOf(a))
<1> DEFINE R == RoundsOf(a)
           w == [i \in R |-> Loss(type, window[i], a)]
           Solves(g) == g = [s \in SUBSET R |->
                               IF s = {} THEN 0
                               ELSE Loss(type, window[Any(s)], a) + g[s \ {Any(s)}]]
           f == CHOOSE g : Solves(g)
<1>1. \A s \in SUBSET R : s # {} => w[Any(s)] = Loss(type, window[Any(s)], a)
  BY DEF Any
<1>2. \A g : Solves(g) <=> Sums(w, SUBSET R, g)
  BY <1>1 DEF Sums
<1>3. Solves(f)
  <2>1. \E g : Solves(g)
    BY <1>2, Rounds, SumsExist
  <2> HIDE DEF Solves
  <2>2. QED
    BY <2>1
<1>4. SumOver(a, LAMBDA s : Loss(type, s, a)) = f[R]
  BY DEF SumOver, MapThenSumSet, MapThenFoldSet, Any
<1> HIDE DEF f, w, Solves, R
<1>5. f[R] = SumOf(w, R)
  <2>1. AddsUp(w, R, f)
    BY <1>2, <1>3, SumsAddUp
  <2>2. IsFiniteSet(R)
    BY Rounds DEF R
  <2>3. QED
    BY <2>1, <2>2, SumIsUnique
<1>6. QED
  BY <1>4, <1>5 DEF w, R

LEMMA MaxOfTwo ==
  ASSUME NEW x \in Nat
  PROVE  Max({0} \union {x}) = x
<1>1. x \in {0} \union {x} /\ \A y \in {0} \union {x} : x >= y
  OBVIOUS
<1>2. \A z \in {0} \union {x} : (\A y \in {0} \union {x} : z >= y) => z = x
  OBVIOUS
<1>3. QED
  BY <1>1, <1>2 DEF Max

-----------------------------------------------------------------------------
(* A window of one scenario                                                *)

Steady(s) ==
  /\ s \in AllScenarios
  /\ Len(window) = Lookback
  /\ \A i \in DOMAIN window : window[i] = s

\* An agent that reports has all rounds, any other has none and is not sampled.
LEMMA SteadyRounds ==
  ASSUME WindowInv, NEW s, Steady(s), NEW a
  PROVE  /\ a \in Reporting(s) =>
              /\ RoundsOf(a) = DOMAIN window
              /\ Cardinality(RoundsOf(a)) = Lookback
              /\ \E i \in RoundsOf(a) : TRUE
         /\ a \notin Reporting(s) => RoundsOf(a) = {}
         /\ IsSampled(a) <=> a \in Reporting(s)
<1>1. /\ Lookback \in Nat /\ MinimumSamples \in Nat
      /\ 1 <= MinimumSamples /\ MinimumSamples <= Lookback
  BY SymptomsAssumption, RulesAssumption
<1>2. DOMAIN window = 1..Lookback
  BY DEF Steady, WindowInv
<1>3. Cardinality(1..Lookback) = Lookback
  BY <1>1, FS_Interval
<1>4. ASSUME a \in Reporting(s)
      PROVE  /\ RoundsOf(a) = DOMAIN window
             /\ Cardinality(RoundsOf(a)) = Lookback
             /\ IsSampled(a)
  <2>1. RoundsOf(a) = DOMAIN window
    BY <1>4 DEF RoundsOf, Steady
  <2>2. Cardinality(RoundsOf(a)) = Lookback
    BY <1>2, <1>3, <2>1
  <2>3. QED
    BY <1>1, <2>1, <2>2 DEF IsSampled
<1>5. ASSUME a \notin Reporting(s)
      PROVE  RoundsOf(a) = {} /\ ~IsSampled(a)
  <2>1. RoundsOf(a) = {}
    BY <1>5 DEF RoundsOf, Steady
  <2>2. Cardinality(RoundsOf(a)) = 0
    BY <2>1, FS_EmptySet
  <2>3. QED
    BY <1>1, <2>1, <2>2 DEF IsSampled
<1>6. 1 \in 1..Lookback
  BY <1>1
<1>7. QED
  BY <1>2, <1>4, <1>5, <1>6

LEMMA SteadyCount ==
  ASSUME WindowInv, NEW s, Steady(s), NEW a \in Reporting(s), NEW type
  PROVE  Count(a, type) = IF Succeeds(type, s, a) THEN Lookback ELSE 0
<1>1. \A i \in RoundsOf(a) : window[i] = s
  BY SteadyRounds DEF Steady
<1>2. CASE Succeeds(type, s, a)
  <2>1. Successes(a, type) = RoundsOf(a)
    BY <1>1, <1>2 DEF Successes
  <2>2. QED
    BY <1>2, <2>1, Counts, SteadyRounds DEF WindowInv
<1>3. CASE ~Succeeds(type, s, a)
  <2>1. Successes(a, type) = {}
    BY <1>1, <1>3 DEF Successes
  <2>2. QED
    BY <1>3, <2>1, Counts, FS_EmptySet DEF WindowInv
<1>4. QED
  BY <1>2, <1>3

LEMMA DataTyped ==
  ASSUME NEW type, NEW s, NEW a
  PROVE  /\ Latency(type, s, a) \in Nat
         /\ Loss(type, s, a) \in Nat
         /\ SignalOf(type, s) \in 0..120
  BY DEF Latency, RouterLatency, ExternalLatency, Loss, PacketLoss, SignalOf, Signal

LEMMA LatencyBound ==
  ASSUME NEW type, NEW s, NEW a
  PROVE  Latency(type, s, a) \in 0..240
  BY DEF Latency, RouterLatency, ExternalLatency

\* The peak, sum and signal of equal rounds.
LEMMA SteadyRow ==
  ASSUME WindowInv, NEW s, Steady(s), NEW a \in Reporting(s), NEW type
  PROVE  /\ Measurement(a, type).peak = Latency(type, s, a)
         /\ Measurement(a, type).loss = Loss(type, s, a) * Lookback
         /\ Measurement(a, type).signal = SignalOf(type, s)
<1>1. (\A i \in RoundsOf(a) : window[i] = s) /\ \E i \in RoundsOf(a) : TRUE
  BY SteadyRounds DEF Steady
<1>2. Measurement(a, type).peak = Latency(type, s, a)
  <2>1. {Latency(type, window[i], a) : i \in RoundsOf(a)} = {Latency(type, s, a)}
    BY <1>1
  <2>2. Max({0} \union {Latency(type, window[i], a) : i \in RoundsOf(a)}) = Latency(type, s, a)
    BY <2>1, DataTyped, MaxOfTwo
  <2>3. QED
    BY <2>2 DEF Measurement
<1>3. Measurement(a, type).signal = SignalOf(type, s)
  <2>1. {SignalOf(type, window[i]) : i \in RoundsOf(a)} = {SignalOf(type, s)}
    BY <1>1
  <2>2. Max({0} \union {SignalOf(type, window[i]) : i \in RoundsOf(a)}) = SignalOf(type, s)
    BY <2>1, DataTyped, MaxOfTwo
  <2>3. QED
    BY <2>2 DEF Measurement
<1>4. Measurement(a, type).loss = Loss(type, s, a) * Lookback
  <2> DEFINE w == [i \in RoundsOf(a) |-> Loss(type, window[i], a)]
  <2>1. Measurement(a, type).loss = SumOver(a, LAMBDA z : Loss(type, z, a))
    BY DEF Measurement
  <2>2. Measurement(a, type).loss = SumOf(w, RoundsOf(a))
    BY <2>1, LossSum DEF WindowInv
  <2>3. \A i \in RoundsOf(a) : w[i] = Loss(type, s, a)
    BY <1>1
  <2>4. IsFiniteSet(RoundsOf(a)) /\ Loss(type, s, a) \in Nat
    <3>1. IsFiniteSet(RoundsOf(a))
      BY Rounds DEF WindowInv
    <3>2. QED
      BY <3>1, DataTyped
  <2> HIDE DEF w
  <2>5. SumOf(w, RoundsOf(a)) = Loss(type, s, a) * Cardinality(RoundsOf(a))
    BY <2>3, <2>4, SumConstant
  <2>6. QED
    BY <2>2, <2>5, SteadyRounds
<1>5. QED
  BY <1>2, <1>3, <1>4

-----------------------------------------------------------------------------
(* What the rules make of it                                               *)

LEMMA Products ==
  ASSUME NEW n \in Nat \ {0}, NEW x \in Nat, NEW y \in Nat
  PROVE  /\ x * n <= y * n <=> x <= y
         /\ x * n \in Nat
<1>1. x <= y => x * n <= y * n
  OBVIOUS
<1>2. ASSUME ~(x <= y)
      PROVE  ~(x * n <= y * n)
  <2>1. PICK d \in Nat \ {0} : x = y + d
    <3>1. x - y \in Nat \ {0} /\ x = y + (x - y)
      BY <1>2
    <3>2. QED
      BY <3>1
  <2>2. x * n = y * n + d * n
    BY <2>1
  <2>3. d * n > 0 /\ y * n \in Nat
    BY <2>1
  <2>4. QED
    BY <2>2, <2>3
<1>3. QED
  BY <1>1, <1>2

\* Whatever the rates are, all rounds are healthy and no round is failed, and a
\* percentage is that of each round.
LEMMA SteadyVerdicts ==
  ASSUME WindowInv, NEW s, Steady(s), NEW a \in Reporting(s), NEW type
  PROVE  LET row == Measurement(a, type) IN
         /\ Healthy(row) <=> Succeeds(type, s, a)
         /\ Failed(row) <=> ~Succeeds(type, s, a)
         /\ 100 * row.connected <= FailedRate * row.count <=> ~Succeeds("wifi_diagnostics", s, a)
         /\ Slow(row) <=> Latency(type, s, a) >= HighLatency
         /\ Lossy(row) <=> Loss(type, s, a) >= HighLoss
<1> DEFINE row == Measurement(a, type)
<1>1. /\ Lookback \in Nat \ {0} /\ HealthyRate \in 0..100 /\ FailedRate \in 0..100
      /\ FailedRate < HealthyRate /\ HighLoss \in Nat
  BY SymptomsAssumption, RulesAssumption
<1>2. /\ row.count = Lookback
      /\ row.succeeded = IF Succeeds(type, s, a) THEN Lookback ELSE 0
      /\ row.connected = IF Succeeds("wifi_diagnostics", s, a) THEN Lookback ELSE 0
      /\ row.peak = Latency(type, s, a)
      /\ row.loss = Loss(type, s, a) * Lookback
  BY MeasurementRow, SteadyRounds, SteadyCount, SteadyRow
<1> HIDE DEF row
<1>3. /\ 100 * Lookback >= HealthyRate * Lookback
      /\ ~(100 * 0 >= HealthyRate * Lookback)
      /\ 100 * 0 <= FailedRate * Lookback
      /\ ~(100 * Lookback <= FailedRate * Lookback)
  <2>1. HealthyRate * Lookback <= 100 * Lookback
    BY <1>1, Products
  <2>2. ~(100 * Lookback <= FailedRate * Lookback) /\ FailedRate * Lookback \in Nat
    BY <1>1, Products
  <2>3. ~(HealthyRate * Lookback <= 0 * Lookback) /\ HealthyRate * Lookback \in Nat
    BY <1>1, Products
  <2>4. QED
    BY <1>1, <2>1, <2>2, <2>3
<1>4. Healthy(row) <=> Succeeds(type, s, a)
  BY <1>2, <1>3 DEF Healthy
<1>5. Failed(row) <=> ~Succeeds(type, s, a)
  BY <1>2, <1>3 DEF Failed
<1>6. 100 * row.connected <= FailedRate * row.count <=> ~Succeeds("wifi_diagnostics", s, a)
  BY <1>2, <1>3
<1>7. Lossy(row) <=> Loss(type, s, a) >= HighLoss
  <2>1. HighLoss * Lookback <= Loss(type, s, a) * Lookback <=> HighLoss <= Loss(type, s, a)
    BY <1>1, DataTyped, Products
  <2>2. /\ HighLoss * Lookback \in Nat /\ Loss(type, s, a) * Lookback \in Nat
        /\ Loss(type, s, a) \in Nat
    BY <1>1, DataTyped, Products
  <2>3. QED
    BY <1>1, <1>2, <2>1, <2>2 DEF Lossy
<1>8. Slow(row) <=> Latency(type, s, a) >= HighLatency
  BY <1>2 DEF Slow
<1>9. QED
  BY <1>4, <1>5, <1>6, <1>7, <1>8 DEF row

\* A check of an agent that reports has one row, any other has none.
LEMMA SteadyRows ==
  ASSUME WindowInv, NEW s, Steady(s), NEW a, NEW type, Runs(a, type)
  PROVE  \A row : row \in Of(Sampled(Measurements), a, type) <=>
                    a \in Reporting(s) /\ row = Measurement(a, type)
  BY SampledRow, SteadyRounds

LEMMA SteadyHealthy ==
  ASSUME WindowInv, NEW s, Steady(s), NEW a, NEW type, Runs(a, type)
  PROVE  /\ AllHealthy(Of(Sampled(Measurements), a, type))
              <=> a \in Reporting(s) /\ Succeeds(type, s, a)
         /\ AllFailed(Of(Sampled(Measurements), a, type))
              <=> a \in Reporting(s) /\ ~Succeeds(type, s, a)
<1> DEFINE rows == Of(Sampled(Measurements), a, type)
<1>1. \A row : row \in rows <=> a \in Reporting(s) /\ row = Measurement(a, type)
  BY SteadyRows
<1> HIDE DEF rows
<1>2. a \in Reporting(s) =>
        /\ Healthy(Measurement(a, type)) <=> Succeeds(type, s, a)
        /\ Failed(Measurement(a, type)) <=> ~Succeeds(type, s, a)
  BY SteadyVerdicts
<1>3. AllHealthy(rows) <=> a \in Reporting(s) /\ Succeeds(type, s, a)
  BY <1>1, <1>2 DEF AllHealthy
<1>4. AllFailed(rows) <=> a \in Reporting(s) /\ ~Succeeds(type, s, a)
  BY <1>1, <1>2 DEF AllFailed
<1>5. QED
  BY <1>3, <1>4 DEF rows

LEMMA SteadyDisconnected ==
  ASSUME WindowInv, NEW s, Steady(s)
  PROVE  WifiDisconnected(Of(Sampled(Measurements), Wifi, "wifi_diagnostics"))
           <=> Wifi \in Reporting(s) /\ ~Connected(s)
<1> DEFINE rows == Of(Sampled(Measurements), Wifi, "wifi_diagnostics")
           only == Measurement(Wifi, "wifi_diagnostics")
<1>1. \A row : row \in rows <=> Wifi \in Reporting(s) /\ row = only
  <2>1. Runs(Wifi, "wifi_diagnostics")
    BY DEF Runs, MeasurementTypes
  <2>2. QED
    BY <2>1, SteadyRows
<1> HIDE DEF rows
<1>2. Wifi \in Reporting(s) =>
        (100 * only.connected <= FailedRate * only.count <=> ~Succeeds("wifi_diagnostics", s, Wifi))
  BY SteadyVerdicts
<1>3. Succeeds("wifi_diagnostics", s, Wifi) <=> Connected(s)
  BY DEF Succeeds
<1> HIDE DEF only
<1>4. QED
  BY <1>1, <1>2, <1>3 DEF WifiDisconnected, rows

\* The thresholds that tell the scenarios' latencies, losses and signals apart:
\* 26 and 240 ms (of which half the threshold is reached by 145 ms), 0 and 35%,
\* -57 and -84 dBm.  The defaults, 150 ms, 20% and -78 dBm, are such.
DistinctThresholds ==
  /\ 26 < HighLatency /\ HighLatency <= 240
  /\ 0 < HighLoss /\ HighLoss <= 35
  /\ 57 < WeakSignal /\ WeakSignal <= 84

BothReport(s) == Reporting(s) = {Wired, Wifi}

\* Rule by rule, the scenarios whose checks meet it.
LEMMA SteadyChecks ==
  ASSUME WindowInv, NEW s, Steady(s)
  PROVE  LET m == Sampled(Measurements) IN
         /\ RouterUnavailable(m) <=> s = "router-outage"
         /\ WifiOutage(m) <=> s = "wifi-outage"
         /\ IspOutage(m) <=> s = "isp-outage"
         /\ RoutersHealthy(m) /\ ExternalHealthy(m) <=>
              s \in {"healthy", "wifi-degradation", "dns-outage", "external-service-failure",
                     "high-latency", "packet-loss"}
<1> DEFINE m == Sampled(Measurements)
           Passes(a, type) == a \in Reporting(s) /\ Succeeds(type, s, a)
           Fails(a, type) == a \in Reporting(s) /\ ~Succeeds(type, s, a)
<1>1. \A a \in {Wired, Wifi}, type \in {"router_ping", "external_ping"} :
        /\ AllHealthy(Of(m, a, type)) <=> Passes(a, type)
        /\ AllFailed(Of(m, a, type)) <=> Fails(a, type)
  BY SteadyHealthy DEF Runs, MeasurementTypes
<1>2. WifiDisconnected(Of(m, Wifi, "wifi_diagnostics")) <=> Wifi \in Reporting(s) /\ ~Connected(s)
  BY SteadyDisconnected
<1> HIDE DEF m
<1>3. /\ Passes(Wired, "router_ping") <=> s \notin {"silence", "router-outage"}
      /\ Fails(Wired, "router_ping") <=> s = "router-outage"
      /\ Passes(Wired, "external_ping") <=> s \notin {"silence", "router-outage", "isp-outage"}
      /\ Fails(Wired, "external_ping") <=> s \in {"router-outage", "isp-outage"}
  BY RulesAssumption DEF Reporting, Succeeds, RouterAnswers, ExternalAnswers
<1>4. /\ Passes(Wifi, "router_ping") <=>
           s \notin {"silence", "agent-shutdown", "late-events", "router-outage", "wifi-outage"}
      /\ Fails(Wifi, "router_ping") <=> s \in {"router-outage", "wifi-outage"}
      /\ Passes(Wifi, "external_ping") <=>
           s \notin {"silence", "agent-shutdown", "late-events", "router-outage",
                     "wifi-outage", "isp-outage"}
      /\ Fails(Wifi, "external_ping") <=> s \in {"router-outage", "wifi-outage", "isp-outage"}
      /\ Wifi \in Reporting(s) /\ ~Connected(s) <=> s = "wifi-outage"
  BY RulesAssumption DEF Reporting, Succeeds, RouterAnswers, ExternalAnswers, Connected
<1>5. s \in AllScenarios
  BY DEF Steady
<1> HIDE DEF Passes, Fails
<1>6. RouterUnavailable(m) <=> s = "router-outage"
  BY <1>1, <1>3, <1>4 DEF RouterUnavailable
<1>7. WifiOutage(m) <=> s = "wifi-outage"
  BY <1>1, <1>2, <1>3, <1>4 DEF WifiOutage, WiredHealthy
<1>8. IspOutage(m) <=> s = "isp-outage"
  BY <1>1, <1>3, <1>4 DEF IspOutage, RoutersHealthy
<1>9. RoutersHealthy(m) /\ ExternalHealthy(m) <=>
        s \in {"healthy", "wifi-degradation", "dns-outage", "external-service-failure",
               "high-latency", "packet-loss"}
  BY <1>1, <1>3, <1>4, <1>5 DEF RoutersHealthy, ExternalHealthy, AllScenarios
<1>10. QED
  BY <1>6, <1>7, <1>8, <1>9 DEF m

\* A weak signal tells a degraded Wi-Fi agent from a slow or lossy network.
LEMMA SteadyDegradation ==
  ASSUME DistinctThresholds, WindowInv, NEW s, Steady(s)
  PROVE  WifiDegradation(Sampled(Measurements)) <=> s = "wifi-degradation"
<1> DEFINE m == Sampled(Measurements)
<1>1. \A type \in MeasurementTypes : \A row :
        row \in Of(m, Wifi, type) <=> Wifi \in Reporting(s) /\ row = Measurement(Wifi, type)
  BY SteadyRows DEF Runs
<1> HIDE DEF m
<1>2. ASSUME WifiDegradation(m)
      PROVE  s = "wifi-degradation"
  <2>1. PICK row \in Of(m, Wifi, "wifi_diagnostics") : row.signal # 0 /\ row.signal >= WeakSignal
    BY <1>2 DEF WifiDegradation, WifiDegraded
  <2>2. Wifi \in Reporting(s) /\ row = Measurement(Wifi, "wifi_diagnostics")
    BY <1>1, <2>1 DEF MeasurementTypes
  <2>3. row.signal = SignalOf("wifi_diagnostics", s)
    BY <2>2, SteadyRow
  <2>4. SignalOf("wifi_diagnostics", s) # 0 /\ SignalOf("wifi_diagnostics", s) >= WeakSignal
    BY <2>1, <2>3
  <2>5. 57 < WeakSignal /\ WeakSignal \in Nat
    BY RulesAssumption DEF DistinctThresholds
  <2>6. QED
    BY <2>4, <2>5 DEF SignalOf, Signal
<1>3. ASSUME s = "wifi-degradation"
      PROVE  WifiDegradation(m)
  <2>1. Wired \in Reporting(s) /\ Wifi \in Reporting(s)
    BY <1>3 DEF Reporting
  <2>2. WiredHealthy(m)
    <3>1. Succeeds("router_ping", s, Wired) /\ Succeeds("external_ping", s, Wired)
      BY <1>3 DEF Succeeds, RouterAnswers, ExternalAnswers
    <3>2. Runs(Wired, "router_ping") /\ Runs(Wired, "external_ping")
      BY DEF Runs, MeasurementTypes
    <3>3. QED
      BY <2>1, <3>1, <3>2, SteadyHealthy DEF WiredHealthy, m
  <2>3. \A type \in MeasurementTypes : Measurement(Wifi, type) \in Of(m, Wifi, type)
    BY <1>1, <2>1
  <2>4. Measurement(Wifi, "external_ping").peak = 145
    <3>1. Latency("external_ping", s, Wifi) = 145
      BY <1>3 DEF Latency, Succeeds, RouterAnswers, ExternalAnswers, ExternalLatency, Degraded
    <3>2. QED
      BY <2>1, <3>1, SteadyRow
  <2>5. Measurement(Wifi, "wifi_diagnostics").signal = 84
    <3>1. SignalOf("wifi_diagnostics", s) = 84
      BY <1>3 DEF SignalOf, Signal, Connected
    <3>2. QED
      BY <2>1, <3>1, SteadyRow
  <2>6. HighLatency \in Nat /\ HighLatency <= 240 /\ WeakSignal \in Nat /\ WeakSignal <= 84
    BY RulesAssumption DEF DistinctThresholds
  <2>7. 2 * Measurement(Wifi, "external_ping").peak >= HighLatency
    BY <2>4, <2>6
  <2>8. /\ Measurement(Wifi, "wifi_diagnostics").signal # 0
        /\ Measurement(Wifi, "wifi_diagnostics").signal >= WeakSignal
    BY <2>5, <2>6
  <2>9. QED
    BY <2>2, <2>3, <2>7, <2>8 DEF WifiDegradation, WifiDegraded, MeasurementTypes
<1>4. QED
  BY <1>2, <1>3 DEF m

LEMMA SteadyServiceRows ==
  ASSUME WindowInv, NEW s, Steady(s), NEW type \in {"dns", "http"}, BothReport(s)
  PROVE  /\ \A row : row \in ServiceRowsOf(type)
                       <=> row = ServiceRow(Wired, type) \/ row = ServiceRow(Wifi, type)
         /\ \A a \in {Wired, Wifi} :
              /\ ServiceRow(a, type).role = a
              /\ Healthy(ServiceRow(a, type)) <=> Succeeds(type, s, a)
              /\ Failed(ServiceRow(a, type)) <=> ~Succeeds(type, s, a)
<1>1. \A a \in {Wired, Wifi} : a \in Reporting(s)
  BY DEF BothReport
<1>2. \A row : row \in ServiceRowsOf(type)
                 <=> row = ServiceRow(Wired, type) \/ row = ServiceRow(Wifi, type)
  BY <1>1, SampledService, SteadyRounds
<1>3. ASSUME NEW a \in {Wired, Wifi}
      PROVE  /\ ServiceRow(a, type).role = a
             /\ Healthy(ServiceRow(a, type)) <=> Succeeds(type, s, a)
             /\ Failed(ServiceRow(a, type)) <=> ~Succeeds(type, s, a)
  <2>1. /\ ServiceRow(a, type).role = a
        /\ ServiceRow(a, type).count = Measurement(a, type).count
        /\ ServiceRow(a, type).succeeded = Measurement(a, type).succeeded
    BY MeasurementRow DEF ServiceRow
  <2>2. /\ Healthy(ServiceRow(a, type)) <=> Healthy(Measurement(a, type))
        /\ Failed(ServiceRow(a, type)) <=> Failed(Measurement(a, type))
    BY <2>1 DEF Healthy, Failed
  <2>3. /\ Healthy(Measurement(a, type)) <=> Succeeds(type, s, a)
        /\ Failed(Measurement(a, type)) <=> ~Succeeds(type, s, a)
    BY <1>1, SteadyVerdicts
  <2>4. QED
    BY <2>1, <2>2, <2>3
<1>4. QED
  BY <1>2, <1>3

\* The scenarios whose outage or failure has a rule of its own.
SpecificScenarios ==
  {"wifi-degradation", "wifi-outage", "router-outage", "isp-outage", "dns-outage",
   "external-service-failure"}

LEMMA SteadyServices ==
  ASSUME WindowInv, NEW s, Steady(s), BothReport(s),
         s \in {"healthy", "dns-outage", "external-service-failure", "high-latency",
                "packet-loss"}
  PROVE  ServiceFindings(Sampled(ServiceChecks)) =
           IF s \in SpecificScenarios THEN Expected(s) ELSE {}
<1> DEFINE dns == ServiceRowsOf("dns")
           http == ServiceRowsOf("http")
           failing == {row \in http : Failed(row)}
           unresolved == {row \in dns : Failed(row)}
<1>1. ServiceFindings(Sampled(ServiceChecks)) =
        CASE CoversBothAgents(unresolved) -> {ServiceFinding("dns_failure", dns)}
          [] /\ AllHealthy(dns)
             /\ failing # {}
             /\ \/ \E row \in http : Healthy(row)
                \/ Cardinality({row.endpoint : row \in http}) = 1
               -> {ServiceFinding("external_service_failure", failing)}
          [] OTHER -> {}
  BY DEF ServiceFindings, ServiceRowsOf
<1>2. \A a \in {Wired, Wifi} :
        /\ Succeeds("dns", s, a) <=> s # "dns-outage"
        /\ Succeeds("http", s, a) <=> s \notin {"dns-outage", "external-service-failure"}
  BY DEF Succeeds, RouterAnswers, ExternalAnswers, DnsAnswers, HttpAnswers
<1>3. \A row : row \in dns <=> row = ServiceRow(Wired, "dns") \/ row = ServiceRow(Wifi, "dns")
  BY SteadyServiceRows
<1>4. \A row : row \in http <=> row = ServiceRow(Wired, "http") \/ row = ServiceRow(Wifi, "http")
  BY SteadyServiceRows
<1>5. \A row \in dns : /\ Failed(row) <=> s = "dns-outage"
                       /\ Healthy(row) <=> s # "dns-outage"
  BY <1>2, <1>3, SteadyServiceRows
<1>6. \A row \in http : Failed(row) <=> s \in {"dns-outage", "external-service-failure"}
  BY <1>2, <1>4, SteadyServiceRows
<1>7. CASE s = "dns-outage"
  <2>1. unresolved = dns
    BY <1>5, <1>7
  <2>2. CoversBothAgents(unresolved)
    <3>1. ServiceRow(Wired, "dns").role = Wired /\ ServiceRow(Wifi, "dns").role = Wifi
      BY DEF ServiceRow
    <3> HIDE DEF dns, unresolved
    <3>2. QED
      BY <1>3, <2>1, <3>1 DEF CoversBothAgents
  <2>3. ServiceFinding("dns_failure", dns) = <<"dns_failure", {"dns-check"}>>
    <3>1. dns # {}
      BY <1>3
    <3>2. {row.endpoint : row \in dns} = {EndpointOf("dns")}
      BY <3>1, ServiceEndpoints
    <3>3. EndpointOf("dns") = "dns-check"
      BY DEF EndpointOf
    <3>4. QED
      BY <3>2, <3>3 DEF ServiceFinding
  <2>4. ~AllHealthy(dns)
    BY <1>3, <1>5, <1>7 DEF AllHealthy
  <2> HIDE DEF dns, unresolved
  <2>5. QED
    BY <1>1, <1>7, <2>2, <2>3, <2>4 DEF Expected, SpecificScenarios
<1>8. CASE s = "external-service-failure"
  <2>1. unresolved = {}
    BY <1>5, <1>8
  <2>2. ~CoversBothAgents(unresolved)
    BY <2>1 DEF CoversBothAgents
  <2>3. AllHealthy(dns)
    BY <1>3, <1>5, <1>8 DEF AllHealthy
  <2>4. failing = http /\ http # {}
    BY <1>4, <1>6, <1>8
  <2>5. {row.endpoint : row \in http} = {EndpointOf("http")}
    BY <2>4, ServiceEndpoints
  <2>6. Cardinality({row.endpoint : row \in http}) = 1
    BY <2>5, FS_Singleton, Zenon
  <2>7. EndpointOf("http") = "example-service"
    BY DEF EndpointOf
  <2>8. ServiceFinding("external_service_failure", failing)
          = <<"external_service_failure", {"example-service"}>>
    BY <2>4, <2>5, <2>7 DEF ServiceFinding
  <2> HIDE DEF dns, unresolved, http, failing
  <2>9. QED
    BY <1>1, <1>8, <2>2, <2>3, <2>4, <2>6, <2>8 DEF Expected, SpecificScenarios
<1>9. CASE s \in {"healthy", "high-latency", "packet-loss"}
  <2>1. unresolved = {} /\ failing = {}
    BY <1>5, <1>6, <1>9
  <2>2. ~CoversBothAgents(unresolved)
    BY <2>1 DEF CoversBothAgents
  <2> HIDE DEF dns, unresolved, http, failing
  <2>3. QED
    BY <1>1, <1>9, <2>1, <2>2 DEF SpecificScenarios
<1>10. QED
  BY <1>7, <1>8, <1>9

\* The first rule that applies is that of the scenario.
LEMMA SteadySpecific ==
  ASSUME DistinctThresholds, WindowInv, NEW s, Steady(s)
  PROVE  Specific(Sampled(Measurements), Sampled(ServiceChecks)) =
           IF s \in SpecificScenarios THEN Expected(s) ELSE {}
<1> DEFINE m == Sampled(Measurements)  c == Sampled(ServiceChecks)
<1>1. /\ RouterUnavailable(m) <=> s = "router-outage"
      /\ WifiOutage(m) <=> s = "wifi-outage"
      /\ IspOutage(m) <=> s = "isp-outage"
      /\ RoutersHealthy(m) /\ ExternalHealthy(m) <=>
           s \in {"healthy", "wifi-degradation", "dns-outage", "external-service-failure",
                  "high-latency", "packet-loss"}
  BY SteadyChecks
<1>2. WifiDegradation(m) <=> s = "wifi-degradation"
  BY SteadyDegradation
<1>3. s \in {"healthy", "dns-outage", "external-service-failure", "high-latency", "packet-loss"}
        => ServiceFindings(c) = IF s \in SpecificScenarios THEN Expected(s) ELSE {}
  <2>1. s \in {"healthy", "dns-outage", "external-service-failure", "high-latency",
               "packet-loss"} => BothReport(s)
    BY DEF BothReport, Reporting
  <2>2. QED
    BY <2>1, SteadyServices
<1>4. s \in AllScenarios
  BY DEF Steady
<1>5. CASE s = "router-outage"
  BY <1>1, <1>5 DEF Specific, Expected, SpecificScenarios
<1>6. CASE s = "wifi-outage"
  BY <1>1, <1>6 DEF Specific, Expected, SpecificScenarios
<1>7. CASE s = "isp-outage"
  BY <1>1, <1>7 DEF Specific, Expected, SpecificScenarios
<1>8. CASE s = "wifi-degradation"
  BY <1>1, <1>2, <1>8 DEF Specific, Expected, SpecificScenarios
<1>9. CASE s \in {"healthy", "dns-outage", "external-service-failure", "high-latency", "packet-loss"}
  <2>1. Specific(m, c) = ServiceFindings(c)
    BY <1>1, <1>2, <1>9 DEF Specific
  <2>2. QED
    BY <1>3, <1>9, <2>1
<1>10. CASE s \in {"agent-shutdown", "late-events", "silence"}
  BY <1>1, <1>2, <1>10 DEF Specific, SpecificScenarios
<1>11. QED
  BY <1>4, <1>5, <1>6, <1>7, <1>8, <1>9, <1>10 DEF AllScenarios, m, c

\* Rounds without a specific outage: what is left are the general symptoms.
LEMMA SteadyGeneral ==
  ASSUME DistinctThresholds, WindowInv, NEW s, Steady(s), s \notin SpecificScenarios
  PROVE  General(Sampled(Measurements)) =
           IF s \in {"high-latency", "packet-loss"} THEN Expected(s) ELSE {}
<1> DEFINE m == Sampled(Measurements)
           pings == {row \in m : row.type # "wifi_diagnostics"}
           lossy == {row \in pings : Lossy(row)}
           slow == {row \in m : Slow(row)}
<1>1. \A row : row \in m <=>
        \E a \in {Wired, Wifi}, type \in MeasurementTypes :
          Runs(a, type) /\ a \in Reporting(s) /\ row = Measurement(a, type)
  <2>1. \A a, type : Measurement(a, type).count >= MinimumSamples <=> a \in Reporting(s)
    BY MeasurementRow, SteadyRounds DEF IsSampled
  <2>2. QED
    BY <2>1, MeasurementRows DEF Sampled
<1>2. /\ 26 < HighLatency /\ HighLatency <= 240 /\ 0 < HighLoss /\ HighLoss <= 35
      /\ HighLatency \in Nat /\ HighLoss \in Nat
  BY RulesAssumption DEF DistinctThresholds
<1>3. s \in {"healthy", "high-latency", "packet-loss", "agent-shutdown", "late-events", "silence"}
  BY DEF Steady, AllScenarios, SpecificScenarios
<1>4. ASSUME NEW a \in Reporting(s), NEW type \in MeasurementTypes
      PROVE  /\ Succeeds(type, s, a)
             /\ Latency(type, s, a) =
                  IF type = "wifi_diagnostics" THEN 0
                  ELSE IF type = "router_ping" THEN 6
                  ELSE IF s = "high-latency" THEN 240 ELSE 26
             /\ Loss(type, s, a) =
                  IF type # "wifi_diagnostics" /\ s = "packet-loss" THEN 35 ELSE 0
  <2>1. Succeeds(type, s, a)
    BY <1>3 DEF Succeeds, MeasurementTypes, RouterAnswers, ExternalAnswers, Connected
  <2>2. QED
    BY <1>3, <2>1 DEF Latency, Loss, RouterLatency, ExternalLatency, PacketLoss, Degraded
<1>5. ASSUME NEW a \in Reporting(s), NEW type \in MeasurementTypes
      PROVE  /\ ~Failed(Measurement(a, type))
             /\ Slow(Measurement(a, type)) <=> type = "external_ping" /\ s = "high-latency"
             /\ Lossy(Measurement(a, type)) <=> type # "wifi_diagnostics" /\ s = "packet-loss"
  <2>1. /\ Failed(Measurement(a, type)) <=> ~Succeeds(type, s, a)
        /\ Slow(Measurement(a, type)) <=> Latency(type, s, a) >= HighLatency
        /\ Lossy(Measurement(a, type)) <=> Loss(type, s, a) >= HighLoss
    BY SteadyVerdicts
  <2>2. QED
    BY <1>2, <1>4, <2>1 DEF MeasurementTypes
<1>6. \A a, type : Measurement(a, type).role = a /\ Measurement(a, type).type = type
  BY MeasurementRow
<1>7. \A row : row \in pings <=>
        \E a \in {Wired, Wifi}, type \in {"router_ping", "external_ping"} :
          a \in Reporting(s) /\ row = Measurement(a, type)
  <2> HIDE DEF m
  <2>1. QED
    BY <1>1, <1>6 DEF Runs, MeasurementTypes
<1>8. \A row \in pings : /\ ~Failed(row)
                         /\ Lossy(row) <=> s = "packet-loss"
  <2> HIDE DEF m, pings
  <2>1. QED
    BY <1>5, <1>7 DEF MeasurementTypes
<1> HIDE DEF m
<1>9. CASE s = "packet-loss"
  <2>1. lossy = pings
    BY <1>8, <1>9
  <2>2. Wired \in Reporting(s) /\ Wifi \in Reporting(s)
    BY <1>9 DEF Reporting
  <2> HIDE DEF pings, lossy
  <2>3. CoversBothAgents(lossy)
    <3>1. \A row \in lossy : row.role \in {Wired, Wifi}
      BY <1>6, <1>7, <2>1
    <3>2. /\ Measurement(Wired, "router_ping") \in lossy
          /\ Measurement(Wired, "router_ping").role = Wired
          /\ Measurement(Wifi, "router_ping") \in lossy
          /\ Measurement(Wifi, "router_ping").role = Wifi
      BY <1>6, <1>7, <2>1, <2>2
    <3>3. QED
      BY <3>1, <3>2 DEF CoversBothAgents
  <2>4. QED
    BY <1>9, <2>3 DEF General, Expected, m, pings, lossy
<1>10. CASE s = "high-latency"
  <2>1. lossy = {}
    BY <1>8, <1>10
  <2>2. Wired \in Reporting(s) /\ Wifi \in Reporting(s)
    BY <1>10 DEF Reporting
  <2>3. \A row : row \in slow <=>
          row = Measurement(Wired, "external_ping") \/ row = Measurement(Wifi, "external_ping")
    <3>1. \A row \in slow : \E a \in {Wired, Wifi} : row = Measurement(a, "external_ping")
      BY <1>1, <1>5
    <3>2. \A a \in {Wired, Wifi} : Measurement(a, "external_ping") \in slow
      BY <1>1, <1>5, <1>10, <2>2 DEF Runs, MeasurementTypes
    <3>3. QED
      BY <3>1, <3>2
  <2> HIDE DEF pings, lossy, slow
  <2>4. CoversBothAgents(slow)
    BY <1>6, <2>3 DEF CoversBothAgents
  <2>5. ~CoversBothAgents(lossy)
    BY <2>1 DEF CoversBothAgents
  <2>6. QED
    BY <1>10, <2>4, <2>5 DEF General, Expected, m, pings, lossy, slow
<1>11. CASE s \notin {"packet-loss", "high-latency"}
  <2>1. lossy = {}
    BY <1>8, <1>11
  <2>2. slow = {}
    BY <1>1, <1>5, <1>11
  <2>3. ~ \E row \in pings : Failed(row) \/ Lossy(row) \/ Slow(row)
    BY <1>8, <1>11, <2>2
  <2> HIDE DEF pings, lossy, slow
  <2>4. ~CoversBothAgents(slow) /\ ~CoversBothAgents(lossy)
    BY <2>1, <2>2 DEF CoversBothAgents
  <2>5. QED
    BY <1>11, <2>3, <2>4 DEF General, m, pings, lossy, slow
<1>12. QED
  BY <1>9, <1>10, <1>11

-----------------------------------------------------------------------------
(* Heartbeats                                                              *)

\* Agents that have reported the last round are fresh, those that never run are
\* stale.
AgesInv ==
  /\ ages \in [Enabled -> 0..(StaleAfter + 1)]
  /\ \A a \in Others : ages[a] = StaleAfter + 1
  /\ window # <<>> => \A a \in Reporting(window[Len(window)]) : ages[a] = 0

LEMMA ReportingAgents ==
  ASSUME NEW s
  PROVE  /\ Reporting(s) \in SUBSET {Wired, Wifi}
         /\ Reporting(s) \in SUBSET Enabled
         /\ Reporting(s) \intersect Others = {}
  BY SymptomsAssumption DEF Reporting, Enabled

LEMMA AgesInit == Init => AgesInv
<1>1. StaleAfter + 1 \in 0..(StaleAfter + 1)
  BY RulesAssumption
<1>2. QED
  BY <1>1 DEF Init, AgesInv, Enabled

LEMMA AgesStep ==
  ASSUME WindowInv, AgesInv, [Next]_vars
  PROVE  AgesInv'
<1>1. CASE Round
  <2>1. StaleAfter \in Nat \ {0} /\ Lookback \in Nat \ {0}
    BY RulesAssumption, SymptomsAssumption
  <2>2. ages' = [a \in Enabled |-> IF a \in Reporting(scenario) THEN 0
                                   ELSE IF ages[a] > StaleAfter THEN ages[a] ELSE ages[a] + 1]
    BY <1>1 DEF Round
  <2>3. ages' \in [Enabled -> 0..(StaleAfter + 1)]
    BY <2>1, <2>2 DEF AgesInv
  <2>4. \A a \in Others : ages'[a] = StaleAfter + 1
    BY <2>1, <2>2, ReportingAgents DEF AgesInv, Enabled
  <2>5. window' # <<>> => window'[Len(window')] = scenario
    <3> DEFINE rounds == Append(window, scenario)
    <3>1. /\ rounds \in Seq(AllScenarios) /\ Len(rounds) = Len(window) + 1
          /\ Len(window) \in Nat /\ rounds[Len(rounds)] = scenario
      BY DEF WindowInv
    <3>2. window' = IF Len(rounds) > Lookback THEN Tail(rounds) ELSE rounds
      BY <1>1 DEF Round
    <3> HIDE DEF rounds
    <3>3. CASE Len(rounds) > Lookback
      <4>1. rounds # <<>> /\ Len(rounds) >= 2
        BY <2>1, <3>1, <3>3
      <4>2. /\ Len(Tail(rounds)) = Len(rounds) - 1
            /\ \A i \in 1..(Len(rounds) - 1) : Tail(rounds)[i] = rounds[i + 1]
        BY <3>1, <4>1
      <4>3. Tail(rounds)[Len(rounds) - 1] = rounds[Len(rounds)]
        BY <3>1, <4>1, <4>2
      <4>4. QED
        BY <3>1, <3>2, <3>3, <4>2, <4>3
    <3>4. QED
      BY <3>1, <3>2, <3>3
  <2>6. window' # <<>> => \A a \in Reporting(window'[Len(window')]) : ages'[a] = 0
    BY <2>2, <2>5, ReportingAgents
  <2>7. QED
    BY <2>3, <2>4, <2>6 DEF AgesInv
<1>2. CASE \E s \in Scenarios : Change(s)
  BY <1>2 DEF Change, AgesInv
<1>3. CASE Evaluate
  BY <1>3 DEF Evaluate, AgesInv
<1>4. CASE UNCHANGED vars
  BY <1>4 DEF vars, AgesInv
<1>5. QED
  BY <1>1, <1>2, <1>3, <1>4 DEF Next

LEMMA AgesInvariant == Spec => []AgesInv
<1>1. WindowInv /\ AgesInv /\ [Next]_vars => AgesInv'
  BY AgesStep
<1>2. QED
  BY AgesInit, <1>1, WindowInvariant, PTL DEF Spec

\* While a scenario lasts, every enabled agent that does not report is offline, if
\* another one reports.
LEMMA SteadyOffline ==
  ASSUME WindowInv, AgesInv, NEW s, Steady(s),
         \A a \in {Wired, Wifi} \ Reporting(s) : ages[a] > StaleAfter
  PROVE  Offline(ages) =
           IF Reporting(s) = {} THEN {}
           ELSE {<<"agent_offline", {a}>> : a \in Enabled \ Reporting(s)}
<1>1. StaleAfter \in Nat /\ Lookback \in Nat \ {0}
  BY RulesAssumption, SymptomsAssumption
<1>2. \A a \in Reporting(s) : ages[a] = 0
  <2>1. Len(window) = Lookback /\ window \in Seq(AllScenarios)
    BY DEF Steady, WindowInv
  <2>2. window # <<>> /\ Len(window) \in DOMAIN window
    BY <1>1, <2>1
  <2>3. window[Len(window)] = s
    BY <2>2 DEF Steady
  <2>4. QED
    BY <2>2, <2>3 DEF AgesInv
<1>3. \A a \in Enabled : ages[a] <= StaleAfter <=> a \in Reporting(s)
  <2>1. ASSUME NEW a \in Enabled, a \notin Reporting(s)
        PROVE  ~(ages[a] <= StaleAfter)
    BY <1>1, <2>1 DEF Enabled, AgesInv
  <2>2. ASSUME NEW a \in Reporting(s)
        PROVE  ages[a] <= StaleAfter
    BY <1>1, <1>2
  <2>3. QED
    BY <2>1, <2>2
<1>4. DOMAIN ages = Enabled /\ Reporting(s) \in SUBSET Enabled
  BY ReportingAgents DEF AgesInv
<1>5. {a \in DOMAIN ages : ages[a] <= StaleAfter} = Reporting(s)
  BY <1>3, <1>4
<1>6. QED
  BY <1>4, <1>5 DEF Offline

\* The premise of SteadyScenarioClassified.
Lasting(s) ==
  /\ Len(window) = Lookback
  /\ \A i \in DOMAIN window : window[i] = s
  /\ \A a \in {Wired, Wifi} \ Reporting(s) : ages[a] > StaleAfter

LEMMA LastingClassified ==
  ASSUME DistinctThresholds, WindowInv, AgesInv, NEW s \in Scenarios, Lasting(s)
  PROVE  Findings = Diagnosis(s)
<1> DEFINE m == Sampled(Measurements)  c == Sampled(ServiceChecks)
<1>1. Steady(s)
  BY ScenariosAssumption DEF Steady, Lasting
<1>2. Specific(m, c) = IF s \in SpecificScenarios THEN Expected(s) ELSE {}
  BY <1>1, SteadySpecific
<1>3. s \notin SpecificScenarios =>
        General(m) = IF s \in {"high-latency", "packet-loss"} THEN Expected(s) ELSE {}
  BY <1>1, SteadyGeneral
<1>4. Offline(ages) = IF Reporting(s) = {} THEN {}
                      ELSE {<<"agent_offline", {a}>> : a \in Enabled \ Reporting(s)}
  BY <1>1, SteadyOffline DEF Lasting
<1>5. Findings = (IF Specific(m, c) = {} THEN General(m) ELSE Specific(m, c))
                   \union Offline(ages)
  BY FindingsAre DEF Classify
<1> HIDE DEF m, c
<1>6. CASE s \in {"agent-shutdown", "late-events"}
  <2>1. Reporting(s) = {Wired} /\ Expected(s) = {<<"agent_offline", {Wifi}>>}
    BY <1>6 DEF Reporting, Expected
  <2>2. Enabled \ Reporting(s) = {Wifi} \union Others
    BY <2>1, RulesAssumption, SymptomsAssumption DEF Enabled
  <2>3. Findings = {<<"agent_offline", {a}>> : a \in {Wifi} \union Others}
    BY <1>2, <1>3, <1>4, <1>5, <1>6, <2>1, <2>2 DEF SpecificScenarios
  <2>4. Diagnosis(s) = {<<"agent_offline", {Wifi}>>}
                         \union {<<"agent_offline", {a}>> : a \in Others}
    BY <2>1 DEF Diagnosis
  <2>5. QED
    BY <2>3, <2>4
<1>7. CASE s = "silence"
  <2>1. Reporting(s) = {} /\ Expected(s) = {}
    BY <1>7 DEF Reporting, Expected
  <2>2. QED
    BY <1>2, <1>3, <1>4, <1>5, <1>7, <2>1 DEF SpecificScenarios, Diagnosis
<1>8. CASE s \notin {"agent-shutdown", "late-events", "silence"}
  <2>1. Reporting(s) = {Wired, Wifi}
    BY <1>8 DEF Reporting
  <2>2. Enabled \ Reporting(s) = Others
    BY <2>1, SymptomsAssumption DEF Enabled
  <2>3. Offline(ages) = {<<"agent_offline", {a}>> : a \in Others}
    BY <1>4, <2>1, <2>2
  <2>4. Diagnosis(s) = Expected(s) \union {<<"agent_offline", {a}>> : a \in Others}
    BY <2>1 DEF Diagnosis
  <2>5. (IF Specific(m, c) = {} THEN General(m) ELSE Specific(m, c)) = Expected(s)
    <3>1. CASE s \in SpecificScenarios
      <4>1. Expected(s) # {}
        BY <3>1 DEF SpecificScenarios, Expected
      <4>2. QED
        BY <1>2, <3>1, <4>1
    <3>2. CASE s \in {"high-latency", "packet-loss"}
      BY <1>2, <1>3, <3>2 DEF SpecificScenarios
    <3>3. CASE s = "healthy"
      BY <1>2, <1>3, <3>3 DEF SpecificScenarios, Expected
    <3>4. QED
      BY <1>1, <1>8, <3>1, <3>2, <3>3 DEF Steady, AllScenarios, SpecificScenarios
  <2>6. QED
    BY <1>5, <2>3, <2>4, <2>5
<1>9. QED
  BY <1>6, <1>7, <1>8

\* With thresholds that tell the scenarios apart, a scenario that fills the window
\* is found to be exactly what the simulator expects: no rule shadows another, and
\* healthy rounds are found to be nothing (engine.py 55-214, scenarios.py 43-53),
\* for every lookback, sample gate, pair of rates and set of enabled agents.
THEOREM SteadyScenariosAreClassified ==
  ASSUME DistinctThresholds
  PROVE  Spec => []SteadyScenarioClassified
<1>1. WindowInv /\ AgesInv => SteadyScenarioClassified
  BY LastingClassified DEF SteadyScenarioClassified, Lasting
<1>2. QED
  BY <1>1, WindowInvariant, AgesInvariant, PTL

-----------------------------------------------------------------------------
(* Types                                                                   *)

\* Recovery observations are counted in the state recovering only, and nothing is
\* without an incident.
WellCounted(i) ==
  /\ i.status # "recovering" => i.recoveries = 0
  /\ i.status = "none" => i = None

Counting == \A key \in Keys : WellCounted(incidents[key])

Typed ==
  /\ incidents \in [Keys -> Incidents]
  /\ due \in BOOLEAN
  /\ changes \in 0..MaxChanges
  /\ Counting

MostRecoveries == Max({1, ResolveObservations - 1})

LEMMA RecoveriesBound ==
  /\ MostRecoveries \in Nat /\ 1 <= MostRecoveries
  /\ ResolveObservations - 1 <= MostRecoveries
<1>1. ResolveObservations \in Nat \ {0}
  BY SymptomsAssumption
<1> DEFINE Both == {1, ResolveObservations - 1}
<1>2. Both \in SUBSET (0..(ResolveObservations + 1)) /\ Both # {}
  BY <1>1
<1>3. ResolveObservations + 1 \in Nat
  BY <1>1
<1> HIDE DEF Both
<1>4. Max(Both) \in Both /\ \A x \in Both : x <= Max(Both)
  BY <1>2, <1>3, GreatestNat
<1>5. MostRecoveries = Max(Both)
  BY DEF MostRecoveries, Both
<1>6. QED
  BY <1>1, <1>4, <1>5 DEF Both

Statuses == {"none", "candidate", "open", "ongoing", "recovering"}

LEMMA IncidentsAre ==
  Incidents = [status : Statuses, positives : 0..OpenObservations, recoveries : 0..MostRecoveries]
  BY DEF Incidents, Statuses, MostRecoveries

LEMMA NoneTyped == None \in Incidents /\ WellCounted(None)
<1>1. OpenObservations \in Nat
  BY SymptomsAssumption
<1>2. QED
  BY <1>1, RecoveriesBound, IncidentsAre DEF None, WellCounted, Statuses

LEMMA FoundTyped ==
  ASSUME NEW i \in Incidents
  PROVE  Found(i) \in Incidents /\ WellCounted(Found(i))
<1>1. OpenObservations \in Nat
  BY SymptomsAssumption
<1>2. i.positives \in 0..OpenObservations /\ i.status \in Statuses
  BY IncidentsAre
<1> DEFINE positives == IF i.positives < OpenObservations THEN i.positives + 1 ELSE i.positives
           status == CASE i.status = "none" -> "candidate"
                       [] i.status = "candidate" ->
                            IF positives >= OpenObservations THEN "open" ELSE "candidate"
                       [] i.status = "recovering" -> "open"
                       [] OTHER -> "ongoing"
<1>3. positives \in 0..OpenObservations
  BY <1>1, <1>2
<1>4. status \in Statuses /\ status # "none"
  BY <1>2 DEF Statuses
<1>5. Found(i) = [status |-> status, positives |-> positives, recoveries |-> 0]
  BY DEF Found
<1> HIDE DEF positives, status
<1>6. QED
  BY <1>3, <1>4, <1>5, RecoveriesBound, IncidentsAre DEF WellCounted

LEMMA MissingTyped ==
  ASSUME NEW i \in Incidents, WellCounted(i)
  PROVE  Missing(i) \in Incidents /\ WellCounted(Missing(i))
<1>1. /\ i.status \in Statuses /\ i.recoveries \in 0..MostRecoveries
      /\ i.positives \in 0..OpenObservations
  BY IncidentsAre
<1>2. CASE \/ i.status \in {"none", "candidate"}
           \/ i.status = "recovering" /\ i.recoveries + 1 >= ResolveObservations
  BY <1>2, NoneTyped DEF Missing
<1>3. CASE ~(\/ i.status \in {"none", "candidate"}
             \/ i.status = "recovering" /\ i.recoveries + 1 >= ResolveObservations)
  <2>1. Missing(i) = [i EXCEPT !.status = "recovering", !.recoveries = @ + 1]
    BY <1>3 DEF Missing
  <2>2. i.recoveries + 1 \in 0..MostRecoveries
    <3>1. ResolveObservations \in Nat
      BY SymptomsAssumption
    <3>2. CASE i.status = "recovering"
      BY <1>1, <1>3, <3>1, <3>2, RecoveriesBound
    <3>3. CASE i.status # "recovering"
      BY <1>1, <3>3, RecoveriesBound DEF WellCounted
    <3>4. QED
      BY <3>2, <3>3
  <2>3. Missing(i) = [status |-> "recovering", positives |-> i.positives,
                      recoveries |-> i.recoveries + 1]
    BY <2>1, IncidentsAre
  <2>4. QED
    BY <1>1, <2>2, <2>3, IncidentsAre DEF WellCounted, Statuses
<1>4. QED
  BY <1>2, <1>3

LEMMA TypedInit == Init => Typed
<1>1. MaxChanges \in Nat
  BY SymptomsAssumption
<1>2. ASSUME Init
      PROVE  incidents \in [Keys -> Incidents] /\ Counting
  BY <1>2, NoneTyped DEF Init, Counting
<1>3. ASSUME Init
      PROVE  due \in BOOLEAN /\ changes \in 0..MaxChanges
  <2>1. due = FALSE /\ changes = 0
    BY <1>3 DEF Init
  <2>2. due \in BOOLEAN
    BY <2>1, Zenon
  <2>3. QED
    BY <1>1, <2>1, <2>2
<1>4. QED
  BY <1>2, <1>3 DEF Typed

LEMMA TypedStep ==
  ASSUME Typed, [Next]_vars
  PROVE  Typed'
<1>1. CASE Round
  BY <1>1 DEF Round, Typed, Counting
<1>2. CASE \E s \in Scenarios : Change(s)
  BY <1>2, SymptomsAssumption DEF Change, Typed, Counting
<1>3. CASE Evaluate
  <2>1. PICK found \in {Findings} :
          incidents' = [key \in Keys |-> IF key \in found THEN Found(incidents[key])
                                         ELSE Missing(incidents[key])]
    BY <1>3 DEF Evaluate
  <2>2. ASSUME NEW key \in Keys
        PROVE  incidents'[key] \in Incidents /\ WellCounted(incidents'[key])
    <3>1. incidents[key] \in Incidents /\ WellCounted(incidents[key])
      BY DEF Typed, Counting
    <3>2. incidents'[key] = Found(incidents[key]) \/ incidents'[key] = Missing(incidents[key])
      BY <2>1
    <3>3. QED
      BY <3>1, <3>2, FoundTyped, MissingTyped
  <2>3. incidents' \in [Keys -> Incidents] /\ Counting'
    BY <2>1, <2>2 DEF Counting
  <2>4. due' \in BOOLEAN /\ changes' = changes
    BY <1>3 DEF Evaluate
  <2>5. QED
    BY <2>3, <2>4 DEF Typed
<1>4. CASE UNCHANGED vars
  BY <1>4 DEF vars, Typed, Counting
<1>5. QED
  BY <1>1, <1>2, <1>3, <1>4 DEF Next

LEMMA TypedInvariant == Spec => []Typed
<1>1. Typed /\ [Next]_vars => Typed'
  BY TypedStep
<1>2. QED
  BY TypedInit, <1>1, PTL DEF Spec

\* The greatest of some naturals and zero.
LEMMA PeakTyped ==
  ASSUME NEW n \in Nat, NEW T \in SUBSET (0..n)
  PROVE  Max({0} \union T) \in 0..n
<1>1. {0} \union T \in SUBSET (0..n) /\ {0} \union T # {}
  OBVIOUS
<1>2. QED
  BY <1>1, GreatestNat

LEMMA MeasurementTyped ==
  ASSUME WindowInv, NEW a, NEW type, Runs(a, type)
  PROVE  Measurement(a, type) \in Summaries
<1>1. Cardinality(RoundsOf(a)) \in Nat
  BY Rounds DEF WindowInv
<1>2. Count(a, type) \in Nat /\ Count(a, "wifi_diagnostics") \in Nat
  BY <1>1, Counts DEF WindowInv
<1>3. Measurement(a, type).peak \in Nat
  <2> DEFINE T == {Latency(type, window[i], a) : i \in RoundsOf(a)}
  <2>1. T \in SUBSET (0..240)
    BY LatencyBound
  <2> HIDE DEF T
  <2>2. Max({0} \union T) \in 0..240
    BY <2>1, PeakTyped
  <2>3. Measurement(a, type).peak = Max({0} \union T)
    BY DEF Measurement, T
  <2>4. QED
    BY <2>2, <2>3
<1>4. Measurement(a, type).signal \in 0..120
  <2> DEFINE T == {SignalOf(type, window[i]) : i \in RoundsOf(a)}
  <2>1. T \in SUBSET (0..120)
    BY DataTyped
  <2> HIDE DEF T
  <2>2. Max({0} \union T) \in 0..120
    BY <2>1, PeakTyped
  <2>3. Measurement(a, type).signal = Max({0} \union T)
    BY DEF Measurement, T
  <2>4. QED
    BY <2>2, <2>3
<1>5. Measurement(a, type).loss \in Nat
  <2> DEFINE w == [i \in RoundsOf(a) |-> Loss(type, window[i], a)]
  <2>1. Measurement(a, type).loss = SumOf(w, RoundsOf(a))
    <3>1. Measurement(a, type).loss = SumOver(a, LAMBDA z : Loss(type, z, a))
      BY DEF Measurement
    <3>2. QED
      BY <3>1, LossSum DEF WindowInv
  <2>2. \A i \in RoundsOf(a) : w[i] \in Nat
    BY DataTyped
  <2>3. IsFiniteSet(RoundsOf(a))
    BY Rounds DEF WindowInv
  <2> HIDE DEF w
  <2>4. QED
    BY <2>1, <2>2, <2>3, SumNat
<1>6. Measurement(a, type) =
        [role |-> a, type |-> type, count |-> Cardinality(RoundsOf(a)),
         succeeded |-> Count(a, type), peak |-> Measurement(a, type).peak,
         loss |-> Measurement(a, type).loss, signal |-> Measurement(a, type).signal,
         connected |-> Count(a, "wifi_diagnostics")]
  BY DEF Measurement
<1>7. a \in {Wired, Wifi} /\ type \in {"router_ping", "external_ping", "wifi_diagnostics"}
  BY DEF Runs, MeasurementTypes
<1>8. QED
  BY <1>1, <1>2, <1>3, <1>4, <1>5, <1>6, <1>7 DEF Summaries

LEMMA ServiceTyped ==
  ASSUME WindowInv, NEW a \in {Wired, Wifi}, NEW type \in {"dns", "http"}
  PROVE  ServiceRow(a, type) \in Services
<1>1. Cardinality(RoundsOf(a)) \in Nat
  BY Rounds DEF WindowInv
<1>2. Count(a, type) \in Nat
  BY <1>1, Counts DEF WindowInv
<1>3. EndpointOf(type) \in {"dns-check", "example-service"}
  BY DEF EndpointOf
<1>4. ServiceRow(a, type) =
        [role |-> a, endpoint |-> EndpointOf(type), type |-> type,
         count |-> Cardinality(RoundsOf(a)), succeeded |-> Count(a, type)]
  BY DEF ServiceRow
<1>5. QED
  BY <1>1, <1>2, <1>3, <1>4 DEF Services

\* Every reachable state is well typed, and so is the snapshot that is made of it:
\* sums and peaks over any window are naturals, signals stay in the range of the
\* thresholds, and counters of an incident stay below theirs (engine.py 219-291,
\* classifier's repository.py load_snapshot).
THEOREM TypeCorrect == Spec => []TypeOK
<1>1. ASSUME WindowInv
      PROVE  Measurements \in SUBSET Summaries /\ ServiceChecks \in SUBSET Services
  <2>1. \A row \in Measurements : row \in Summaries
    BY <1>1, MeasurementRows, MeasurementTyped
  <2>2. \A row \in ServiceChecks : row \in Services
    BY <1>1, ServiceRows, ServiceTyped
  <2>3. QED
    BY <2>1, <2>2
<1>2. WindowInv /\ AgesInv /\ Typed => TypeOK
  BY <1>1 DEF WindowInv, AgesInv, Typed, TypeOK
<1>3. QED
  BY <1>2, WindowInvariant, AgesInvariant, TypedInvariant, PTL

-----------------------------------------------------------------------------
(* Settling                                                                *)

\* An evaluation less to go.
Less(n) == IF n = 0 THEN 0 ELSE n - 1
AtLeastOne(n) == IF n >= 1 THEN n ELSE 1

\* The evaluations that an incident needs until it is open, if all find it, and
\* until it is resolved, if none does.
StepsToOpen(i) ==
  CASE i.status \in {"open", "ongoing"} -> 0
    [] i.status = "recovering" -> 1
    [] i.status = "candidate" -> AtLeastOne(OpenObservations - i.positives)
    [] i.status = "none" -> 1 + AtLeastOne(OpenObservations - 1)
StepsToResolve(i) ==
  CASE i.status = "none" -> 0
    [] i.status = "candidate" -> 1
    [] i.status = "recovering" -> AtLeastOne(ResolveObservations - i.recoveries)
    [] i.status \in {"open", "ongoing"} -> 1 + AtLeastOne(ResolveObservations - 1)

SettlingStep ==
  \A s \in Scenarios :
    Lasting(s) /\ Evaluate =>
      /\ \A key \in Keys \intersect Diagnosis(s) :
           StepsToOpen(incidents'[key]) = Less(StepsToOpen(incidents[key]))
      /\ \A key \in Keys \ Diagnosis(s) :
           StepsToResolve(incidents'[key]) = Less(StepsToResolve(incidents[key]))

LEMMA FoundSteps ==
  ASSUME NEW i \in Incidents, WellCounted(i)
  PROVE  StepsToOpen(Found(i)) = Less(StepsToOpen(i))
<1>1. OpenObservations \in Nat \ {0}
  BY SymptomsAssumption
<1>2. i.positives \in 0..OpenObservations /\ i.status \in Statuses
  BY IncidentsAre
<1>3. CASE i.status = "none"
  <2>1. i.positives = 0
    BY <1>3 DEF WellCounted, None
  <2>2. Found(i).status = "candidate" /\ Found(i).positives = 1
    BY <1>1, <1>3, <2>1 DEF Found
  <2>3. StepsToOpen(Found(i)) = AtLeastOne(OpenObservations - 1)
    BY <2>2 DEF StepsToOpen
  <2>4. StepsToOpen(i) = 1 + AtLeastOne(OpenObservations - 1)
    BY <1>3 DEF StepsToOpen
  <2>5. QED
    BY <1>1, <2>3, <2>4 DEF Less, AtLeastOne
<1>4. CASE i.status = "candidate"
  <2>1. StepsToOpen(i) = AtLeastOne(OpenObservations - i.positives)
    BY <1>4 DEF StepsToOpen
  <2>2. CASE i.positives + 1 >= OpenObservations
    <3>1. Found(i).status = "open"
      BY <1>1, <1>2, <1>4, <2>2 DEF Found
    <3>2. StepsToOpen(Found(i)) = 0
      BY <3>1 DEF StepsToOpen
    <3>3. QED
      BY <1>1, <1>2, <2>1, <2>2, <3>2 DEF Less, AtLeastOne
  <2>3. CASE i.positives + 1 < OpenObservations
    <3>1. Found(i).status = "candidate" /\ Found(i).positives = i.positives + 1
      BY <1>1, <1>2, <1>4, <2>3 DEF Found
    <3>2. StepsToOpen(Found(i)) = AtLeastOne(OpenObservations - (i.positives + 1))
      BY <3>1 DEF StepsToOpen
    <3>3. QED
      BY <1>1, <1>2, <2>1, <2>3, <3>2 DEF Less, AtLeastOne
  <2>4. QED
    BY <1>1, <1>2, <2>2, <2>3
<1>5. CASE i.status = "recovering"
  <2>1. Found(i).status = "open"
    BY <1>5 DEF Found
  <2>2. QED
    BY <1>5, <2>1 DEF StepsToOpen, Less
<1>6. CASE i.status \in {"open", "ongoing"}
  <2>1. Found(i).status = "ongoing"
    BY <1>6 DEF Found
  <2>2. QED
    BY <1>6, <2>1 DEF StepsToOpen, Less
<1>7. QED
  BY <1>2, <1>3, <1>4, <1>5, <1>6 DEF Statuses

LEMMA MissingSteps ==
  ASSUME NEW i \in Incidents, WellCounted(i)
  PROVE  StepsToResolve(Missing(i)) = Less(StepsToResolve(i))
<1>1. ResolveObservations \in Nat \ {0}
  BY SymptomsAssumption
<1>2. i.recoveries \in Nat /\ i.status \in Statuses
  BY IncidentsAre, RecoveriesBound
<1>3. StepsToResolve(None) = 0
  BY DEF None, StepsToResolve
<1>4. CASE i.status \in {"none", "candidate"}
  <2>1. Missing(i) = None
    BY <1>4 DEF Missing
  <2>2. StepsToResolve(i) = 0 \/ StepsToResolve(i) = 1
    BY <1>4 DEF StepsToResolve
  <2>3. Less(0) = 0 /\ Less(1) = 0
    BY DEF Less
  <2>4. QED
    BY <1>3, <2>1, <2>2, <2>3
<1>5. CASE i.status = "recovering"
  <2>1. StepsToResolve(i) = AtLeastOne(ResolveObservations - i.recoveries)
    BY <1>5 DEF StepsToResolve
  <2>2. CASE i.recoveries + 1 >= ResolveObservations
    <3>1. Missing(i) = None
      BY <1>5, <2>2 DEF Missing
    <3>2. QED
      BY <1>1, <1>2, <1>3, <2>1, <2>2, <3>1 DEF Less, AtLeastOne
  <2>3. CASE i.recoveries + 1 < ResolveObservations
    <3>1. Missing(i) = [i EXCEPT !.status = "recovering", !.recoveries = @ + 1]
      BY <1>1, <1>2, <1>5, <2>3 DEF Missing
    <3>2. Missing(i).status = "recovering" /\ Missing(i).recoveries = i.recoveries + 1
      BY <3>1, IncidentsAre
    <3>3. StepsToResolve(Missing(i)) = AtLeastOne(ResolveObservations - (i.recoveries + 1))
      BY <3>2 DEF StepsToResolve
    <3>4. QED
      BY <1>1, <1>2, <2>1, <2>3, <3>3 DEF Less, AtLeastOne
  <2>4. QED
    BY <1>1, <1>2, <2>2, <2>3
<1>6. CASE i.status \in {"open", "ongoing"}
  <2>1. Missing(i) = [i EXCEPT !.status = "recovering", !.recoveries = @ + 1]
    BY <1>6 DEF Missing
  <2>2. Missing(i).status = "recovering" /\ Missing(i).recoveries = 1
    BY <1>6, <2>1, IncidentsAre DEF WellCounted
  <2>3. StepsToResolve(Missing(i)) = AtLeastOne(ResolveObservations - 1)
    BY <2>2 DEF StepsToResolve
  <2>4. StepsToResolve(i) = 1 + AtLeastOne(ResolveObservations - 1)
    BY <1>6 DEF StepsToResolve
  <2>5. QED
    BY <1>1, <2>3, <2>4 DEF Less, AtLeastOne
<1>7. QED
  BY <1>2, <1>4, <1>5, <1>6 DEF Statuses

\* What IncidentsSettle rests on, for all numbers of observations: each evaluation
\* of a scenario that lasts brings every incident a step nearer to where it settles,
\* and leaves it there once it has (engine.py 219-291).
THEOREM EvaluationsSettle ==
  ASSUME DistinctThresholds
  PROVE  Spec => [][SettlingStep]_vars
<1>1. ASSUME WindowInv, AgesInv, Typed, NEW s \in Scenarios, Lasting(s), Evaluate
      PROVE  /\ \A key \in Keys \intersect Diagnosis(s) :
                  StepsToOpen(incidents'[key]) = Less(StepsToOpen(incidents[key]))
             /\ \A key \in Keys \ Diagnosis(s) :
                  StepsToResolve(incidents'[key]) = Less(StepsToResolve(incidents[key]))
  <2>1. Findings = Diagnosis(s)
    BY <1>1, LastingClassified
  <2>2. incidents' = [key \in Keys |-> IF key \in Findings THEN Found(incidents[key])
                                       ELSE Missing(incidents[key])]
    BY <1>1 DEF Evaluate
  <2>3. ASSUME NEW key \in Keys
        PROVE  /\ incidents[key] \in Incidents /\ WellCounted(incidents[key])
               /\ incidents'[key] = IF key \in Diagnosis(s) THEN Found(incidents[key])
                                    ELSE Missing(incidents[key])
    BY <1>1, <2>1, <2>2 DEF Typed, Counting
  <2>4. QED
    BY <2>3, FoundSteps, MissingSteps
<1>2. WindowInv /\ AgesInv /\ Typed /\ [Next]_vars => [SettlingStep]_vars
  BY <1>1 DEF SettlingStep
<1>3. QED
  BY <1>2, WindowInvariant, AgesInvariant, TypedInvariant, PTL DEF Spec

\* The incidents that need no more evaluations are those of IncidentsSettle.
THEOREM SettledIncidents ==
  Spec => [](\A key \in Keys :
               /\ StepsToOpen(incidents[key]) = 0 <=> incidents[key].status \in {"open", "ongoing"}
               /\ StepsToResolve(incidents[key]) = 0 <=> incidents[key] = None)
<1>1. ASSUME NEW i \in Incidents, WellCounted(i)
      PROVE  /\ StepsToOpen(i) = 0 <=> i.status \in {"open", "ongoing"}
             /\ StepsToResolve(i) = 0 <=> i = None
  <2>1. i.status \in Statuses /\ i.positives \in Nat /\ i.recoveries \in Nat
    BY IncidentsAre, RecoveriesBound, SymptomsAssumption
  <2>2. \A n \in Int : AtLeastOne(n) # 0 /\ 1 + AtLeastOne(n) # 0
    BY DEF AtLeastOne
  <2>3. /\ OpenObservations - 1 \in Int /\ ResolveObservations - 1 \in Int
        /\ OpenObservations - i.positives \in Int /\ ResolveObservations - i.recoveries \in Int
    BY <2>1, SymptomsAssumption
  <2>4. StepsToOpen(i) = 0 <=> i.status \in {"open", "ongoing"}
    BY <2>1, <2>2, <2>3 DEF StepsToOpen, Statuses
  <2>5. StepsToResolve(i) = 0 <=> i.status = "none"
    BY <2>1, <2>2, <2>3 DEF StepsToResolve, Statuses
  <2>6. i.status = "none" <=> i = None
    BY <1>1 DEF WellCounted, None
  <2>7. QED
    BY <2>4, <2>5, <2>6
<1>2. Typed => \A key \in Keys :
                 /\ StepsToOpen(incidents[key]) = 0
                      <=> incidents[key].status \in {"open", "ongoing"}
                 /\ StepsToResolve(incidents[key]) = 0 <=> incidents[key] = None
  BY <1>1 DEF Typed, Counting
<1>3. QED
  BY <1>2, TypedInvariant, PTL

=============================================================================
