SPECIFICATION FairSpec
CONSTANTS
  Wired = "network-agent-ethernet-01"
  Wifi = "network-agent-wifi-01"
  Others = {"container-observer-01"}
  MinimumSamples = 2
  HealthyRate = 80
  FailedRate = 20
  HighLatency = 150
  HighLoss = 20
  WeakSignal = 78
  StaleAfter = 7
  Scenarios <- Every
  Lookback = 5
  OpenObservations = 2
  ResolveObservations = 2
  MaxChanges = 2
INVARIANTS SteadyScenarioClassified OutageIsEarned
PROPERTIES IncidentsSettle
CHECK_DEADLOCK FALSE
