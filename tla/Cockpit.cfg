CONSTANTS
  Socket = {s1}
  Peer = {"cdn"}
  ProvidersOf <- MCProvidersOf
  Provider = {1, 2}
  Owner = {"app", "ingauge"}
  Own = "ingauge"
  CallMinimum = 1
  TlsOverhead = 0
  Cooldown = 1
  TokenWindow = 1
  RequestWindow = 2
  MaxBytes = 1
  MaxConnects = 1
  MaxMisses = 0
  Configured = {1}
  Statuses <- MCStatuses
  RpmMax = 100
  TpmMax = 100
  RpdLimit = 100
  Round = 2
SPECIFICATION FairSpec
CHECK_DEADLOCK FALSE
INVARIANTS HonestRates
PROPERTIES EstimateDecays EveryProviderTurns
