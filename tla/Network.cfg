CONSTANTS
  Socket = {s1}
  Peer = {"cdn", "own", "other"}
  ProvidersOf <- MCProvidersOf
  Provider = {1, 2}
  Owner = {"app", "ingauge"}
  Own = "ingauge"
  CallMinimum = 1
  TlsOverhead = 1
  Cooldown = 2
  TokenWindow = 1
  RequestWindow = 2
  MaxBytes = 2
  MaxConnects = 2
  MaxMisses = 1
SPECIFICATION NetSpec
INVARIANTS CountedOnce
PROPERTIES CallsSpaced
