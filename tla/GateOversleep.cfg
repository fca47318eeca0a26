CONSTANTS
  p = p
  m = m
  h1 = h1
  h2 = h2
  c1 = c1
  c2 = c2
  c3 = c3
  AnyModel = AnyModel
  BadName = BadName
  Nobody = Nobody
  Provider = {p}
  Model = {m}
  Handler = {h1, h2}
  Client = {c1, c2}
  MaxConcurrent = 1
  DefaultDelay = 1
  AdmitWhenUnknown = TRUE
  MinTtl = 1
  MaxTtl = 2
  MaxLag = 1
  MaxGrants = 3
  MaxRestarts = 0
  Requests <- MCRequests
  RequestOf <- Alike
  Fallback = {c1}
  Polls <- RoomOrSpent
SPECIFICATION GateSpec
CHECK_DEADLOCK FALSE
PROPERTIES SleepsUntilStart
