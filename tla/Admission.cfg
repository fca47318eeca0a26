CONSTANTS
  p = p
  m = m
  h1 = h1
  h2 = h2
  AnyModel = AnyModel
  BadName = BadName
  Provider = {p}
  Model = {m}
  Handler = {h1, h2}
  MaxConcurrent = 2
  DefaultDelay = 1
  AdmitWhenUnknown = FALSE
  MinTtl = 1
  MaxTtl = 2
  Requests <- MCRequests
  Polls <- MCPolls
  MaxLag = 1
  MaxGrants = 3
SPECIFICATION Spec
SYMMETRY Symmetry
INVARIANTS ConcurrencyLimit
PROPERTIES LiveLeaseLeavesByCompletion LimitDelayIsJustified NoOversleep ImplementsPermitPool
