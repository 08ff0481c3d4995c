SPECIFICATION FairSpec
CONSTANTS
  d1 = d1  d2 = d2  p1 = p1  p2 = p2  w1 = w1  w2 = w2  k1 = k1
  None = None
  Defs = {d1}
  Keys <- TwoKeys
  Requests = {p1}
  Workers = {w1, w2}
  IdemKeys = {}
  MaxRuns = 2
  MaxFaults = 2
  AsyncMode = TRUE
INVARIANTS ExecutionAccounting AuditTrail FaultsStrandOneRun
PROPERTIES ImplementsLedger QueueDrains HeldRunsEnd
CHECK_DEADLOCK FALSE
