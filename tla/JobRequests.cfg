SPECIFICATION Spec
CONSTANTS
  d1 = d1  d2 = d2  p1 = p1  p2 = p2  w1 = w1  w2 = w2  k1 = k1
  None = None
  Defs = {d1, d2}
  Keys <- HandledKeys
  Requests = {p1, p2}
  Workers = {}
  IdemKeys = {k1}
  MaxRuns = 2
  MaxFaults = 1
  AsyncMode = FALSE
SYMMETRY Symmetric
INVARIANT DuplicatesOverlap
PROPERTY ImplementsLedger
CHECK_DEADLOCK FALSE
