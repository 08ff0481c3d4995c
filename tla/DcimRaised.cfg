SPECIFICATION Spec
CONSTANTS
  l1 = l1  l2 = l2  r1 = r1  r2 = r2  d1 = d1  i1 = i1  p1 = p1  p2 = p2
  None = None
  Objects = {l1, r1, r2}
  KindOf <- KindsOfObjects
  Requests = {p1}
SYMMETRY Symmetric
INVARIANT DependentsAreConflict
CHECK_DEADLOCK FALSE
