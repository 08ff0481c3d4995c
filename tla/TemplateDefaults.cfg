SPECIFICATION Spec
CONSTANTS
  t1 = t1  t2 = t2  t3 = t3  u1 = u1  p1 = p1  p2 = p2  rack = rack  device = device
  None = None
  Templates = {t1, t2, t3, u1}
  Types = {rack, device}
  TypeOf <- TypesOfTemplates
  Requests = {p1, p2}
SYMMETRY Symmetric
INVARIANT TwoDefaultsNeedRace
PROPERTIES MakingHeals DefaultsAreReplaced
CHECK_DEADLOCK FALSE
