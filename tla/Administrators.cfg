SPECIFICATION AccountsSpec
CONSTANTS
  None = None
  Users = {u1, u2, u3}
  Requests = {p1, p2}
  HasAdminToken = FALSE
SYMMETRY Symmetric
INVARIANT AdminLossNeedsRace
PROPERTY PatchesMerge
CHECK_DEADLOCK FALSE
