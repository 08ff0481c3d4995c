SPECIFICATION FairSpec
CONSTANTS
  p1 = p1  u1 = u1
  Users = {u1, u2}
  Admins = {u1}
  Pages = {p1, p2}
  Nobody = Nobody
  NoPage = NoPage
  NoData = NoData
  MaxFailures = 1
CONSTRAINT OneCollector
INVARIANTS TypeOK ShownIsStored
PROPERTIES TogglesAreExact SessionOpens
CHECK_DEADLOCK FALSE
