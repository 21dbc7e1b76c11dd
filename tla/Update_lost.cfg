SPECIFICATION FairSpec
CONSTANTS
  None = None
  Partial = Partial
  p1 = p1
  p2 = p2
  v1 = v1
  v2 = v2
  Packages = {p1}
  Versions = {v1, v2}
  Lists <- OneList
  InUse = {}
  Workers = 2
  UserMay = {"check"}
  MaxCheck = 2
  MaxAuto = 1
  MaxUser = 1
PROPERTY TotalAutoEnds
CHECK_DEADLOCK FALSE
