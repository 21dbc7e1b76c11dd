SPECIFICATION FairSpec
CONSTANTS
  None = None
  Partial = Partial
  p1 = p1
  p2 = p2
  v1 = v1
  v2 = v2
  Packages = {p1, p2}
  Versions = {v1}
  Lists <- TwoLists
  InUse = {p1}
  Workers = 2
  UserMay = {"check", "load", "remove"}
  MaxCheck = 3
  MaxAuto = 2
  MaxUser = 1
INVARIANTS TypeOK DeferredIsCurrent PoolDoneBeforeSave
PROPERTIES PhasesInOrder 
CHECK_DEADLOCK FALSE
