SPECIFICATION Spec
CONSTANTS
  s1 = s1
  s2 = s2
  k1 = k1
  k2 = k2
  p1 = p1
  p2 = p2
  None = None
  Serial = {s1, s2}
  DeviceLists <- MCDeviceLists
  Key = {k1, k2}
  Package = {p1, p2}
  PoolSize = 2
  Budgets <- MCBudgets
INVARIANTS TypeOK RowsIndexed DetailShowsSelected LatestShown ModeAgrees 
CHECK_DEADLOCK FALSE
