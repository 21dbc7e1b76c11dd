SPECIFICATION Spec
CONSTANTS
  s1 = s1
  s2 = s2
  None = None
  Phone = {s1, s2}
  Sessions <- MCSessions
  MaxDevice = 4
  MaxProxy = 6
INVARIANTS TypeOK WalkReachesAll  OneOperation 
CHECK_DEADLOCK FALSE
