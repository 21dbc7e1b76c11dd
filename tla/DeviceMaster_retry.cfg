SPECIFICATION Spec
CONSTANTS
  None = None
  p1 = p1
  p2 = p2
  Packages = {p1}
  MaxTry = 3
  AdbOutcomes <- Mixed
  UiCommands = {"auto_on"}
  MaxProxy = 2
  MaxSub = 12
  MaxUi = 1
  MaxScan = 1
  MaxReload = 1
PROPERTY NoRetryAfterTimeout
CHECK_DEADLOCK FALSE
