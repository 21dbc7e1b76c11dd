SPECIFICATION Spec
CONSTANTS
  None = None
  p1 = p1
  p2 = p2
  Packages = {p1}
  MaxTry = 2
  AdbOutcomes <- Mixed
  UiCommands = {"install", "force", "list", "auto_on", "auto_off"}
  MaxProxy = 2
  MaxSub = 8
  MaxUi = 2
  MaxScan = 1
  MaxReload = 1
INVARIANTS TypeOK   NoDanglingTimer
CHECK_DEADLOCK FALSE
