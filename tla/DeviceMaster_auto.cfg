SPECIFICATION FairSpec
CONSTANTS
  None = None
  p1 = p1
  p2 = p2
  Packages = {p1}
  MaxTry = 2
  AdbOutcomes <- WithFatal
  UiCommands = {"auto_on"}
  MaxProxy = 2
  MaxSub = 30
  MaxUi = 1
  MaxScan = 1
  MaxReload = 1
INVARIANTS  QueuedOncePerThread
 
