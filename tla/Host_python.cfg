SPECIFICATION FairSpec
CONSTANTS
  None = None
  MaxLaunch = 2
  MaxUi = 2
  ScanTimes = 2
INVARIANTS TypeOK NoDanglingSocket ConfigFirst UiShowsEntry TotalInOrder
PROPERTIES PendingDelivered ConnectedGetsPackages
CHECK_DEADLOCK FALSE
