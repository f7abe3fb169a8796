SPECIFICATION Spec
CONSTANTS
  LateNotices = FALSE
  EvseCount = 2
  MaxWrites = 1
  MaxOperations = 1
  MaxInstances = 2
  ExitingInstances = {2}
  MaxConnections = 3
INVARIANTS
  ToolOnlyWhileStopped
  CacheTellsTruth
  ReportTellsTruth
PROPERTIES
  ReadinessIsFresh
  ImplementsStages
CHECK_DEADLOCK FALSE
