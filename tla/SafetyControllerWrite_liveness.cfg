SPECIFICATION FairSpec
CONSTANTS
  LateNotices = FALSE
  EvseCount = 1
  MaxWrites = 1
  MaxOperations = 1
  MaxInstances = 2
  ExitingInstances = {1}
  MaxConnections = 3
PROPERTIES
  WriteEnds
CHECK_DEADLOCK FALSE
