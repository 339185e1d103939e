\* An attempt that never ends holds the only slot: the next host is not dialled.
CONSTANTS
  Alias = {h1}
  MaxSessions = 2
  MaxParallelDials = 1
SPECIFICATION FairSpec
PROPERTIES
  SlowDelaysOnlyItself
CHECK_DEADLOCK FALSE
