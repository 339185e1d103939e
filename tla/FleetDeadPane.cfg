\* Close, then Reconnect: the fresh session adopts the emulator the Close has shut.
CONSTANTS
  Alias = {h1}
  MaxSessions = 2
  MaxParallelDials = 1
SPECIFICATION Spec
INVARIANTS
  PaneTakesKeys
CHECK_DEADLOCK FALSE
