\* Reconnect gives up when the old session's Close fails: the fresh one is listed and never dialled.
CONSTANTS
  Alias = {h1}
  MaxSessions = 2
  MaxParallelDials = 1
SPECIFICATION Spec
INVARIANTS
  PendingIsOnItsWay
CHECK_DEADLOCK FALSE
