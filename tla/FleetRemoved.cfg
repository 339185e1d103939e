\* A removed session that was still dialling comes up after its Close: it is connected and in no list.
CONSTANTS
  Alias = {h1}
  MaxSessions = 1
  MaxParallelDials = 1
SPECIFICATION Spec
INVARIANTS
  RemovedHoldsNothing
CHECK_DEADLOCK FALSE
