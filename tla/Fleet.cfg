\* One alias listed repeatedly, three incarnations, one dial slot: clones, overlapping reconnects, removals.
CONSTANTS
  Alias = {h1}
  MaxSessions = 3
  MaxParallelDials = 1
SPECIFICATION Spec
INVARIANTS
  OneFleet
  OneTerminalPerPane
PROPERTIES
  OrderStable
CHECK_DEADLOCK FALSE
