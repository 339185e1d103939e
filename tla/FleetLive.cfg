\* Two hosts, or a host and its reconnect, share one dial slot: every attempt waits for another.
CONSTANTS
  Alias = {h1}
  MaxSessions = 2
  MaxParallelDials = 1
SPECIFICATION FairSpec
PROPERTIES
  QueuedIsDialled
CHECK_DEADLOCK FALSE
