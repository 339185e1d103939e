\* One session, one writer with one chunk, a window that grows once and an event
\* channel of one; Close, a resize and the loss of the host at every point.
CONSTANTS
  Writer = {ui}
  Chunk = {a}
  NoChunk = NoChunk
  Depth = 1
  MaxWrites = 1
  Size = {80, 132}
  EventBuffer = 1
SPECIFICATION FairSpec
INVARIANT
  UsableOrReleased
PROPERTIES
  FinalStateSticks
  QueueContract
  StartNotHeldByUI
  EndIsReported
  CloseReturnsWithClient
CHECK_DEADLOCK FALSE
