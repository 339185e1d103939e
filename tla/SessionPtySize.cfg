\* A resize between the PTY request and the registration of the session reaches nobody.
CONSTANTS
  Writer = {ui}
  Chunk = {a}
  NoChunk = NoChunk
  Depth = 1
  MaxWrites = 1
  Size = {80, 132}
  EventBuffer = 1
SPECIFICATION Spec
INVARIANT PtyHasTheSize
CHECK_DEADLOCK FALSE
