\* The remote shell exits on its own: Write still queues what is typed.
CONSTANTS
  Writer = {ui}
  Chunk = {a}
  NoChunk = NoChunk
  Depth = 1
  MaxWrites = 1
  Size = {80, 132}
  EventBuffer = 1
SPECIFICATION Spec
PROPERTY DeadSessionRefuses
CHECK_DEADLOCK FALSE
