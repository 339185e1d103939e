\* Close during the last steps of Start finds no client, and waits for readers nobody stops.
CONSTANTS
  Writer = {ui}
  Chunk = {a}
  NoChunk = NoChunk
  Depth = 1
  MaxWrites = 1
  Size = {80}
  EventBuffer = 1
SPECIFICATION FairSpec
PROPERTY CloseAlwaysReturns
CHECK_DEADLOCK FALSE
