\* One queue, two goroutines typing into it, two kinds of chunk, a backlog of
\* two: the backlog fills, the host stalls, the transport dies at every point.
CONSTANTS
  Writer = {ui, reply}
  Chunk = {a, b}
  NoChunk = NoChunk
  Depth = 2
  MaxWrites = 4
SPECIFICATION FairSpec
INVARIANT
  BytesInOrder
PROPERTIES
  ErrorIsTerminal
  WritersNeverBlock
  ShutdownReleasesDrain
CHECK_DEADLOCK FALSE
