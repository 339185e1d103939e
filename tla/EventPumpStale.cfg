\* A state hint dropped behind a burst of output: the status bar stays wrong.
CONSTANTS
  EventBuffer = 1
  MaxChanges = 1
  MaxCommands = 0
SPECIFICATION FairSpec
PROPERTY SnapshotCatchesUp
