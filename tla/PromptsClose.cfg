SPECIFICATION FairSpec
CONSTANTS
  Pane = {p1}
  NoPane = NoPane
  MaxDials = 1
  MaxParallelDials = 1
PROPERTIES
  CloseWithdraws
CHECK_DEADLOCK FALSE
