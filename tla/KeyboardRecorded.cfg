SPECIFICATION Spec
CONSTANTS
  h1 = h1
  h2 = h2
  h3 = h3
  Panes <- TwoPanes
  Keys = {"enter", "a"}
  Pasted = {}
  Clicks <- FewClicks
  MaxLine = 1
  MaxLog = 1
INVARIANT RecordedLineWasHeard
CHECK_DEADLOCK FALSE
