SPECIFICATION Spec
CONSTANTS
  h1 = h1
  h2 = h2
  h3 = h3
  Panes <- TwoPanes
  Keys = {"enter", ":", "a", "m"}
  Pasted = {}
  Clicks <- FewClicks
  MaxLine = 0
  MaxLog = 3
PROPERTY MissingRunsOnce
CHECK_DEADLOCK FALSE
