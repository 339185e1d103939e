SPECIFICATION Spec
CONSTANTS
  h1 = h1
  h2 = h2
  h3 = h3
  Panes <- ThreePanes
  Keys = {"enter", "esc"}
  Pasted = {2}
  Clicks <- FewClicks
  MaxLine = 0
  MaxLog = 1
PROPERTIES ScriptsAreHeld PasteReachesCounted
CHECK_DEADLOCK FALSE
