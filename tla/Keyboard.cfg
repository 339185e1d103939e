SPECIFICATION Spec
CONSTANTS
  h1 = h1
  h2 = h2
  h3 = h3
  Panes <- TwoPanes
  Keys = {"ctrl+a", "enter", "esc", ":", "S", "x", "m", "ctrl+c"}
  Pasted = {2}
  Clicks <- FewClicks
  MaxLine = 0
  MaxLog = 1
INVARIANTS OneListener
PROPERTIES KeysReachOnlyTheirHosts PasteIsReviewed
CHECK_DEADLOCK FALSE
