CONSTANTS
  Start <- ThreeHosts
  Other = {}
  Group <- Small
  Copies <- Second
  AdHoc = "ad hoc"
  Term <- Between
  Splits = {0, 1}
  Screens = {"normal", "half", "full"}
  Patterns = {"error"}
  MaxJoins = 1
  Lively <- All
SPECIFICATION BoundedSpec
CHECK_DEADLOCK FALSE
PROPERTIES
  FilterKeepsFocus
