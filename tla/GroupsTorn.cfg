SPECIFICATION Spec
CONSTANTS
  Names = {"x", "y"}
  Resolve <- TwoHosts
  Given <- Alone
  Saved <- OneGroup
  Connects <- Connect
  Typed <- Type
  DiskFails = FALSE
  MaxOps = 2
  MaxAsked = 4
INVARIANT SavesAreNotTorn
