SPECIFICATION FairSpec
CONSTANTS
  Names = {"x", "y"}
  Resolve <- TwoHosts
  Given <- Alone
  Saved <- OneGroup
  Connects <- Connect
  Typed <- Type
  DiskFails = TRUE
  MaxOps = 2
  MaxAsked = 4
PROPERTIES NothingReplacedUnasked OpeningDialsOnce SavingEnds
