\* A host is removed, connected again and selected before its removal is reported.
CONSTANTS
  Host = {h1}
  NoHost = NoHost
  MaxPos = 1
SPECIFICATION Spec
PROPERTY ForgetsOnlyTheGone
