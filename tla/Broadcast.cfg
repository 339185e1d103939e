\* Two hosts that join, leave, drop and open editors while keys are sent to them.
CONSTANTS
  Host = {h1, h2}
  NoHost = NoHost
  MaxPos = 2
SYMMETRY Interchangeable
SPECIFICATION Spec
INVARIANTS
  RouterInStep
  WorkingSetBoundsSends
  ReportAddsUp
PROPERTY
  SomebodyIsDriven
