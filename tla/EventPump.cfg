\* A channel of two, so that state hints meet a channel full of output, and two commands,
\* under the fairness of the goroutines and the event loop.
CONSTANTS
  EventBuffer = 2
  MaxChanges = 3
  MaxCommands = 2
SPECIFICATION FairSpec
INVARIANT
  StalenessIsHinted
PROPERTY KeptHintRefreshes
