\* One command, and two pumps run from then on.
CONSTANTS
  EventBuffer = 1
  MaxChanges = 1
  MaxCommands = 1
SPECIFICATION EventPumpSpec
INVARIANT OnePump
