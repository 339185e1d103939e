CONSTANTS
  Dial = {d1, d2}
  Machine = {m1}
  Setups <- KeysOrSecrets
  MaxTries = 2
  MaxEdits = 1
SPECIFICATION Spec
INVARIANT OnePromptPerKey
CHECK_DEADLOCK FALSE
