\* A reload that saw no file overwrites one that read the file that has come since.
CONSTANTS
  Dial = {d1, d2}
  Machine = {m1}
  Setups <- KeysOrSecrets
  MaxTries = 2
  MaxEdits = 2
SPECIFICATION Spec
INVARIANT CurrentFileIsUsed
CHECK_DEADLOCK FALSE
