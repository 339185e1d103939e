\* A wrong password stays in the cache.
CONSTANTS
  Dial = {d1, d2}
  Machine = {m1}
  Setups <- KeysOrSecrets
  MaxTries = 2
  MaxEdits = 2
SPECIFICATION FairSpec
PROPERTY WrongPasswordLeaves
CHECK_DEADLOCK FALSE
