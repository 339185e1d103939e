\* Two sessions of two attempts each, and one edit of the files by another program.
CONSTANTS
  Dial = {d1, d2}
  Machine = {m1}
  Setups <- KeysOrSecrets
  MaxTries = 2
  MaxEdits = 1
SPECIFICATION FairSpec
INVARIANTS EditsAreNoticed ConfirmedStays
PROPERTIES QuestionsHoldNobody WrongPhraseLeaves
CHECK_DEADLOCK FALSE
