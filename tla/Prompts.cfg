SPECIFICATION FairSpec
CONSTANTS
  Pane = {p1, p2}
  NoPane = NoPane
  MaxDials = 2
  MaxParallelDials = 2
INVARIANTS
  AnswersFindTheirDial
  QuestionsAreKept
PROPERTIES
  EveryQuestionIsShown
  NoQuestionOutlivesTheRun
CHECK_DEADLOCK FALSE
