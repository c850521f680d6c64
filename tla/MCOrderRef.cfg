SPECIFICATION Spec
CONSTANTS
  Base = 600000
  Config <- MCConfig
  Stray = 1
  Fronts = 2
  SessionMax = 4
  MaxRequest = 6
INVARIANTS
  AnswerToOwnStock
  FoundOnceRecorded
  LocalIdsFresh
CHECK_DEADLOCK FALSE
