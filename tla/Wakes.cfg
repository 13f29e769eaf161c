SPECIFICATION WakesSpec
CONSTANTS
  Attempts = {a1}
  MAX_FEATURE_LIST_PAGES = 2
  MaxStray = 2
  CYCLE_COUNT = 3
  RETRY_COUNT = 3
  MaxUnread = 1
INVARIANTS AnswersStandUp ExitLeavesNoChild HandoffIsClean OutcomesAreTrue
PROPERTIES EachWakeEnds
CHECK_DEADLOCK FALSE
