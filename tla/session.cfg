SPECIFICATION FairSpec
CONSTANTS
  MaxEvents = 3
  Budgets = {1, 9}
  YieldEvery = 1
  MaxCalls = 4
CHECK_DEADLOCK FALSE
INVARIANTS SessionAgrees
PROPERTIES PauseStops EveryRequestSettled
