SPECIFICATION Spec
CONSTANTS
  MaxEvents = 1
  Budgets = {9}
  YieldEvery = 1
  MaxCalls = 4
CHECK_DEADLOCK FALSE
INVARIANTS FailureRecoverable
