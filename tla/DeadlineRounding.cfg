SPECIFICATION Spec
CONSTANTS
  Second = 2
  Ceilings <- BetweenSeconds
  Overrides <- NoOverride
  Transit = 1
  MaxAttempts = 2
  Horizon = 6
INVARIANTS BudgetIsRoundedUp
CHECK_DEADLOCK FALSE
