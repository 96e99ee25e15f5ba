SPECIFICATION Spec
CONSTANTS
  Second = 2
  Ceilings <- SomeCeilings
  Overrides <- SomeOverrides
  Transit = 1
  MaxAttempts = 5
  Horizon = 6
INVARIANTS TypeOK OrphansAreShort RetriesDoNotPileUp
PROPERTIES ServerIsFreed
CHECK_DEADLOCK FALSE
