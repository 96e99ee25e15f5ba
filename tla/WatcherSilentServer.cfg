SPECIFICATION SilentServerSpec
CONSTANTS
  WatchSpecs <- OneColumnSpecs
  MaxMark = 2
  MaxWrites = 2
PROPERTY TickEndsInBudget
CHECK_DEADLOCK FALSE
