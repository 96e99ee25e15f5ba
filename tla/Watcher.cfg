SPECIFICATION Spec
CONSTANTS
  WatchSpecs <- OneColumnSpecs
  MaxMark = 3
  MaxWrites = 4
INVARIANTS
  TypeOK
  NoSpuriousSignal
PROPERTIES
  ChangeIsSignalled
  CancelledWatcherStops
CHECK_DEADLOCK FALSE
