SPECIFICATION Spec
CONSTANTS
  i1 = i1
  i2 = i2
  i3 = i3
  Configs <- BothModes
  Ids <- ThreeIds
  Keys = {1, 2, 3}
  NullSafe = TRUE
  MaxChanges = 2
INVARIANTS
  TypeOK
  StableRowsAreListedOnce
  StableRowsAreListed
  OnlyTiesAreMissed
  PagesAdvance
PROPERTY ListingEnds
CHECK_DEADLOCK FALSE
