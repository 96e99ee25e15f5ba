SPECIFICATION Spec
CONSTANTS
  i1 = i1
  i2 = i2
  i3 = i3
  Configs <- Keysets
  Ids <- ThreeIds
  Keys = {1, 2, 3}
  NullSafe = FALSE
  MaxChanges = 1
INVARIANT StableRowsAreListed
CHECK_DEADLOCK FALSE
