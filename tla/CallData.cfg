SPECIFICATION Spec
CONSTANTS
  Texts = {0, 1, 2}
  Names = {"x", "y"}
  MaxInt <- FiveBits
  MaxUInt <- UnsignedFiveBits
  Floats <- ThreeBitFloats
  EvenFloats <- EvenThreeBitFloats
  Profiles <- AllProfiles
  ArgumentsFor <- SomeArguments
  BodiesFor <- SomeBodies
INVARIANTS TypeOK FixedFiltersHold SchemaNamesWhatMatters IntegersAreExact OrderIsKept RowsMatchBody
CHECK_DEADLOCK FALSE
