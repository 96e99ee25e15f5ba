SPECIFICATION Spec
CONSTANTS
  Texts = {0, 1, 2}
  Names = {"x", "y"}
  MaxInt <- FiveBits
  MaxUInt <- UnsignedFiveBits
  Floats <- ThreeBitFloats
  EvenFloats <- EvenThreeBitFloats
  Profiles <- PinnedProfiles
  ArgumentsFor <- SomeArguments
  BodiesFor <- SomeBodies
INVARIANTS CallerOnlyNarrows
CHECK_DEADLOCK FALSE
