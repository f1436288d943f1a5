SPECIFICATION PathSpec
CONSTANTS
  BlockSize = 2
  FsBytes = 21
  LastBlock = 10
  Modulus = 64
  Attributes <- MCAttributes
  Offsets <- MCOffsets
  Lengths <- MCLengths
  Chains <- MCChains
  Headers <- MCHeaders
INVARIANTS
  TypeOK
  ListIsContiguous
  ListHoldsWhatWasGiven
  ReadsWhatWasGiven
  ReadsAreFull
  WalkGivesTheFile
CHECK_DEADLOCK FALSE
