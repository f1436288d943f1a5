SPECIFICATION FlowSpec
CONSTANTS
  Length = 3
  Counts = {1, 2}
  Targets <- MCTargets
  MaxSeek = 5
  ByteBits = 2
  IntBits = 4
  Half = 8
  RunLists <- MCRunLists
  Contents <- MCContents
INVARIANTS
  TypeOK
  CopyIsInOrder
  VerdictIsRight
  ThrowsOnlyOutside
