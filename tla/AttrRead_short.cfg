SPECIFICATION Spec
CONSTANTS
  BlockSize = 2
  FsBytes = 13
  Attributes <- MCAttributes
  Offsets <- MCOffsets
  Lengths <- MCLengths
INVARIANT
  ReturnsNumberOfBytesRead
CHECK_DEADLOCK FALSE
