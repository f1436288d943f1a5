SPECIFICATION VolumesSpec
CONSTANTS
  Disks <- MCDisks
  BlockSizes <- MCSizes
  MacSizes <- MCSizes
  Programs <- MCPrograms
  Followed <- MCFollowed
  NULL = NULL
INVARIANTS
  VolumesTypeOK
  ListFillsTheDisk
  PartsAreTheTables
  OneIsLeftOpen
  UsesLiveMemory
  DisposeReleasesAll
CHECK_DEADLOCK FALSE
