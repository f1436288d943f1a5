SPECIFICATION FairSpec
CONSTANTS
  t1 = t1
  t2 = t2
  NoThread = NoThread
  NoRequest = NoRequest
  Threads = {t1, t2}
  Size = 6
  Sector = 2
  CacheLen = 3
  CacheNum = 2
  CacheAge = 1
  Offsets <- MCOffsets
  Lengths = {3}
  Damaged = {5}
  MinAge <- MCMinAge
INVARIANTS
  TypeOK
  CacheLockHeld
  CacheCoherent
  SoundReadsAreFull
  EvictsLeastRecent
PROPERTIES
  ReadsTheImage
  LockIsReleased
CHECK_DEADLOCK FALSE
