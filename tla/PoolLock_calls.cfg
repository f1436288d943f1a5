SPECIFICATION FairSpec
CONSTANTS
  t1 = t1
  t2 = t2
  s1 = s1
  n1 = n1
  f1 = f1
  NoFile = NoFile
  Threads = {t1, t2}
  FileSystems = {s1, n1}
  PoolFs = {s1}
  Files = {f1}
  FsOf <- MCFsOneFile
  MaxNesting = 2
INVARIANTS
  TypeOK
  LockedCallsExclude
  PermitConserved
  NoSelfDeadlock
PROPERTIES
  HolderReturns
  WaitersProgress
  LostOnlyByUnprotected
CHECK_DEADLOCK FALSE
