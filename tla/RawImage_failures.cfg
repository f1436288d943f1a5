SPECIFICATION Spec
CONSTANTS
  t1 = t1
  t2 = t2
  pool1 = pool1
  pool2 = pool2
  NoThread = NoThread
  Threads = {t1, t2}
  Base = Base
  Infos = {Base}
  Through <- ThroughBase
  SegSize <- MCSegSize
  SlotNum = 2
  Lengths <- MCLengths
  Flaky = {1, 4}
INVARIANTS
  TypeOK
  SlotsAgree
  SeekPosIsFilePos
  BytesAreRight
  SoundReadsAreFull
SYMMETRY ThreadSymmetry
