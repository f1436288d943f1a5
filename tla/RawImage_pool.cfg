SPECIFICATION Spec
CONSTANTS
  t1 = t1
  t2 = t2
  pool1 = pool1
  pool2 = pool2
  NoThread = NoThread
  Threads = {t1, t2}
  Base = Base
  Infos = {Base, pool1, pool2}
  Through <- ThroughPools
  SegSize <- MCSegSize
  SlotNum = 2
  Lengths <- MCLengths
  Flaky = {}
INVARIANT
  RawReadIsUnderLock
