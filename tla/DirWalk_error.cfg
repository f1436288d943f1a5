SPECIFICATION Spec
CONSTANTS
  Threads = {t1}
  Images <- MCImages
  WalkFlags <- MCWalkFlags
  MaxCalls = 1
  MaxDepth = 3
  Root = 1
  OrphanDir = 7
  MaxKey = 7
  NULL = NULL
INVARIANT ErrorEndsTheWalk
CHECK_DEADLOCK FALSE
