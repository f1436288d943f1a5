SPECIFICATION Spec
CONSTANTS
  Threads = {t1, t2}
  Images <- MCImages
  WalkFlags <- MCWalkFlags
  MaxCalls = 1
  MaxDepth = 3
  Root = 1
  OrphanDir = 7
  MaxKey = 7
  NULL = NULL
INVARIANTS
  TypeOK
  WalkSeesAll
PROPERTIES
  OrphansSpec
  CallsReturn
CHECK_DEADLOCK FALSE
