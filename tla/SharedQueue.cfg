CONSTANTS
  Threads = {p1, p2}
  Kinds = {"Arena", "ContArena"}
  SegmentSize = 1
  MaxSegments = 2
  MaxPushes = 3
  MaxAllocs = 3
  None = None
SPECIFICATION FairSpec
CHECK_DEADLOCK FALSE
INVARIANTS
  TypeOK
  NothingStranded
  TaskFindsItsNode
  
PROPERTIES
  HandedOutOnce
  EveryTaskIsTaken
