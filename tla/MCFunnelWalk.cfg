CONSTANTS
  Nodes = {1, 2, 3, 4, 5, 6, 7, 8, 9}
  Root = 1
  Trees <- TheTrees
  Threads = {c, w1, w2}
  Caller = c
  Capacity = 2
SPECIFICATION FairSpec
INVARIANTS
  TypeOK
  LinearConts
  NothingLeft
PROPERTIES
  ComputesFold
