CONSTANTS
  Workers = 2
  MaskWidths = {2, 64}
  Capacity = 1
  Policies = {"EveryPush", "OncePerBatch", "EveryK"}
  K = 2
  MaxTasks = 3
SPECIFICATION FairSpec
CHECK_DEADLOCK FALSE
INVARIANTS
  TypeOK
  RunOnce
  HiddenTasksHaveAwakeOwners
PROPERTIES
  FoldEnds
