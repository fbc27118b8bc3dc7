CONSTANTS
  Callers = {c1}
  Workers = {w1}
  Main = Main
  Nobody = Nobody
  MaxFolds = 1
  MaxTasks = 0
  EpochModulus = 64
  StoreBuffer = FALSE
  ClosuresMayPanic = TRUE
  SpinLimitsExpire = FALSE
SPECIFICATION FairSpec
CHECK_DEADLOCK FALSE
PROPERTY PoolJoins
