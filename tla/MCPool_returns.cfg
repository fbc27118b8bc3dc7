CONSTANTS
  Callers = {c1, c2}
  Workers = {w1}
  Main = Main
  Nobody = Nobody
  MaxFolds = 2
  MaxTasks = 1
  EpochModulus = 64
  StoreBuffer = FALSE
  ClosuresMayPanic = FALSE
  SpinLimitsExpire = FALSE
SPECIFICATION FairSpec
PROPERTIES
  FoldReturns
  PoolJoins
