CONSTANTS
  Callers = {c1}
  Workers = {w1}
  Main = Main
  Nobody = Nobody
  MaxFolds = 1
  MaxTasks = 0
  EpochModulus = 64
  StoreBuffer = TRUE
  ClosuresMayPanic = FALSE
  SpinLimitsExpire = FALSE
SPECIFICATION Spec
INVARIANT NoDangling
