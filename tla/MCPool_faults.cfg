CONSTANTS
  Callers = {c1, c2}
  Workers = {w1}
  Main = Main
  Nobody = Nobody
  MaxFolds = 2
  MaxTasks = 1
  EpochModulus = 64
  StoreBuffer = TRUE
  ClosuresMayPanic = TRUE
  SpinLimitsExpire = TRUE
SPECIFICATION Spec
SYMMETRY Symmetry
CHECK_DEADLOCK FALSE
INVARIANTS InJobExact EveryWorkerEnlisted
PROPERTY PoisonedPoolIsSilent
