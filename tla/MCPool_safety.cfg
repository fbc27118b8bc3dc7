CONSTANTS
  Callers = {c1}
  Workers = {w1, w2}
  Main = Main
  Nobody = Nobody
  MaxFolds = 2
  MaxTasks = 1
  EpochModulus = 64
  StoreBuffer = FALSE
  ClosuresMayPanic = FALSE
  SpinLimitsExpire = FALSE
SPECIFICATION Spec
SYMMETRY Symmetry
INVARIANTS
  TypeOK
  NoDangling
  ProtocolInv
  IdleCountExact
  NoSleepThroughEnd
