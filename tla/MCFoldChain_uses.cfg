CONSTANTS
  Total = 3
  InitialCap = 2
  Settings <- WalkAndTests
SPECIFICATION FairSpec
INVARIANTS
  TypeOK
  ExactlyOneFinalizer
  HeapExclusive
  NoSlotBeyondBuffers
  SetTotalNeverLast
PROPERTIES
  KeepsFairPromise
  AllCallsReturn
