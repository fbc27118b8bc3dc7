CONSTANTS
  Total = 3
  InitialCap = 2
  Settings <- StaleWalk
SPECIFICATION Spec
INVARIANTS
  ExactlyOneFinalizer
