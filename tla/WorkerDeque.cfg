CONSTANTS
  Owner = Owner
  Thieves = {p1, p2}
  Capacity = 2
  MaxTasks = 3
SPECIFICATION Spec
INVARIANTS
  TypeOK
  NothingLost
PROPERTIES
  Linearizable
