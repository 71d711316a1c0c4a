CONSTANTS
  Producers = {p1, p2}
  MaxPuts = 2
  MaxFaults = 2
  Faults <- MCFaults
SPECIFICATION Spec
INVARIANTS
  TypeOK
  FdFollowsQueue
  ItemsOnce
PROPERTIES
  ImplementsChannel
CHECK_DEADLOCK FALSE
