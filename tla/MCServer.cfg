CONSTANTS
  Sessions = {s1, s2}
  MaxReloads = 2
  MaxDebugs = 1
  MaxCalls = 2
  MaxFaults = 1
  StopFaults <- AllFaults
  MainFaults <- AllFaults
  ServerFaults <- AllFaults
  SessionFaults <- AllFaults
SPECIFICATION Spec
SYMMETRY Symmetry
INVARIANTS
  SessionsAreKnown
  RefsMatchHolders
  NewestIsPending
PROPERTIES
  ConfigOnlyAdvances
CHECK_DEADLOCK FALSE
