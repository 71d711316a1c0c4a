CONSTANTS
  Sessions = {s1, s2}
  MaxReloads = 1
  MaxDebugs = 0
  MaxCalls = 1
  MaxFaults = 1
  StopFaults <- NoFaults
  MainFaults <- AllocFaults
  ServerFaults <- AllocFaults
  SessionFaults <- NoFaults
SPECIFICATION FairSpec
PROPERTIES
  ReloadIsApplied
  DestroyTerminates
  EndedIsReaped
CHECK_DEADLOCK FALSE
