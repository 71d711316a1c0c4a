CONSTANTS
  x = x  y = y
  None = None
  Cfgs <- MCCfgs
  Extens = {e1}
  Watched = {x, y}
  MaxDials = 2
  MaxReloads = 1
  MaxEvents = 1
  MaxChanges = 2
  MaxFailures = 1
SPECIFICATION FairSpec
INVARIANTS
  SettingsAsChosen
  DeviceIsSound
  AppliedOrReset
  LampsAreTrue
PROPERTIES
  DestroyEnds
CHECK_DEADLOCK FALSE
