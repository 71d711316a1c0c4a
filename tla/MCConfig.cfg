CONSTANTS
  d1 = d1  d2 = d2  guest = guest  other = other
  l1 = l1  l2 = l2  s1 = s1  s2 = s2
  None = None
  Devices <- MCDevices
  Guest = guest
  Lines <- MCLines
  SpeedDials <- MCSpeedDials
  Files <- MCFiles
  Phones <- MCPhones
  LastLoad = 3
  MaxOoms = 1
SPECIFICATION Spec
INVARIANTS
  ReferencesAreSound
  LinesHaveOneDevice
  AppliedAsWritten
CHECK_DEADLOCK FALSE
