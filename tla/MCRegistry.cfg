CONSTANTS
  Sessions = {s1, s2, s3}
  Lookups = {l1}
  Devices = {d1, d2, d3}
  phoneA = phoneA
  phoneB = phoneB
  Names = {phoneA, phoneB}
  line1 = line1
  line2 = line2
  Lines = {line1, line2}
  None = None
  LastCfg = 1
  DeviceLine <- MCDeviceLine
  GuestLine <- MCGuestLine
  MaxGuests <- MCMaxGuests
SPECIFICATION Spec
SYMMETRY Symmetry
INVARIANTS
  TypeOK
  ContentsAgree
  GuestsAreCounted
  RegisteredIsAlive
  RefsMatchHolders
PROPERTIES
  GuestsAreLimited
CHECK_DEADLOCK FALSE
