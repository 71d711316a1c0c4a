CONSTANTS
  Subchans = {s1, s2}
  Chans = {c1, c2}
  NULL = NULL
  Features <- OtherUses
  RingIsPrompt = TRUE
  MaxAcks = 1
  MaxOoms = 1
SPECIFICATION FairSpec
INVARIANTS
  CallBeingPlacedIsListed
  FwdTimerInInput
PROPERTIES
  DestroyedIsFreed
CHECK_DEADLOCK FALSE
