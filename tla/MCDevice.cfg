CONSTANTS
  Subchans = {s1, s2, s3}
  Chans = {c1, c2}
  NULL = NULL
  Features <- Calls
  RingIsPrompt = TRUE
  MaxAcks = 1
  MaxOoms = 0
SPECIFICATION Spec
SYMMETRY Symmetry
INVARIANTS
  ListIsSound
  RefsMatchHolders
  TimersAreSafe
  TransferPairs
  NothingLeftInDestructor
CHECK_DEADLOCK FALSE
