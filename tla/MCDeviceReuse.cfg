CONSTANTS
  Subchans = {s1, s2}
  Chans = {c1, c2}
  NULL = NULL
  Features <- Reuse
  RingIsPrompt = FALSE
  MaxAcks = 1
  MaxOoms = 0
SPECIFICATION Spec
INVARIANT NoSecondChannel
CHECK_DEADLOCK FALSE
