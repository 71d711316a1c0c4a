CONSTANTS
  Claims = {1, 2, 4}
  Header = 1
  MinTotal = 2
  MaxTotal = 3
  BufSize = 4
  Width = 8
  Tasks <- TaskNames
  MaxDelay = 1
  AuthTimeout = 1
  KeepAlive = 1
  CallTimeout = 1
  SockSize = 5
  MaxQueue = 0
  MaxOoms = 0
SPECIFICATION Spec
INVARIANT FullIsTooBig
CHECK_DEADLOCK FALSE
