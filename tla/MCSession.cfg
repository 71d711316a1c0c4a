CONSTANTS
  Claims = {1, 2, 7}
  Header = 1
  MinTotal = 2
  MaxTotal = 3
  BufSize = 4
  Width = 8
  Tasks <- TaskNames
  MaxDelay = 2
  AuthTimeout = 2
  KeepAlive = 2
  CallTimeout = 1
  SockSize = 4
  MaxQueue = 1
  MaxOoms = 1
SPECIFICATION FairSpec
INVARIANTS
  BufferIsSound
  TimersFollowDevice
  DropIsJustified
  CutWhereJoined
PROPERTIES
  ImplementsAlarms
  StopEndsSession
  SilentPhoneIsDropped
CHECK_DEADLOCK FALSE
