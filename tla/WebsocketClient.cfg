CONSTANTS
  Closing = closing
  CloseCall = close
  None = none
  MaxConnects = 2
  MaxSends = 2
  MaxCloses = 1
  MaxCalls = 3
SPECIFICATION FairSpec
INVARIANTS ConnectionSound OneLateCallback
PROPERTY EndsReported
CHECK_DEADLOCK FALSE
