CONSTANTS
  Frames = {m1, m2, close}
  CloseFrame = close
  Closing = closing
  Threads = {t1, t2}
  None = none
  MaxSends = 4
SPECIFICATION FairSpec
INVARIANTS FramesDelivered ReportedOnce
PROPERTY EndReported
