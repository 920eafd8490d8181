CONSTANTS
  small = small
  large = large
  Threads = {t1, t2}
  Strand = strand
  Events <- MCEvents
  Size <- MCSize
  MaxPending = 3
  Handlers = {h1}
  None = none
  End = end
  Bodies = {TRUE, FALSE}
  KeepAlive = TRUE
  MaxSends = 2
  MaxEnds = 1
  MaxCalls = 3
SPECIFICATION FairSpec
INVARIANTS EventsWritten EndsOnce
PROPERTY EndReported
