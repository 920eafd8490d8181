CONSTANTS
  Servers = {s1}
  Workers = {w1, w2}
  App = app
  Conns = {c1, c2}
  Idle = idle
  Jobs = {j1, j2}
  NoJob = nojob
  MaxBusy = 1
  Types = {A, B, C}
  Resolvers = {t1, t2}
  MaxEdges = 2
  Nobody = nobody
SPECIFICATION MCSpec
INVARIANTS ServerSound ChainSound ResolveSound
PROPERTIES StopEndsRun KeepsRunning ResolveEnds
CHECK_DEADLOCK FALSE
