CONSTANTS
  Threads = {t1, t2, t3}
  NoPath = nopath
  MaxAdds = 2
  N = 3
  Handlers = 2
  Names = {"a", "b"}
  MaxParts = 2
  MaxData = 2
SPECIFICATION MCSpec
INVARIANTS RoutesServe DocumentMatches StaticFirst ChainSound FormExact
PROPERTIES RegistrationKeeps AddCompletes Dispatched
CHECK_DEADLOCK FALSE
