CONSTANTS
  Requests <- MCStreamRequests
  None = none
  Limit = 2
  MaxRequests = 2
  PostMayThrow = FALSE
SPECIFICATION Spec
INVARIANT RequestBoundary
