CONSTANTS
  Requests <- MCRequests
  None = none
  Limit = 2
  MaxRequests = 2
  PostMayThrow = TRUE
SPECIFICATION FairSpec
INVARIANTS RequestSound BodyExact
PROPERTY Answered
CHECK_DEADLOCK FALSE
