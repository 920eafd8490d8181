CONSTANTS
  MaxChunks = 2
  MaxParts = 2
  MaxInterim = 1
  MaxStarts = 2
  EndToEnd = {range, etag}
  HopByHop = {connection, te, transferEncoding}
  Connection = connection
  TransferEncoding = transferEncoding
  MaxEvents = 2
  MaxLen = 5
  Limits = {2, 6}
  CR = cr
  LF = lf
  B = b
  D = d
  E = e
  I = i
  None = none
SPECIFICATION MCSpec
INVARIANTS OneExchange ProxySound SubscriptionSound ParserExact
PROPERTIES CallsAnswered ProxyEnds CloseReported
CHECK_DEADLOCK FALSE
