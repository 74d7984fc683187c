CONSTANTS
  Browsers = {"b"}
  Ids = {"u"}
  Shards = {"s"}
  GetShard <- OneShard
  MaxRequests = 3
  RequestKinds <- MainKinds
  Overlap = FALSE
  LogsInAgain = TRUE
  None = None
SPECIFICATION Spec
INVARIANT NoConnectionLeft
CHECK_DEADLOCK FALSE
