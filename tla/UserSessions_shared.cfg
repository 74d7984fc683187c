CONSTANTS
  Browsers = {"b"}
  Ids = {"u", "v"}
  Shards = {"s"}
  GetShard <- OneShard
  MaxRequests = 3
  RequestKinds <- AllKinds
  Overlap = TRUE
  LogsInAgain = FALSE
  None = None
SPECIFICATION LiveSpec
INVARIANT TypeOK
INVARIANT NoConnectionLeft
INVARIANT StoredUsers
PROPERTY CleanerSparesSeen
PROPERTY AbandonedLeave
CHECK_DEADLOCK FALSE
