CONSTANTS
  Users = {1, 2, 3}
  SHARD_COUNT = 2
  GetShard <- Hashed
  Clients = {c}
  None = None
SPECIFICATION LiveSpec
INVARIANT TypeOK
INVARIANT NothingMissed
INVARIANT StuckOnlyIfGrown
PROPERTY EverybodyGetsOn
CHECK_DEADLOCK FALSE
