SPECIFICATION FairSpec
CONSTANTS
  c1 = c1
  c2 = c2
  Calls = {c1, c2}
  Fire = {c2}
  Shards = 2
  ShardOf <- OwnShard
  BatchSize = 2
  MaxStreamers = 2
  MaxFaults = 1
INVARIANTS TypeOK Resolvable SentOnce RefusedNotSent
  
CHECK_DEADLOCK FALSE
