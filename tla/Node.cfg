SPECIFICATION FairSpec
CONSTANTS
  s1 = s1
  s2 = s2
  r1 = r1
  r2 = r2
  r3 = r3
  k1 = k1
  Streams = {s1, s2}
  Requests = {r1, r2, r3}
  Keys = {k1}
  KeyOf <- OneKey
  ShardOf <- OneShard
  Bad = {r2}
  Batches <- Pair
  MaxEnvelopes = 2
  MailboxLimit = 1
  ChanSize = 1
  MaxBatchSize = 2
  MaxChanges = 2
  MaxIdle = 1
  MaxActors = 3
INVARIANTS TypeOK OnePlace RoutesExact NoOrphan
PROPERTIES ImplementsService Answered StopEnds
CHECK_DEADLOCK FALSE
