SPECIFICATION Spec
CONSTANTS
  s1 = s1
  s2 = s2
  r1 = r1
  r2 = r2
  r3 = r3
  k1 = k1
  Streams = {s1, s2}
  Requests = {r1, r2}
  Keys = {k1}
  KeyOf <- OneKey
  ShardOf <- OneShard
  Bad = {}
  Batches <- Single
  MaxEnvelopes = 2
  MailboxLimit = 2
  ChanSize = 2
  MaxBatchSize = 2
  MaxChanges = 0
  MaxIdle = 0
  MaxActors = 1
INVARIANT StopFlushesResults
CHECK_DEADLOCK FALSE
