SPECIFICATION FairSpec
CONSTANTS
  Stoppers = {s1, s2}
  Concurrency = 2
  BatchSize = 2
  Room = 1
  MaxRuns = 2
  MaxRequests = 2
  MaxFaults = 1
INVARIANTS TypeOK OneRun Stoppable Conserved
PROPERTIES RunEnds
CHECK_DEADLOCK FALSE
