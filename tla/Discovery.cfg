SPECIFICATION FairSpec
CONSTANTS
  Nodes = {1, 2}
  Resolvers = {g1}
  PartitionSlots = 3
  MaxLeases = 3
  MaxStarts = 2
  MaxFaults = 1
INVARIANTS SettledRoutes KeptKeyStays
PROPERTIES GoneLeaves Reregisters Converges
CHECK_DEADLOCK FALSE
