SPECIFICATION MCSpec
CONSTANTS
  p1 = p1
  p2 = p2
  n1 = n1
  n2 = n2
  n3 = n3
  Producers = {p1, p2}
  Nodes = {n1, n2, n3}
  Nil = Nil
  MayCancel = TRUE
  MaxSends <- TwoAndOne
INVARIANTS TypeOK NoLostWakeup RecycledUnused PendingExact StopHandlesBacklog
PROPERTIES ImplementsFifo AcceptedHandled StopEnds
CHECK_DEADLOCK FALSE
