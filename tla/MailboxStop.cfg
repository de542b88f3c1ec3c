SPECIFICATION Spec
CONSTANTS
  Producers = {p1}
  p1 = p1
  p2 = p2
  n1 = n1
  n2 = n2
  n3 = n3
  Nodes = {n1, n2}
  Nil = Nil
  MayCancel = FALSE
  MaxSends <- TwoAndOne
INVARIANT StopHandlesSent
CHECK_DEADLOCK FALSE
