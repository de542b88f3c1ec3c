SPECIFICATION Spec
CONSTANTS
  t1 = t1
  t2 = t2
  t3 = t3
  t4 = t4
  NoTx = NoTx
  Actors = {a1}
  Tx = {t1, t2, t3, t4}
  Short = {}
  Amount <- MCAmount
  MaxInt64 = 3
  TxCacheSize = 4
  SnapshotThreshold = 2
  LateWrites = FALSE
  MaxVersion = 5
  MaxWrites = 6
INVARIANT AppliedOnce
