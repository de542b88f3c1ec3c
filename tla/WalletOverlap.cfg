SPECIFICATION RecSpec
CONSTANTS
  t1 = t1
  t2 = t2
  t3 = t3
  t4 = t4
  NoTx = NoTx
  Actors = {a1, a2}
  Tx = {t1, t2, t3}
  Short = {}
  Amount <- MCOverlapAmount
  MaxInt64 = 3
  TxCacheSize = 1
  SnapshotThreshold = 2
  LateWrites = TRUE
  MaxVersion = 2
  MaxWrites = 4
SYMMETRY MCSymmetry
VIEW MCView
INVARIANT RecTypeOK
INVARIANT NoVersionGap
INVARIANT RecGrounded
PROPERTY CompensationRestores
