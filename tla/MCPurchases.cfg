SPECIFICATION Spec
CONSTANTS
  t1 = t1
  t2 = t2
  t3 = t3
  Txn <- MCTxn
  Sale <- MCSale
  Request = {r1, r2}
  NoReceipt = NoReceipt
  PlayConfigured = TRUE
  MayFail = TRUE
INVARIANTS
  TypeOK
  RowsBacked
  PaidUnlessLost
PROPERTY PaidOnce
