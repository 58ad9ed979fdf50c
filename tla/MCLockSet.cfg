SPECIFICATION Spec
CONSTANTS
  Txn = {t1,t2,t3}
  Key = {k1,k2}
  NoTxn = NoTxn
  NoKey = NoKey
  MaxCalls = 2
  MaxAlls = 1
CHECK_DEADLOCK FALSE
SYMMETRY TxnSymmetry
INVARIANTS LocksExclude ClosedHoldsNothing
