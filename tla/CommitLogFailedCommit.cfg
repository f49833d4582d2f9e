SPECIFICATION Spec
CONSTANTS
  MaxFile = 8
  NoTxn = NoTxn
  t1 = t1
  t2 = t2
  t3 = t3
  Txns <- MCTxns
  Size <- MCSize
  Undecodable = {}
  Tears = {}
  Faults = {"reread"}
  MaxFaults = 1
INVARIANTS
  FailedInvisible
CHECK_DEADLOCK FALSE
