SPECIFICATION Spec
CONSTANTS
  MaxFile = 8
  NoTxn = NoTxn
  t1 = t1
  t2 = t2
  t3 = t3
  Txns <- MCTxns
  Size <- MCSize
  Undecodable = {}
  Tears = {0, 1, 4}
  Faults = {"crash"}
  MaxFaults = 1
INVARIANTS
  AckedAlwaysRecovered
CHECK_DEADLOCK FALSE
