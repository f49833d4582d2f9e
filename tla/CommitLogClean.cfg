SPECIFICATION Spec
CONSTANTS
  MaxFile = 8
  NoTxn = NoTxn
  t1 = t1
  t2 = t2
  t3 = t3
  Txns <- MCTxns
  Size <- MCSize
  Undecodable = {}
  Tears = {}
  Faults = {"crash", "write"}
  MaxFaults = 3
INVARIANTS
  LiveEqualsDurable
  FailedInvisible
PROPERTIES
  ImplementsAtomicLog
CHECK_DEADLOCK FALSE
