SPECIFICATION Spec
CONSTANTS
  MaxFile = 8
  NoTxn = NoTxn
  t1 = t1
  t2 = t2
  t3 = t3
  Txns <- MCTxns
  Size <- MCSize
  Undecodable = {t2}
  Tears = {0, 1, 4}
  Faults = {"crash", "write", "reread", "patch"}
  MaxFaults = 2
INVARIANTS
  TypeOK
  RecoveredWhole
  AckedSurviveUntilTear
  HeaderNeverAhead
PROPERTIES
  RecoverableNeverRewritten
CHECK_DEADLOCK FALSE
