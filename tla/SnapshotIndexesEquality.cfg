SPECIFICATION SpecExisting
CONSTANTS
  t0 = t0
  t1 = t1
  t2 = t2
  Absent = Absent
  NoTxn = NoTxn
  Nodes = {1}
  Edges = {}
  NodeViews <- OddNodeViews
  EdgeViews = {}
  Times <- MCTimes
  Txns = {t0, t1, t2}
  Subscribers = {}
  MaxCommit = 1
  MaxOps = 1
  Exact = 4
  Spacings = {1, 2}
  SciFrom = 6
  ExistingFile <- MCNoFile
  ExistingTxns = {}
  Labels = {"A", "B"}
  Types = {"T", "U"}
  Keys = {"k", "m"}
  Values <- OddValues
INVARIANTS
  EqualityIsScanEquivalent
