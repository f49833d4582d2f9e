SPECIFICATION SpecExisting
SYMMETRY Symmetry
CONSTANTS
  t0 = t0
  t1 = t1
  t2 = t2
  Absent = Absent
  NoTxn = NoTxn
  Nodes = {1, 2, 3}
  Edges = {1, 2}
  NodeViews <- MCNodeViews
  EdgeViews <- MCEdgeViews
  Times <- MCTimes
  Txns = {t0, t1, t2}
  Subscribers = {}
  MaxCommit = 3
  MaxOps = 1
  Exact = 4
  Spacings = {1, 2}
  SciFrom = 6
  ExistingFile <- MCFile
  ExistingTxns = {t0}
  Labels = {"A", "B"}
  Types = {"T", "U"}
  Keys = {"k", "m"}
  Values <- MCValues
INVARIANTS
  LookupsEqualScans
  VerificationAccepts
  VerificationReachesRetained
  EqualityIsSound
