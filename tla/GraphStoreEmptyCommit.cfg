SPECIFICATION Spec
CONSTANTS
  n1 = n1
  n2 = n2
  e1 = e1
  t1 = t1
  t2 = t2
  t3 = t3
  s1 = s1
  Absent = Absent
  NoTxn = NoTxn
  Nodes = {n1, n2}
  Edges = {e1}
  NodeViews <- MCOneView
  EdgeViews <- MCEdgeViews
  Times <- MCTimes
  Txns = {t1, t2}
  Subscribers = {s1}
  MaxCommit = 2
  MaxOps = 1
INVARIANTS
  ChangeLogSurvivesReopen
