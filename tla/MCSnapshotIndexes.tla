------------------------- MODULE MCSnapshotIndexes -------------------------
(* A small instance of SnapshotIndexes for TLC: a file with three nodes and *)
(* two parallel edges, whose ids are not in the order of their intervals.   *)
EXTENDS SnapshotIndexes, TLC

CONSTANTS t0, t1, t2

View(start, end, label, props) == [start |-> start, end |-> end, label |-> label, props |-> props]
Link(from, to, start, end, type) ==
  [from |-> from, to |-> to, start |-> start, end |-> end, type |-> type]

MCNodeViews == {View(0, 2, "A", "k" :> IntValue(1)), View(-1, 2, "A", "k" :> StringValue(1)),
                View(-1, 1, "B", "k" :> DoubleValue(2)), View(1, 2, "A", <<>>)}
MCEdgeViews == {Link(1, 2, 0, 1, "T"), Link(1, 2, -1, 1, "T"), Link(2, 3, -1, 2, "T"),
                Link(1, 1, 1, 2, "U")}
MCTimes == -2..2

MCFile ==
  <<[commit |-> 1, txn |-> t0,
     putNodes |-> 1 :> View(0, 2, "A", "k" :> IntValue(1)) @@ 2 :> View(-1, 2, "A", "k" :> StringValue(1))
                   @@ 3 :> View(-1, 1, "B", "k" :> DoubleValue(2)),
     putEdges |-> 1 :> Link(1, 2, 0, 1, "T") @@ 2 :> Link(1, 2, -1, 1, "T"),
     deleteNodes |-> {}, deleteEdges |-> {}]>>

MCNoFile == <<>>

MCValues == {IntValue(1), DoubleValue(2), DoubleValue(3), StringValue(1)}

\* Exact = 4 and SciFrom = 6: 5 is rounded, 6 has an exponent as a double.
OddValues == {IntValue(0), IntValue(4), IntValue(5), IntValue(6), DoubleValue(0), MinusZero,
              DoubleValue(8), DoubleValue(12), NotFinite, BoolValue(0), BoolValue(1)}

\* Stored values are finite: commit() refuses others when it reads them back.
OddNodeViews == {View(0, 1, "A", "k" :> v) : v \in OddValues \ {NotFinite}}

Symmetry == Permutations({t1, t2})
=============================================================================
