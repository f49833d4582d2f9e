---------------------------- MODULE MCGraphStore ----------------------------
(* Small instances of GraphStore for TLC: one edge between two nodes, the   *)
(* node views valid at time 0 only, the edge view at 0 and 1.               *)
EXTENDS GraphStore, TLC

CONSTANTS n1, n2, e1, t1, t2, t3, s1

Early  == [start |-> 0, end |-> 1]

MCOneView   == {Early}
MCEdgeViews == {[from |-> n1, to |-> n2, start |-> 0, end |-> 2]}
MCTimes     == {0, 1}

Symmetry == Permutations({t1, t2, t3})
=============================================================================
