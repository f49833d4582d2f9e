--------------------------- MODULE TemporalGraph ---------------------------
(***************************************************************************)
(* What the store promises its users: a sequence of graphs, one for each   *)
(* commit.  A commit appends a graph and changes no earlier one, and an    *)
(* edge that a commit puts has both endpoints in the graph it makes.       *)
(* Endpoints may be deleted later: the edge then stays, invisible.         *)
(***************************************************************************)
EXTENDS GraphValues, Sequences

VARIABLE history

HeadGraph == IF history = <<>> THEN EmptyGraph ELSE history[Len(history)]

\* g is a legal successor of the head graph.
Extends(g) ==
  \A e \in Edges :
    \/ g.edge[e] = HeadGraph.edge[e]
    \/ g.edge[e] = Absent
    \/ Present(g, g.edge[e].from) /\ Present(g, g.edge[e].to)

Init == history = <<>>

Commit ==
  /\ Len(history') = Len(history) + 1
  /\ SubSeq(history', 1, Len(history)) = history
  /\ Extends(history'[Len(history')])

Spec == Init /\ [][Commit]_history
=============================================================================
