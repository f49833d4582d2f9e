---------------------------- MODULE GraphValues ----------------------------
(***************************************************************************)
(* Graph data without versions: what a graph is, and what of it is visible *)
(* at a valid time.  Labels, types and properties do not decide visibility *)
(* and are left out; a node view is its interval, an edge view its         *)
(* endpoints and interval.                                                 *)
(***************************************************************************)
EXTENDS Integers

CONSTANTS Nodes, Edges,
  Absent   \* no view: never put, or deleted

\* Interval::contains: the start is inside, the end is not.
Covers(view, t) == view.start <= t /\ t < view.end

EmptyGraph == [node |-> [n \in Nodes |-> Absent], edge |-> [e \in Edges |-> Absent]]

Present(g, n) == g.node[n] # Absent

\* An edge is visible only together with both of its endpoints.
Visible(g, t) ==
  LET active == {n \in Nodes : g.node[n] # Absent /\ Covers(g.node[n], t)}
  IN  [nodes |-> active,
       edges |-> {e \in Edges : /\ g.edge[e] # Absent /\ Covers(g.edge[e], t)
                                /\ {g.edge[e].from, g.edge[e].to} \subseteq active}]
=============================================================================
