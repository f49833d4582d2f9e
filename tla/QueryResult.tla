---------------------------- MODULE QueryResult ----------------------------
(***************************************************************************)
(* What a query over one snapshot means, without the way it is executed:   *)
(* its rows, the work they cost and the longest queue they need.           *)
(*                                                                         *)
(* A query q is a record of the prepared statement, the options and the    *)
(* part of the snapshot it can see, see IsQuery.  A row is the path that   *)
(* led to it, whatever column of it is yielded.                            *)
(***************************************************************************)
EXTENDS Integers, Sequences, FiniteSets, SequencesExt

CONSTANT Rank  \* Rank[n]: the place of node id n in the order of decimal strings

\* Different ids have different decimal strings.
ASSUME RankAssumption ==
  \A m, n \in DOMAIN Rank : Rank[m] \in Int /\ (Rank[m] = Rank[n] => m = n)

BadCost == -1

Modes == {"scan", "step", "path"}

IsQuery(q) ==
  \* The statement, the execution mode and QueryLimits.
  /\ q.mode \in Modes /\ q.direction \in {"out", "in"} /\ q.hops \in Nat
  /\ {q.costed, q.desc, q.parallel} \subseteq BOOLEAN
  /\ {q.row, q.work, q.frontier, q.hopLimit} \subseteq Nat
  /\ q.where \in {"none", "equal", "compare", "unbound"}
  \* For each visible node "other" (another label), or what the predicate says.
  /\ IsFiniteSet(DOMAIN q.verdict) /\ DOMAIN q.verdict \subseteq (Nat \ {0}) \intersect DOMAIN Rank
  /\ \A n \in DOMAIN q.verdict : q.verdict[n] \in {"other", "yes", "no", "error"}
  /\ q.where # "compare" => \A n \in DOMAIN q.verdict : q.verdict[n] # "error"
  \* The visible edges of the queried type, by id, between visible nodes, and
  \* BadCost where edge_cost reports an error.
  /\ DOMAIN q.edges = 1..Len(q.edges) /\ Len(q.edges) \in Nat
  /\ \A e \in DOMAIN q.edges : {q.edges[e].from, q.edges[e].to} \subseteq DOMAIN q.verdict
                               /\ q.edges[e].cost \in Int

Source(q, e) == IF q.direction = "out" THEN q.edges[e].from ELSE q.edges[e].to
Target(q, e) == IF q.direction = "out" THEN q.edges[e].to ELSE q.edges[e].from

\* The elements of S in order, where before[x] is the set of those before x.
Listed(S, before) ==
  [i \in 1..Cardinality(S) |-> CHOOSE x \in S : Cardinality(before[x]) = i - 1]

Ascending(S) == Listed(S, [x \in S |-> {y \in S : y < x}])

\* The sum of a sequence of numbers.
Total(s) ==
  LET sum[n \in 0..Len(s)] == IF n = 0 THEN 0 ELSE sum[n - 1] + s[n]
  IN  sum[Len(s)]

\* out_edges and in_edges: the snapshot keeps its edges sorted by id.
Adjacent(q, n) == Ascending({e \in DOMAIN q.edges : Source(q, e) = n})

Start(n) == [seed |-> n, edges |-> <<>>]
Along(p, e) == [p EXCEPT !.edges = Append(@, e)]
NodesOf(q, p) == <<p.seed>> \o [i \in DOMAIN p.edges |-> Target(q, p.edges[i])]
EndOf(q, p) == Last(NodesOf(q, p))
PathCost(q, p) == Total([i \in DOMAIN p.edges |-> q.edges[p.edges[i]].cost])

\* Continuation keys are compared as strings: "-" sorts before every digit.
KeyLess(s, t) ==
  \E i \in 1..Len(t) :
    /\ \A j \in 1..(i-1) : j <= Len(s) /\ s[j] = t[j]
    /\ i <= Len(s) => Rank[s[i]] < Rank[t[i]]

-----------------------------------------------------------------------------
(***************************************************************************)
(* The reference result.                                                   *)
(***************************************************************************)
SeedSet(q) == {n \in DOMAIN q.verdict : q.verdict[n] = "yes"}

MaxEdges(q) == CASE q.mode = "scan" -> 0 [] q.mode = "step" -> 1 [] q.mode = "path" -> q.hops

\* A path search visits no node twice on one path; a step may be a self-loop.
IsPath(q, p) ==
  LET nodes == NodesOf(q, p)
  IN  /\ \A i \in DOMAIN p.edges : Source(q, p.edges[i]) = nodes[i]
      /\ q.mode = "path" => \A i, j \in DOMAIN nodes : nodes[i] = nodes[j] => i = j

\* Every path from a seed, the empty ones included.
Paths(q) ==
  {p \in [seed : SeedSet(q), edges : UNION {[1..n -> DOMAIN q.edges] : n \in 0..MaxEdges(q)}] :
     IsPath(q, p)}

\* A scan yields the seeds, the other modes every path of at least one edge.
AllRows(q) == {p \in Paths(q) : q.mode = "scan" \/ p.edges # <<>>}

\* By seed, by length and then by edge ids.
Before(p, r) ==
  \/ p.seed < r.seed
  \/ /\ p.seed = r.seed
     /\ \/ Len(p.edges) < Len(r.edges)
        \/ /\ Len(p.edges) = Len(r.edges)
           /\ \E i \in DOMAIN p.edges :
                /\ p.edges[i] < r.edges[i]
                /\ \A j \in 1..(i-1) : p.edges[j] = r.edges[j]

Parent(r) == [r EXCEPT !.edges = Front(@)]

\* A step expands the seeds only, a path search every path it finds.
Expanded(q) == {p \in Paths(q) : q.mode = "path" \/ p.edges = <<>>}

\* The edges looked at: those at the end of an expanded path below the bound.
Looked(q) ==
  {l \in Expanded(q) \X DOMAIN q.edges :
     Len(l[1].edges) < MaxEdges(q) /\ Source(q, l[2]) = EndOf(q, l[1])}

\* A unit for each path that is expanded, edge that is looked at, and row.
AllWork(q) ==
  IF q.mode = "scan" THEN Cardinality(AllRows(q))
  ELSE Cardinality(Expanded(q)) + Cardinality(Looked(q)) + Cardinality(AllRows(q))

\* The paths that wait in the queue when r is about to join them.
Waiting(q, r) ==
  {p \in Paths(q) : p.seed = r.seed /\ Before(Parent(r), p) /\ Before(p, r)}

FrontierFits(q) ==
  q.mode = "path" =>
    /\ SeedSet(q) # {} => q.frontier > 0
    /\ \A r \in AllRows(q) : Cardinality(Waiting(q, r)) < q.frontier

CostsUsable(q) ==
  q.mode = "path" /\ q.costed => \A r \in AllRows(q) : q.edges[Last(r.edges)].cost # BadCost

PredicateUsable(q) ==
  /\ q.where # "unbound"
  /\ \A n \in DOMAIN q.verdict : q.verdict[n] # "error"

Fits(q) == [rows     |-> Cardinality(AllRows(q)) <= q.row,
            work     |-> AllWork(q) <= q.work,
            frontier |-> FrontierFits(q),
            hops     |-> q.mode = "path" => q.hops <= q.hopLimit,
            type     |-> PredicateUsable(q) /\ CostsUsable(q)]

\* A row follows another by cost and key, or in the order of the search.
InOrder(q, p, r) ==
  IF q.mode = "path" /\ q.costed
  THEN \/ PathCost(q, p) < PathCost(q, r)
       \/ PathCost(q, p) = PathCost(q, r) /\ ~KeyLess(NodesOf(q, r), NodesOf(q, p))
  ELSE Before(p, r)

\* Every row once, in the order the statement asks for.
IsResult(q, rows) ==
  /\ ToSet(rows) = AllRows(q) /\ Len(rows) = Cardinality(AllRows(q))
  /\ \A i, j \in DOMAIN rows :
       i < j => IF q.desc THEN InOrder(q, rows[j], rows[i]) ELSE InOrder(q, rows[i], rows[j])
=============================================================================
