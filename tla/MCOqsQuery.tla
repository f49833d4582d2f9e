----------------------------- MODULE MCOqsQuery -----------------------------
(* Instances of OqsQuery for TLC.  The graph has a cycle, two parallel      *)
(* edges, a self-loop, edges of another type and ids whose decimal strings  *)
(* sort otherwise than the numbers ("10" before "2").                       *)
EXTENDS OqsQuery

MCRank == 1 :> 1 @@ 10 :> 2 @@ 11 :> 3 @@ 2 :> 4 @@ 3 :> 5

\* Rows of equal cost and key stay as they are, or are turned round.
MCTies == {<<>>, [i \in 1..20 |-> -i]}

\* Spellings.
MCUpper == "from" :> "FROM" @@ "Where" :> "WHERE" @@ "yield" :> "YIELD" @@ "node" :> "NODE"
             @@ "edge" :> "EDGE" @@ "path" :> "PATH" @@ "id" :> "ID" @@ "out" :> "OUT"
             @@ "true" :> "TRUE" @@ "False" :> "FALSE"
MCNumber == "0" :> IntValue(0) @@ "1" :> IntValue(1) @@ "2" :> IntValue(2) @@ "3" :> IntValue(3)
              @@ "4" :> IntValue(4) @@ "5" :> IntValue(5) @@ "-5" :> IntValue(-5)
              @@ "2.5" :> DoubleValue(5) @@ "." :> Throws @@ "99999999999999999999" :> Throws
MCDigits == "0" :> 0 @@ "1" :> 1 @@ "2" :> 2 @@ "3" :> 3 @@ "4" :> 4 @@ "5" :> 5 @@ "" :> 0
              @@ "99999999999999999999" :> Overflow
MCParameter == "$" :> "" @@ "$p" :> "p" @@ "$q" :> "q"
OtherSpellings ==
  {"abc", "k", "c", "A", "T", "AT", "COMMIT", "TIME", "FROM", "WHERE", "STEP", "PATH", "HOPS",
   "COST", "YIELD", "ORDER", "ASC", "DESC", "OUT", "IN", "from", "yield", "node", "edge", "path",
   "id", "out", "Where", "", "=", "<", ">="}
MCPlace == [t \in OtherSpellings |-> IF t = "" THEN 0 ELSE IF t = "abc" THEN 2 ELSE 1]

\* The graphs.
Edge(from, to, cost) == [from |-> from, to |-> to, type |-> "T", props |-> "c" :> cost]
OtherEdge(from, to) == [from |-> from, to |-> to, type |-> "U", props |-> <<>>]

UnusableCosts == {StringValue(1), IntValue(-1)}

\* Costs 2, 2, 0, 1, 2, 1, two of them doubles; edge e unusable if e > 0.
CyclicEdges(e, bad) ==
  LET good == <<IntValue(2), DoubleValue(4), MinusZero, IntValue(1), IntValue(2), DoubleValue(2)>>
      cost(i) == IF i = e THEN bad ELSE good[i]
  IN  <<OtherEdge(1, 2), Edge(1, 2, cost(1)), Edge(1, 10, cost(2)), Edge(2, 10, cost(3)),
        Edge(10, 1, cost(4)), Edge(1, 2, cost(5)), OtherEdge(10, 2), Edge(2, 2, cost(6))>>

FanEdges == [i \in 1..5 |-> Edge(<<1, 2, 3, 10, 11>>[i], <<10, 10, 1, 1, 11>>[i], IntValue(1))]

Node(label, k) == [label |-> label, props |-> "k" :> k]
SomeNodes(ids, odd) == [n \in ids |-> IF n \in DOMAIN odd THEN odd[n] ELSE Node("A", IntValue(3))]

CyclicGraph(odd) == [nodes |-> SomeNodes({1, 2, 10}, odd), edges |-> CyclicEdges(0, MinusZero)]
Unusable(odd, e, bad) == [nodes |-> SomeNodes({1, 2, 10}, odd), edges |-> CyclicEdges(e, bad)]
FanGraph == [nodes |-> SomeNodes({1, 2, 3, 10, 11}, <<>>), edges |-> FanEdges]
TinyGraph == [nodes |-> 1 :> Node("A", IntValue(5)) @@ 2 :> [label |-> "FROM", props |-> <<>>],
              edges |-> <<Edge(1, 2, IntValue(1))>>]

\* Another label, another value and none, and a value of another type.
Odd == {<<>>, 2 :> Node("A", IntValue(4)),
        1 :> Node("B", IntValue(3)) @@ 10 :> [label |-> "A", props |-> <<>>]}
OddType == 10 :> Node("A", StringValue(2))

\* Generous limits, and each limit tight in turn: exact, one below, zero.
Ample == [row |-> 50, work |-> 90, frontier |-> 20, hopLimit |-> 3, parallel |-> FALSE,
          parameters |-> "p" :> DoubleValue(6)]
Limits == {Ample, [Ample EXCEPT !.hopLimit = 1]}
            \union {[Ample EXCEPT !.row = n] : n \in {0, 4, 5, 9, 10}}
            \union {[Ample EXCEPT !.work = n] : n \in {9, 10, 11, 22, 23, 32, 33}}
            \union {[Ample EXCEPT !.frontier = n] : n \in 0..3}
InBothModes(options) == {[o EXCEPT !.parallel = p] : o \in options, p \in BOOLEAN}

\* The statements.
Words(s) == [i \in DOMAIN s |-> Word(s[i])]
Statement(where, traversal, order) ==
  Words(<<"FROM", "A">> \o where \o traversal \o <<"YIELD", "path">> \o order)
PathOf(dir, hops, costed) ==
  <<"PATH", dir, "T", "HOPS", ToString(hops)>> \o (IF costed THEN <<"COST", "c">> ELSE <<>>)
StepOf(dir) == <<"STEP", dir, "T">>
Descending(desc) == IF desc THEN <<"ORDER", "DESC">> ELSE <<>>
Where(op, literal) == <<"WHERE", "k", op, literal>>

Request(t, graph, options) == [text |-> t, graph |-> graph, options |-> options]

\* Path searches with every limit, over nodes and costs of every kind, and
\* steps and scans over five seeds.
Executions ==
  {Request(Statement(<<>>, PathOf("OUT", hops, costed), Descending(costed)), CyclicGraph(<<>>), o) :
     hops \in {1, 2}, costed \in BOOLEAN, o \in InBothModes(Limits)}
  \union
  {Request(Statement(Where("=", "$p"), PathOf(dir, 2, TRUE), Descending(dir = "IN")), g, o) :
     dir \in {"OUT", "IN"}, o \in InBothModes({Ample}),
     g \in {CyclicGraph(odd) : odd \in Odd}
             \union {Unusable(odd, e, bad) : odd \in Odd, e \in {3, 4}, bad \in UnusableCosts}}
  \union
  {Request(Statement(Where(op, "3"), PathOf("IN", 2, TRUE), <<>>), CyclicGraph(OddType), o) :
     op \in {"<", "!="}, o \in InBothModes({Ample})}
  \union
  {Request(Statement(where, traversal, <<"ORDER", "DESC">>), FanGraph, o) :
     traversal \in {<<>>, StepOf("OUT")}, where \in {<<>>, Where(">=", "3")},
     o \in InBothModes({l \in Limits : l.frontier = 20})}
  \union
  {Request(Statement(where, StepOf(dir), <<>>), CyclicGraph(<<>>), o) :
     dir \in {"OUT", "IN"}, where \in {<<>>, Where("=", "$q")},
     o \in InBothModes({Ample, [Ample EXCEPT !.row = 5], [Ample EXCEPT !.row = 6],
                        [Ample EXCEPT !.work = 14], [Ample EXCEPT !.work = 15]})}
  \union
  {Request(Statement(<<>>, PathOf("OUT", 3, TRUE), <<"ORDER", "DESC">>), CyclicGraph(<<>>), Ample)}

\* Statements of every form, keywords as names, both cases, and each with a
\* token left out, repeated, replaced by a keyword or in quotes.
Forms ==
  {<<"FROM", "A", "YIELD", "node", ".", "id">>,
   <<"from", "FROM", "Where", "WHERE", "=", "5", "yield", "edge", ".", "id", "ORDER", "ASC">>,
   <<"AT", "COMMIT", "AT", "TIME", "FROM", "FROM", "STEP", "STEP", "IN", "IN", "YIELD", "path">>,
   <<"FROM", "A", "WHERE", "k", "<", "$p", "PATH", "out", "HOPS", "YIELD", "path", "ORDER", "DESC">>,
   <<"FROM", "A", "PATH", "OUT", "T", "HOPS", "2", "COST", "COST", "YIELD", "node", ".", "id">>,
   <<"FROM", "A", "STEP", "IN", "T", "YIELD", "edge", ".", "id", "ORDER", "DESC">>,
   <<"FROM", "A", "PATH", "OUT", "T", "COST", "", "YIELD", "path">>}

\* Literals and hop bounds at their edges.
Literals ==
  {<<"FROM", "A", "WHERE", "k", "=", t, "YIELD", "path">> :
     t \in {"true", "False", "-5", "2.5", ".", "99999999999999999999", "$", "$q", "", "YIELD"}}
Bounds ==
  {<<"FROM", "A", "PATH", "OUT", "T", "HOPS", t, "YIELD", "path">> :
     t \in {"0", "1", "3", "4", "", "-5", "abc", "99999999999999999999"}}

Without(s, i) == SubSeq(s, 1, i - 1) \o SubSeq(s, i + 1, Len(s))
Repeated(s, i) == SubSeq(s, 1, i) \o SubSeq(s, i, Len(s))

Slips(s) == UNION {{Without(s, i), Repeated(s, i), [s EXCEPT ![i] = "YIELD"]} : i \in DOMAIN s}

\* With its selectors this one has more lexemes than are allowed.
Longest == Statement(Where("=", "$p"), PathOf("OUT", 2, TRUE), <<"ORDER", "DESC">>)

Texts ==
  {Words(s) : s \in Forms \union Literals \union Bounds
                \union UNION {Slips(s) : s \in Forms}}
    \union UNION {{[Words(s) EXCEPT ![i] = Quoted(s[i])], [Words(s) EXCEPT ![i] = Open(s[i])]} :
                    s \in Forms, i \in {2, 6}}
    \union {Words(<<"AT", "COMMIT", "1", "TIME", "1">>) \o t : t \in {Longest, Tail(Longest)}}

MCRequests == Executions \union {Request(t, TinyGraph, Ample) : t \in Texts}

MCAsts ==
  {[label |-> label, where |-> where, mode |-> t[1], direction |-> t[2], type |-> t[3],
    hops |-> t[4], cost |-> t[5], yield |-> yield, ordered |-> order[1], desc |-> order[2]] :
     label \in {"A", "FROM", "YIELD"},
     where \in {NoWhere, [NoWhere EXCEPT !.key = "k", !.op = "<", !.parameter = "p"],
                [NoWhere EXCEPT !.key = "WHERE", !.op = "=", !.value = IntValue(5)]},
     t \in {<<"scan", "out", "", 1, <<>>>>, <<"step", "in", "IN", 1, <<>>>>,
            <<"step", "in", "T", 1, <<>>>>, <<"path", "out", "HOPS", 1, <<>>>>,
            <<"path", "out", "T", 2, <<"COST">>>>},
     yield \in {"node", "edge", "path"},
     order \in {<<FALSE, FALSE>>, <<TRUE, FALSE>>, <<TRUE, TRUE>>}}

MCQueries ==
  {Query(PrepareQuery(r.text).ast, r.graph, r.options) :
     r \in {s \in MCRequests : PrepareQuery(s.text).error = "none"}}
=============================================================================
