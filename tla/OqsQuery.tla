------------------------------ MODULE OqsQuery ------------------------------
(***************************************************************************)
(* A statement from its text to its rows: prepare_query makes an ast of    *)
(* the text, and execute binds its parameters and runs it over the labels, *)
(* types and properties of one snapshot.  QueryExec executes any query;    *)
(* here the query is what the parser understood.                           *)
(***************************************************************************)
EXTENDS QueryExec, OqsParser

CONSTANTS
  Requests,  \* what a client may ask: [text, graph, options]
  Asts       \* the asts whose statements a text is compared with

(***************************************************************************)
(* A graph has nodes, id -> [label, props] in the order of ids, and edges, *)
(* [from, to, type, props] by id.  Options are parallel, row, work,        *)
(* frontier, hopLimit and parameters.                                      *)
(***************************************************************************)
VARIABLES
  request,   \* what the client asks; its text is not kept once it is prepared
  prepared   \* "no", "yes", or the error prepare_query refuses the text with

requestVars == <<request, prepared>>

HasValues(props) == \A key \in DOMAIN props : IsPropertyValue(props[key])

IsGraph(graph) ==
  /\ IsFiniteSet(DOMAIN graph.nodes) /\ DOMAIN graph.nodes \subseteq (Nat \ {0}) \intersect DOMAIN Rank
  /\ \A n \in DOMAIN graph.nodes : HasValues(graph.nodes[n].props)
  /\ DOMAIN graph.edges = 1..Len(graph.edges) /\ Len(graph.edges) \in Nat
  /\ \A e \in DOMAIN graph.edges : {graph.edges[e].from, graph.edges[e].to} \subseteq DOMAIN graph.nodes
                                   /\ HasValues(graph.edges[e].props)

IsOptions(options) ==
  /\ options.parallel \in BOOLEAN /\ HasValues(options.parameters)
  /\ {options.row, options.work, options.frontier, options.hopLimit} \subseteq Nat

IsAst(ast) ==
  /\ ast.where.op \in Ops \union {"none"} /\ ast.mode \in Modes /\ ast.direction \in {"out", "in"}
  /\ ast.yield \in {"node", "edge", "path"} /\ {ast.ordered, ast.desc} \subseteq BOOLEAN

ASSUME OqsQueryAssumption ==
  /\ \A r \in Requests : r.text \in Seq(Lexemes) /\ IsGraph(r.graph) /\ IsOptions(r.options)
  /\ \A ast \in Asts : IsAst(ast)

Nothing == <<>>

-----------------------------------------------------------------------------
\* bind_predicate: the values, at most one, the predicate is bound to.
Bindings(where, parameters) ==
  IF where.parameter = "" THEN {where.value}
  ELSE {parameters[p] : p \in DOMAIN parameters \intersect {where.parameter}}

\* Equality looks the canonical value up in the property index; every other
\* operator compares the values of the nodes with the label.
Holds(value, op, literal) ==
  IF op = "=" THEN Answer(Canonical(value) = Canonical(literal)) ELSE Compare(value, op, literal)

\* label_matches and property_matches; an unbound predicate is never looked at.
Verdict(node, ast, parameters) ==
  IF node.label # ast.label THEN "other"
  ELSE IF ast.where.op = "none" THEN "yes"
  ELSE IF ast.where.key \notin DOMAIN node.props \/ Bindings(ast.where, parameters) = {} THEN "no"
  ELSE LET literal == CHOOSE v \in Bindings(ast.where, parameters) : TRUE
       IN  Holds(node.props[ast.where.key], ast.where.op, literal)

\* edge_cost, in halves.
EdgeCost(props, key) ==
  IF key \notin DOMAIN props THEN BadCost
  ELSE LET v == props[key]
       IN  IF v.tag \in {"int", "double", "minus zero"} /\ v.n >= 0
           THEN (IF v.tag = "int" THEN 2 * v.n ELSE v.n)
           ELSE BadCost

WhereKind(ast, parameters) ==
  CASE ast.where.op = "none" -> "none"
    [] ast.where.op # "none" /\ Bindings(ast.where, parameters) = {} -> "unbound"
    [] ast.where.op = "=" /\ Bindings(ast.where, parameters) # {} -> "equal"
    [] ast.where.op \notin {"none", "="} /\ Bindings(ast.where, parameters) # {} -> "compare"

\* The edges of the queried type.
EdgesOf(graph, ast) ==
  LET ids == Ascending({i \in DOMAIN graph.edges : graph.edges[i].type = ast.type})
  IN  [k \in DOMAIN ids |->
         LET e == graph.edges[ids[k]]
         IN  [from |-> e.from, to |-> e.to,
              cost |-> IF ast.cost = <<>> THEN 0 ELSE EdgeCost(e.props, ast.cost[1])]]

Query(ast, graph, options) ==
  [mode |-> ast.mode, direction |-> ast.direction, hops |-> ast.hops, costed |-> ast.cost # <<>>,
   desc |-> ast.desc, parallel |-> options.parallel, row |-> options.row, work |-> options.work,
   frontier |-> options.frontier, hopLimit |-> options.hopLimit,
   where |-> WhereKind(ast, options.parameters),
   verdict |-> [n \in DOMAIN graph.nodes |-> Verdict(graph.nodes[n], ast, options.parameters)],
   edges |-> EdgesOf(graph, ast)]

-----------------------------------------------------------------------------
OqsInit ==
  /\ request \in Requests
  /\ prepared = "no" /\ q = Nothing
  /\ pc = "start" /\ cancelled = FALSE /\ seeds = <<>> /\ parts = <<>>
  /\ outcome = "none" /\ rows = <<>>
  /\ offset = 0 /\ delivered = <<>> /\ complete = FALSE /\ closed = FALSE

\* One value per text, which TLC computes once.
Prepared == [text \in {r.text : r \in Requests} |-> PrepareQuery(text)]

Prepare ==
  LET parsed == Prepared[request.text]
  IN  /\ prepared = "no"
      /\ request' = Nothing
      /\ \/ /\ parsed.error = "none"
            /\ prepared' = "yes"
            /\ q' = Query(parsed.ast, request.graph, request.options)
         \/ /\ parsed.error # "none"
            /\ prepared' = parsed.error
            /\ q' = q
      /\ UNCHANGED <<pc, cancelled, seeds, parts, outcome, rows, cursor>>

OqsNext ==
  \/ Prepare
  \/ prepared = "yes" /\ Next /\ UNCHANGED requestVars

OqsVars == <<vars, requestVars>>

\* The client's thread and the workers keep running.
OqsFairness ==
  /\ WF_OqsVars(Prepare)
  /\ WF_OqsVars(prepared = "yes" /\ CallerStep /\ UNCHANGED requestVars)
  /\ \A k \in 1..MaxWorkers :
       WF_OqsVars(prepared = "yes" /\ k \in DOMAIN parts /\ WorkerStep(k) /\ UNCHANGED requestVars)

OqsSpec == OqsInit /\ [][OqsNext]_OqsVars /\ OqsFairness

-----------------------------------------------------------------------------
(* A text is accepted exactly if it is a statement of the language, and the *)
(* query that is prepared is the only one it says: every clause is read     *)
(* where it stands, names may be keywords, and no token is skipped or left  *)
(* over.                                                                    *)
PreparedAsWritten ==
  prepared = "no" =>
    LET parsed == Prepared[request.text]
    IN  /\ parsed.error = "none" => Says(request.text, parsed.ast)
        /\ \A ast \in Asts :
             Says(request.text, ast) => parsed.error = "none" /\ SameMeaning(ast, parsed.ast)

(* Every request is refused or executed to its end, on cyclic graphs too    *)
(* and when workers fail.                                                   *)
RequestEnds == <>(pc = "done" \/ prepared \notin {"no", "yes"})
=============================================================================
