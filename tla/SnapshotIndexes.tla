-------------------------- MODULE SnapshotIndexes --------------------------
(***************************************************************************)
(* What a snapshot is made of and answers: the entities select_active_at   *)
(* picks from the version maps, sorted by id, the label, property and      *)
(* adjacency indexes over their positions, the lookups through them, the   *)
(* seeds of a query, and the verification that compact() runs over the     *)
(* snapshots of the retained commits (src/src/store/graph_store.cpp).      *)
(*                                                                         *)
(* The version maps are those of GraphStore, whose views here also carry a *)
(* label or type and properties, and grow as they do there: by commits,    *)
(* and by load after a crash.  A snapshot is a function of the version     *)
(* maps, so the properties speak of every snapshot of every state.         *)
(***************************************************************************)
EXTENDS GraphStore, PropertyValues, SequencesExt

CONSTANTS
  ExistingFile,    \* the groups of the file when the first process opens it
  ExistingTxns,    \* the transactions that wrote them
  Labels, Types,   \* every label and type, of which some entity may have none
  Keys, Values     \* what properties are looked up by

\* What validate_interval and commit() make sure of.
IsStored(view) == view.start \in Int /\ view.end \in Int /\ view.start < view.end

ASSUME SnapshotIndexesAssumption ==
  /\ Nodes \subseteq Nat /\ IsFiniteSet(Nodes)
  /\ Edges \subseteq Nat /\ IsFiniteSet(Edges)
  /\ Times \subseteq Int
  /\ \A v \in NodeViews \union EdgeViews : IsStored(v)
  /\ \A v \in NodeViews : \A k \in DOMAIN v.props :
       IsPropertyValue(v.props[k]) /\ v.props[k] # NotFinite
  /\ \A v \in Values : IsPropertyValue(v)

\* A group that an earlier process appended.
IsGroup(g, i) ==
  /\ g = [commit |-> i, txn |-> g.txn, putNodes |-> g.putNodes, putEdges |-> g.putEdges,
          deleteNodes |-> g.deleteNodes, deleteEdges |-> g.deleteEdges]
  /\ g.txn \in ExistingTxns /\ IsStaged(g)
  /\ g.putNodes \in [DOMAIN g.putNodes -> NodeViews]
  /\ g.putEdges \in [DOMAIN g.putEdges -> EdgeViews]

ASSUME ExistingFileAssumption ==
  /\ ExistingTxns \subseteq Txns
  /\ ExistingFile \in Seq(ToSet(ExistingFile)) /\ Len(ExistingFile) <= MaxCommit
  /\ \A i \in 1..Len(ExistingFile) : IsGroup(ExistingFile[i], i)

\* A process is about to open the file.
InitExisting ==
  /\ durable = ExistingFile /\ up = FALSE
  /\ latest = 0 /\ shuttingDown = FALSE /\ changeLog = <<>>
  /\ nodes = [n \in Nodes |-> <<>>] /\ edges = [e \in Edges |-> <<>>]
  /\ inflight = NoTxn
  /\ txn = [t \in Txns |-> Fresh(IF t \in ExistingTxns THEN "closed" ELSE "none")]
  /\ sub = [s \in Subscribers |-> NoSub]
  /\ seen = [s \in Subscribers |-> <<>>]
  /\ acked = 1..Len(ExistingFile)

SpecExisting == InitExisting /\ [][Next]_vars

-----------------------------------------------------------------------------
(* Materialization.                                                         *)

Less(a, b) == a < b

ById(S) == InOrder(S, Less)

\* The elements of seq whose places are in P, in their order.
Picked(seq, P) == [i \in DOMAIN ById(P) |-> seq[ById(P)[i]]]

\* The order of the interval index: start, end, id.
EarlierEntry(v, a, b) ==
  \/ v[a].start < v[b].start
  \/ v[a].start = v[b].start /\ v[a].end < v[b].end
  \/ v[a].start = v[b].start /\ v[a].end = v[b].end /\ a < b

IntervalIndex(v) == InOrder(DOMAIN v, LAMBDA a, b : EarlierEntry(v, a, b))

\* A mutation: the scan also stops at an interval that starts at the time.
SelectActiveTooShort(v, t) ==
  LET index   == IntervalIndex(v)
      scanned == {i \in DOMAIN index : \A j \in 1..i : v[index[j]].start < t}
  IN  Picked(index, {i \in scanned : Covers(v[index[i]], t)})

\* select_active_at: the scan of the interval index stops at the first start
\* after the valid time.
SelectActive(v, t) ==
  LET index   == IntervalIndex(v)
      scanned == {i \in DOMAIN index : \A j \in 1..i : v[index[j]].start <= t}
  IN  Picked(index, {i \in scanned : Covers(v[index[i]], t)})

\* The views of the versions the commit sees, without the deleted.
CommitVisible(histories, commit) ==
  [id \in {i \in DOMAIN histories : LiveAt(histories[i], commit)} |->
     LatestAt(histories[id], commit).view]

PropertyKey(key, value) == <<key, Canonical(value)>>

PropertyKeys(view) == {PropertyKey(k, view.props[k]) : k \in DOMAIN view.props}

\* rebuild_indexes: keys of an index are only those that some entity has, and
\* each has the places of the entities that have it.
LabelIndex(ns, node) ==
  [l \in {node[n].label : n \in ToSet(ns)} |-> ById({i \in DOMAIN ns : node[ns[i]].label = l})]

PropertyIndex(ns, node) ==
  [p \in UNION {PropertyKeys(node[n]) : n \in ToSet(ns)} |->
     ById({i \in DOMAIN ns : p \in PropertyKeys(node[ns[i]])})]

OutIndex(es, edge) ==
  [at \in {<<edge[e].from, edge[e].type>> : e \in ToSet(es)} |->
     ById({i \in DOMAIN es : <<edge[es[i]].from, edge[es[i]].type>> = at})]

InIndex(es, edge) ==
  [at \in {<<edge[e].to, edge[e].type>> : e \in ToSet(es)} |->
     ById({i \in DOMAIN es : <<edge[es[i]].to, edge[es[i]].type>> = at})]

Indexed(commit, node, edge, ns, es) ==
  [commit |-> commit, nodeView |-> node, edgeView |-> edge, nodes |-> ns, edges |-> es,
   label |-> LabelIndex(ns, node), property |-> PropertyIndex(ns, node),
   out |-> OutIndex(es, edge), in |-> InIndex(es, edge)]

\* The edges that are active together with both endpoints.
Joined(edge, t, active) ==
  {e \in ToSet(SelectActive(edge, t)) : {edge[e].from, edge[e].to} \subseteq active}

\* A mutation: the nodes stay in the order of the interval index.
MaterializeUnsorted(commit, t) ==
  LET node   == CommitVisible(nodes, commit)
      edge   == CommitVisible(edges, commit)
      active == SelectActive(node, t)
  IN  Indexed(commit, node, edge, active, ById(Joined(edge, t, ToSet(active))))

\* make_snapshot_locked.
Materialize(commit, t) ==
  LET node   == CommitVisible(nodes, commit)
      edge   == CommitVisible(edges, commit)
      active == ToSet(SelectActive(node, t))
  IN  Indexed(commit, node, edge, ById(active), ById(Joined(edge, t, active)))

-----------------------------------------------------------------------------
(* Lookups.                                                                 *)

\* std::lower_bound over a sequence of ids, as a binary search: among the n
\* ids from place lo on.
LowerBound(ids, id) ==
  LET among[n \in 0..Len(ids)] ==
        [lo \in 1..(Len(ids) + 1 - n) |->
           IF n = 0 THEN lo
           ELSE LET half == n \div 2
                IN  IF ids[lo + half] < id THEN among[n - half - 1][lo + half + 1]
                    ELSE among[half][lo]]
  IN  among[Len(ids)][1]

\* GraphSnapshot::node: an id and what was found, or nothing.
FindNode(s, id) ==
  LET at == LowerBound(s.nodes, id)
  IN  IF at <= Len(s.nodes) /\ s.nodes[at] = id THEN {id} ELSE {}

Through(index, key, entities) ==
  IF key \in DOMAIN index THEN [i \in DOMAIN index[key] |-> entities[index[key][i]]]
  ELSE <<>>

NodesWithLabel(s, label)         == Through(s.label, label, s.nodes)
NodesWithProperty(s, key, value) == Through(s.property, PropertyKey(key, value), s.nodes)
OutEdges(s, from, type)          == Through(s.out, <<from, type>>, s.edges)
InEdges(s, to, type)             == Through(s.in, <<to, type>>, s.edges)

Matches(s, n, key, op, value) ==
  IF key \in DOMAIN s.nodeView[n].props THEN Compare(s.nodeView[n].props[key], op, value)
  ELSE "no"

\* The nodes with the label whose property compares.
Filtered(s, label, key, op, value) ==
  LET found == NodesWithLabel(s, label)
  IN  Picked(found, {i \in DOMAIN found : Matches(s, found[i], key, op, value) = "yes"})

\* The seeds of a query: equality goes through the property index and is not
\* compared again, any other predicate filters the nodes with the label.
Seeds(s, label, key, op, value) ==
  LET found == NodesWithProperty(s, key, value)
  IN  IF op = "=" THEN Picked(found, {i \in DOMAIN found : s.nodeView[found[i]].label = label})
      ELSE Filtered(s, label, key, op, value)

-----------------------------------------------------------------------------
(* The verification of compact(), which holds the store mutex throughout.   *)

InWindow(r, from, through) == ~r.tombstone /\ from <= r.begin /\ r.begin <= through

\* A mutation: only the starts of node versions are probed.
ProbeTimesOfNodes(from, through) ==
  {0} \union UNION {{nodes[n][i].view.start : i \in
      {j \in DOMAIN nodes[n] : InWindow(nodes[n][j], from, through)}} : n \in Nodes}

\* The valid times probed: zero, and the first and last of each version begun
\* in the window.
ProbeTimes(from, through) ==
  LET views(histories) ==
        UNION {{histories[id][i].view : i \in
                  {j \in DOMAIN histories[id] : InWindow(histories[id][j], from, through)}} :
               id \in DOMAIN histories}
  IN  {0} \union UNION {{v.start, v.end - 1} : v \in views(nodes) \union views(edges)}

Increasing(ids) == \A i \in 2..Len(ids) : ids[i - 1] < ids[i]

\* verify_snapshot_indexes.
IndexesVerified(s) ==
  /\ Increasing(s.nodes) /\ Increasing(s.edges)
  /\ \A n \in ToSet(s.nodes) :
       /\ FindNode(s, n) = {n}
       /\ n \in ToSet(NodesWithLabel(s, s.nodeView[n].label))
       /\ \A k \in DOMAIN s.nodeView[n].props :
            n \in ToSet(NodesWithProperty(s, k, s.nodeView[n].props[k]))
  /\ \A e \in ToSet(s.edges) :
       LET v == s.edgeView[e]
       IN  /\ {v.from, v.to} \subseteq ToSet(s.nodes)
           /\ e \in ToSet(OutEdges(s, v.from, v.type))
           /\ e \in ToSet(InEdges(s, v.to, v.type))

\* plan_compaction: the first retained commit; the last is the head.
RetainedFrom(keep) ==
  CASE latest = 0 -> 0
    [] latest > 0 /\ keep >= latest -> 1
    [] latest > 0 /\ keep < latest -> latest - keep + 1

\* The snapshots verify_compaction_locked makes, one after the other.
Probed(keep) ==
  {Materialize(c, t) :
     c \in RetainedFrom(keep)..latest, t \in ProbeTimes(RetainedFrom(keep), latest)}

-----------------------------------------------------------------------------
(* The reference: what a scan of the graph replayed from the file gives.    *)

(* At every commit and valid time, on a store that grew commit by commit or *)
(* was loaded, each lookup returns what a scan of the graph replayed from   *)
(* the file selects, in id order: node by id (a binary search), label,      *)
(* property (by canonical text), edges out of and into a node by type.      *)
LookupsEqualScans ==
  up => \A c \in 0..latest, t \in Times :
    LET s       == Materialize(c, t)
        g       == GraphAfter[c]
        visible == Visible(g, t)
    IN  /\ \A n \in Nodes : FindNode(s, n) = visible.nodes \intersect {n}
        /\ \A l \in Labels : NodesWithLabel(s, l) = ById({n \in visible.nodes : g.node[n].label = l})
        /\ \A k \in Keys, v \in Values :
             NodesWithProperty(s, k, v) =
               ById({n \in visible.nodes : /\ k \in DOMAIN g.node[n].props
                                           /\ Canonical(g.node[n].props[k]) = Canonical(v)})
        /\ \A n \in Nodes, y \in Types :
             /\ OutEdges(s, n, y) =
                  ById({e \in visible.edges : g.edge[e].from = n /\ g.edge[e].type = y})
             /\ InEdges(s, n, y) =
                  ById({e \in visible.edges : g.edge[e].to = n /\ g.edge[e].type = y})

(* compact() never fails its own verification: whatever was committed,      *)
(* deleted, put again or reloaded, every probed snapshot is in order and    *)
(* its indexes find every entity.                                           *)
VerificationAccepts ==
  up => \A keep \in 1..(latest + 1) : \A s \in Probed(keep) : IndexesVerified(s)

(* The verification looks at what compaction retains: of the versions begun *)
(* in the window, each node version is in a probed snapshot, and each edge  *)
(* version that a snapshot of the window can show, if those of its          *)
(* endpoints were begun in the window too.                                  *)
VerificationReachesRetained ==
  up => \A keep \in 1..latest :
    LET from   == RetainedFrom(keep)
        probed == Probed(keep)
        begun(histories, id, c) == LatestAt(histories[id], c).begin
        retained(histories, id, c) == LiveAt(histories[id], c) /\ begun(histories, id, c) >= from
    IN  \A c \in from..latest :
          /\ \A n \in Nodes : retained(nodes, n, c) =>
               \E s \in probed : n \in ToSet(s.nodes) /\ s.commit = c
          /\ \A t \in Times : \A e \in Snapshot(c, t).edges :
               LET v == LatestAt(edges[e], c).view
               IN  retained(edges, e, c) /\ retained(nodes, v.from, c) /\ retained(nodes, v.to, c) =>
                     \E s \in probed : e \in ToSet(s.edges) /\ s.commit = c

(* Equality through the index selects nothing that comparing would not,     *)
(* and no node satisfies both = and != for one value.                       *)
EqualityIsSound ==
  up => \A t \in Times, l \in Labels, k \in Keys, v \in Values :
    LET s == Materialize(latest, t)
    IN  \A n \in ToSet(Seeds(s, l, k, "=", v)) :
          Matches(s, n, k, "=", v) = "yes" /\ n \notin ToSet(Seeds(s, l, k, "!=", v))

(* docs/ARCHITECTURE.md: "indexed query output remains scan-equivalent":    *)
(* the seeds of an equality are the nodes that its comparison accepts.      *)
EqualityIsScanEquivalent ==
  up => \A t \in Times, l \in Labels, k \in Keys, v \in Values :
    LET s == Materialize(latest, t)
    IN  Seeds(s, l, k, "=", v) = Filtered(s, l, k, "=", v)
=============================================================================
