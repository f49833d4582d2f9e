----------------------------- MODULE GraphStore -----------------------------
(***************************************************************************)
(* One GraphStore over its file: transactions that stage mutations, the    *)
(* commit that validates, appends and publishes them, the version maps and *)
(* the snapshots read from them, commit subscriptions, shutdown, and the   *)
(* rebuilding of all of it from the file after a crash                     *)
(* (src/src/store/graph_store.cpp).                                        *)
(*                                                                         *)
(* The file is `durable`, the sequence of groups read_store replays.  That *)
(* it can be treated so - atomic, append-only, consecutive commit numbers, *)
(* published after it is durable - is what CommitLog establishes of the    *)
(* records, and where it stops being true is shown there.                  *)
(***************************************************************************)
EXTENDS GraphValues, Sequences, FiniteSets

CONSTANTS
  NodeViews,   \* the views put_node is called with
  EdgeViews,   \* the views put_edge is called with
  Txns, NoTxn,
  Subscribers,
  Times,       \* the valid times snapshots are compared at
  MaxCommit,   \* bound on the number of commits
  MaxOps       \* bound on the mutations staged in a transaction

ASSUME GraphStoreAssumption ==
  /\ Absent \notin NodeViews \union EdgeViews
  /\ \A v \in EdgeViews : v.from \in Nodes /\ v.to \in Nodes
  /\ NoTxn \notin Txns
  /\ MaxCommit \in Nat /\ MaxOps \in Nat

VARIABLES
  durable,       \* the complete transaction groups of the file
  up,            \* a process has the store open
  latest, shuttingDown, nodes, edges, changeLog,   \* GraphStore::Impl
  inflight,      \* the transaction inside commit(): durable, not yet published
  txn,           \* Transaction::Impl of each transaction, with its status
  sub,           \* [open, after] of each CommitSubscription
  seen,          \* history: the changes each subscriber's client has processed
  acked          \* history: the commit numbers returned to committers

memory == <<latest, shuttingDown, nodes, edges, changeLog>>
vars == <<durable, up, memory, inflight, txn, sub, seen, acked>>

EmptyFcn == [x \in {} |-> Absent]

\* std::map::operator[] = and erase.
Insert(f, id, v) == [x \in DOMAIN f \union {id} |-> IF x = id THEN v ELSE f[x]]
Erase(f, id)     == [x \in DOMAIN f \ {id} |-> f[x]]

Fresh(status) == [status |-> status, putNodes |-> EmptyFcn, putEdges |-> EmptyFcn,
                  deleteNodes |-> {}, deleteEdges |-> {}]

NoSub == [open |-> FALSE, after |-> 0]

Init ==
  /\ durable = <<>> /\ up = TRUE
  /\ latest = 0 /\ shuttingDown = FALSE /\ changeLog = <<>>
  /\ nodes = [n \in Nodes |-> <<>>] /\ edges = [e \in Edges |-> <<>>]
  /\ inflight = NoTxn
  /\ txn = [t \in Txns |-> Fresh("none")]
  /\ sub = [s \in Subscribers |-> NoSub]
  /\ seen = [s \in Subscribers |-> <<>>]
  /\ acked = {}

-----------------------------------------------------------------------------
(* Version maps: histories of [view, begin, tombstone] in commit order.     *)

Version(view, commit) == [view |-> view, begin |-> commit, tombstone |-> FALSE]
Tombstone(commit)     == [view |-> Absent, begin |-> commit, tombstone |-> TRUE]

\* latest_at: the last record of the history that the commit can see.
LatestAt(h, commit) ==
  LET seenAt == {i \in DOMAIN h : h[i].begin <= commit}
  IN  IF seenAt = {} THEN Tombstone(0)
      ELSE h[CHOOSE i \in seenAt : \A j \in seenAt : j <= i]

\* A record is in the snapshot's candidates unless absent or a tombstone.
LiveAt(h, commit) == ~LatestAt(h, commit).tombstone

\* select_active_at: the candidates whose interval contains the valid time.
ActiveAt(h, commit, t) == LiveAt(h, commit) /\ Covers(LatestAt(h, commit).view, t)

\* make_snapshot_locked, without the indexes.
Snapshot(commit, t) ==
  LET activeNodes == {n \in Nodes : ActiveAt(nodes[n], commit, t)}
      joined(e) == LET v == LatestAt(edges[e], commit).view
                   IN  v.from \in activeNodes /\ v.to \in activeNodes
  IN  [nodes |-> activeNodes,
       edges |-> {e \in Edges : ActiveAt(edges[e], commit, t) /\ joined(e)}]

\* The records a published group adds: versions, then tombstones.
AddVersions(histories, puts, deletes, commit) ==
  [id \in DOMAIN histories |->
     histories[id]
       \o (IF id \in DOMAIN puts THEN <<Version(puts[id], commit)>> ELSE <<>>)
       \o (IF id \in deletes THEN <<Tombstone(commit)>> ELSE <<>>)]

ChangeOf(g) ==
  [commit |-> g.commit,
   putNodes |-> DOMAIN g.putNodes, putEdges |-> DOMAIN g.putEdges,
   deletedNodes |-> g.deleteNodes, deletedEdges |-> g.deleteEdges]

IsEmptyChange(c) ==
  c.putNodes \union c.putEdges \union c.deletedNodes \union c.deletedEdges = {}

-----------------------------------------------------------------------------
(* Transactions.  Staging touches only the transaction: no lock is taken.   *)

\* The mutex is free: commit() holds it from the append to the publication.
Unlocked == up /\ inflight = NoTxn

BeginTxn(t) ==
  /\ Unlocked /\ ~shuttingDown
  /\ txn[t].status = "none"
  /\ txn' = [txn EXCEPT ![t] = Fresh("open")]
  /\ UNCHANGED <<durable, up, memory, inflight, sub, seen, acked>>

Staged(t) ==
  Cardinality(DOMAIN txn[t].putNodes) + Cardinality(DOMAIN txn[t].putEdges)
    + Cardinality(txn[t].deleteNodes) + Cardinality(txn[t].deleteEdges)

Stage(t) ==
  /\ up /\ txn[t].status = "open" /\ inflight # t
  /\ Staged(t) < MaxOps
  /\ UNCHANGED <<durable, up, memory, inflight, sub, seen, acked>>

\* A mutation: an earlier delete of the node stays staged.
PutNodeKeepsDelete(t, n, view) ==
  /\ Stage(t)
  /\ txn' = [txn EXCEPT ![t].putNodes = Insert(@, n, view)]

PutNode(t, n, view) ==
  /\ Stage(t)
  /\ txn' = [txn EXCEPT ![t].deleteNodes = @ \ {n},
                        ![t].putNodes = Insert(@, n, view)]

PutEdge(t, e, view) ==
  /\ Stage(t)
  /\ txn' = [txn EXCEPT ![t].deleteEdges = @ \ {e},
                        ![t].putEdges = Insert(@, e, view)]

DeleteNode(t, n) ==
  /\ Stage(t)
  /\ txn' = [txn EXCEPT ![t].putNodes = Erase(@, n),
                        ![t].deleteNodes = @ \union {n}]

DeleteEdge(t, e) ==
  /\ Stage(t)
  /\ txn' = [txn EXCEPT ![t].putEdges = Erase(@, e),
                        ![t].deleteEdges = @ \union {e}]

Abort(t) ==
  /\ up /\ txn[t].status = "open" /\ inflight # t
  /\ txn' = [txn EXCEPT ![t] = Fresh("closed")]
  /\ UNCHANGED <<durable, up, memory, inflight, sub, seen, acked>>

\* A mutation: nodes deleted by the same transaction are not excluded.
EndpointVisibleBefore(t, n) ==
  LiveAt(nodes[n], latest) \/ n \in DOMAIN txn[t].putNodes

\* Validation against the head at commit time, not at begin: other
\* transactions may have committed in between.
EndpointVisible(t, n) ==
  /\ LiveAt(nodes[n], latest) \/ n \in DOMAIN txn[t].putNodes
  /\ n \notin txn[t].deleteNodes

EndpointsVisible(t) ==
  \A e \in DOMAIN txn[t].putEdges :
    /\ EndpointVisible(t, txn[t].putEdges[e].from)
    /\ EndpointVisible(t, txn[t].putEdges[e].to)

GroupFor(t, commit) ==
  [commit |-> commit, txn |-> t,
   putNodes |-> txn[t].putNodes, putEdges |-> txn[t].putEdges,
   deleteNodes |-> txn[t].deleteNodes, deleteEdges |-> txn[t].deleteEdges]

\* commit() up to a successful append_transaction.  A refused commit - shutdown,
\* an endpoint conflict, an append error - changes nothing: the object stays open.
CommitAppend(t) ==
  /\ Unlocked /\ txn[t].status = "open"
  /\ ~shuttingDown /\ latest < MaxCommit
  /\ EndpointsVisible(t)
  /\ durable' = Append(durable, GroupFor(t, latest + 1))
  /\ inflight' = t
  /\ UNCHANGED <<up, memory, txn, sub, seen, acked>>

\* A mutation: the transaction object is not closed.
PublishLeavesOpen ==
  /\ up /\ inflight # NoTxn
  /\ LET g == GroupFor(inflight, latest + 1) IN
       /\ nodes' = AddVersions(nodes, g.putNodes, g.deleteNodes, g.commit)
       /\ edges' = AddVersions(edges, g.putEdges, g.deleteEdges, g.commit)
       /\ changeLog' = Append(changeLog, ChangeOf(g))
       /\ latest' = g.commit
       /\ acked' = acked \union {g.commit}
  /\ inflight' = NoTxn
  /\ UNCHANGED <<durable, up, shuttingDown, txn, sub, seen>>

\* The rest of commit(): maps, change log (an empty change too), head, closed.
Publish ==
  /\ up /\ inflight # NoTxn
  /\ LET g == GroupFor(inflight, latest + 1) IN
       /\ nodes' = AddVersions(nodes, g.putNodes, g.deleteNodes, g.commit)
       /\ edges' = AddVersions(edges, g.putEdges, g.deleteEdges, g.commit)
       /\ changeLog' = Append(changeLog, ChangeOf(g))
       /\ latest' = g.commit
       /\ acked' = acked \union {g.commit}
  /\ txn' = [txn EXCEPT ![inflight] = Fresh("closed")]
  /\ inflight' = NoTxn
  /\ UNCHANGED <<durable, up, shuttingDown, sub, seen>>

-----------------------------------------------------------------------------
(* Subscriptions.  A client resumes after the last change it has processed. *)

LastSeen(s) == IF seen[s] = <<>> THEN 0 ELSE seen[s][Len(seen[s])].commit

SubscribeCommits(s) ==
  /\ Unlocked /\ ~shuttingDown
  /\ ~sub[s].open /\ LastSeen(s) <= latest
  /\ sub' = [sub EXCEPT ![s] = [open |-> TRUE, after |-> LastSeen(s)]]
  /\ UNCHANGED <<durable, up, memory, inflight, txn, seen, acked>>

\* A mutation: the change at `after` itself is returned again.
NextChangeInclusive(s) ==
  /\ Unlocked /\ sub[s].open
  /\ \E i \in DOMAIN changeLog :
       /\ changeLog[i].commit >= sub[s].after
       /\ \A j \in 1..(i-1) : changeLog[j].commit < sub[s].after
       /\ sub' = [sub EXCEPT ![s].after = changeLog[i].commit]
       /\ seen' = [seen EXCEPT ![s] = Append(@, changeLog[i])]
  /\ UNCHANGED <<durable, up, memory, inflight, txn, acked>>

\* CommitSubscription::next: the first change in the log past `after`.
NextChange(s) ==
  /\ Unlocked /\ sub[s].open
  /\ \E i \in DOMAIN changeLog :
       /\ changeLog[i].commit > sub[s].after
       /\ \A j \in 1..(i-1) : changeLog[j].commit <= sub[s].after
       /\ sub' = [sub EXCEPT ![s].after = changeLog[i].commit]
       /\ seen' = [seen EXCEPT ![s] = Append(@, changeLog[i])]
  /\ UNCHANGED <<durable, up, memory, inflight, txn, acked>>

-----------------------------------------------------------------------------
(* Shutdown, the end of the process, and load.                              *)

Shutdown ==
  /\ Unlocked
  /\ shuttingDown' = TRUE
  /\ UNCHANGED <<durable, up, latest, nodes, edges, changeLog, inflight, txn, sub, seen, acked>>

\* The process ends at any point, also between the append and the publication.
Crash ==
  /\ up /\ up' = FALSE
  /\ latest' = 0 /\ shuttingDown' = FALSE /\ changeLog' = <<>>
  /\ nodes' = [n \in Nodes |-> <<>>] /\ edges' = [e \in Edges |-> <<>>]
  /\ inflight' = NoTxn
  /\ txn' = [t \in Txns |-> IF txn[t].status = "open" THEN Fresh("closed") ELSE txn[t]]
  /\ sub' = [s \in Subscribers |-> NoSub]
  /\ UNCHANGED <<durable, seen, acked>>

\* A mutation: versions stay before tombstones, as load pushes them.
LoadOrderUnsorted(a, b) ==
  (~a.tombstone /\ b.tombstone) \/ (a.tombstone = b.tombstone /\ a.begin < b.begin)

\* load pushes every version, then every tombstone, and sorts by commit.
LoadOrder(a, b) == a.begin < b.begin

\* The members of S in an order that is total on it.
InOrder(S, Before(_, _)) ==
  CHOOSE q \in [1..Cardinality(S) -> S] : \A i, j \in DOMAIN q : i < j => Before(q[i], q[j])

LoadHistory(versions, tombstones) == InOrder(versions \union tombstones, LoadOrder)

Groups == {durable[i] : i \in DOMAIN durable}

LoadNode(n) == LoadHistory(
  {Version(g.putNodes[n], g.commit) : g \in {h \in Groups : n \in DOMAIN h.putNodes}},
  {Tombstone(g.commit) : g \in {h \in Groups : n \in h.deleteNodes}})

LoadEdge(e) == LoadHistory(
  {Version(g.putEdges[e], g.commit) : g \in {h \in Groups : e \in DOMAIN h.putEdges}},
  {Tombstone(g.commit) : g \in {h \in Groups : e \in h.deleteEdges}})

\* Changes are collected from the versions in a map by commit, so a group
\* without any mutation has none.
EarlierChange(a, b) == a.commit < b.commit

LoadedChanges ==
  InOrder({c \in {ChangeOf(g) : g \in Groups} : ~IsEmptyChange(c)}, EarlierChange)

Reopen ==
  /\ ~up /\ up' = TRUE
  /\ latest' = IF durable = <<>> THEN 0 ELSE durable[Len(durable)].commit
  /\ nodes' = [n \in Nodes |-> LoadNode(n)]
  /\ edges' = [e \in Edges |-> LoadEdge(e)]
  /\ changeLog' = LoadedChanges
  /\ UNCHANGED <<durable, shuttingDown, inflight, txn, sub, seen, acked>>

Next ==
  \/ \E t \in Txns : BeginTxn(t)
  \/ \E t \in Txns, n \in Nodes, v \in NodeViews : PutNode(t, n, v)
  \/ \E t \in Txns, e \in Edges, v \in EdgeViews : PutEdge(t, e, v)
  \/ \E t \in Txns, n \in Nodes : DeleteNode(t, n)
  \/ \E t \in Txns, e \in Edges : DeleteEdge(t, e)
  \/ \E t \in Txns : Abort(t)
  \/ \E t \in Txns : CommitAppend(t)
  \/ Publish
  \/ \E s \in Subscribers : SubscribeCommits(s)
  \/ \E s \in Subscribers : NextChange(s)
  \/ Shutdown
  \/ Crash
  \/ Reopen

Spec == Init /\ [][Next]_vars

-----------------------------------------------------------------------------
(* Type correctness: the one type invariant of this module.                 *)
IsVersion(r, views) ==
  r \in [view : views \union {Absent}, begin : 1..MaxCommit, tombstone : BOOLEAN]

IsStaged(r) ==
  /\ DOMAIN r.putNodes \subseteq Nodes /\ DOMAIN r.putEdges \subseteq Edges
  /\ r.deleteNodes \subseteq Nodes \ DOMAIN r.putNodes
  /\ r.deleteEdges \subseteq Edges \ DOMAIN r.putEdges
  /\ \A n \in DOMAIN r.putNodes : r.putNodes[n] \in NodeViews
  /\ \A e \in DOMAIN r.putEdges : r.putEdges[e] \in EdgeViews

TypeOK ==
  /\ \A i \in DOMAIN durable :
       IsStaged(durable[i]) /\ durable[i].commit = i /\ durable[i].txn \in Txns
  /\ up \in BOOLEAN /\ latest \in 0..MaxCommit /\ shuttingDown \in BOOLEAN
  /\ \A n \in Nodes, i \in 1..MaxCommit :
       i \in DOMAIN nodes[n] => IsVersion(nodes[n][i], NodeViews)
  /\ \A e \in Edges, i \in 1..MaxCommit :
       i \in DOMAIN edges[e] => IsVersion(edges[e][i], EdgeViews)
  /\ inflight \in Txns \union {NoTxn}
  /\ \A t \in Txns : txn[t].status \in {"none", "open", "closed"} /\ IsStaged(txn[t])
  /\ sub \in [Subscribers -> [open : BOOLEAN, after : 0..MaxCommit]]
  /\ acked \subseteq 1..MaxCommit

-----------------------------------------------------------------------------
(* The reference: replay the groups of the file, with no versions at all.   *)
Apply(g, group) ==
  [node |-> [n \in Nodes |-> IF n \in group.deleteNodes THEN Absent
                             ELSE IF n \in DOMAIN group.putNodes THEN group.putNodes[n]
                             ELSE g.node[n]],
   edge |-> [e \in Edges |-> IF e \in group.deleteEdges THEN Absent
                             ELSE IF e \in DOMAIN group.putEdges THEN group.putEdges[e]
                             ELSE g.edge[e]]]

Replay(groups) ==
  LET after[c \in 0..Len(groups)] ==
        IF c = 0 THEN EmptyGraph ELSE Apply(after[c - 1], groups[c])
  IN  after

GraphAfter == Replay(durable)

(* Every snapshot of every commit at every valid time shows what replaying  *)
(* the file up to that commit gives, whether the version maps grew commit   *)
(* by commit or were rebuilt by load (latest_at, make_snapshot_locked).     *)
SnapshotsMatchReplay ==
  up => \A c \in 0..latest, t \in Times : Snapshot(c, t) = Visible(GraphAfter[c], t)

(* Across crashes and resubscriptions a client that resumes after the last  *)
(* change it processed sees durable changes in commit order, none of them   *)
(* twice, and misses none that mutates something up to the last it has seen *)
(* (CommitSubscription::next over a change log that load rebuilds).         *)
ConsumersExactlyOnce ==
  \A s \in Subscribers :
    /\ \A i, j \in DOMAIN seen[s] : i < j => seen[s][i].commit < seen[s][j].commit
    /\ \A i \in DOMAIN seen[s] : \E k \in DOMAIN durable : seen[s][i] = ChangeOf(durable[k])
    /\ \A k \in DOMAIN durable :
         \/ durable[k].commit > LastSeen(s) \/ IsEmptyChange(ChangeOf(durable[k]))
         \/ \E i \in DOMAIN seen[s] : seen[s][i] = ChangeOf(durable[k])

(* The store implements the sequence of graphs it promises: no commit       *)
(* changes an earlier graph, and the edges it puts have their endpoints,    *)
(* although validation reads the head at commit time.                       *)
Graphs == INSTANCE TemporalGraph WITH
  history <- [c \in 1..Len(durable) |-> GraphAfter[c]]

ImplementsTemporalGraph == Graphs!Spec

(* Seen from its file the store is the same atomic log that CommitLog       *)
(* implements with records: this is where the two models meet.              *)
Log == INSTANCE AtomicLog WITH
  log  <- [i \in DOMAIN durable |-> durable[i].txn],
  head <- IF up THEN latest ELSE -1

ImplementsAtomicLog == Log!Spec

(* docs/ARCHITECTURE.md: commit subscriptions "are reconstructed from       *)
(* durable transaction records on reopen".                                  *)
ChangeLogSurvivesReopen ==
  up => changeLog = [i \in 1..latest |-> ChangeOf(durable[i])]
=============================================================================
