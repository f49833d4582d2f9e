-------------------------- MODULE GraphStoreProofs --------------------------
(***************************************************************************)
(* Theorems about one store over its file, for any nodes, edges, views,    *)
(* transactions and subscribers, and any number of commits and mutations.  *)
(*                                                                         *)
(* Everything the store keeps in memory is a function of the prefix of the *)
(* file up to its head: the version map of a node lists what the groups of *)
(* that prefix say of the node, in commit order, and the change log lists  *)
(* at least the groups that mutate something.  The inductive invariant     *)
(* says so of the memory that grew commit by commit and of the memory load *)
(* rebuilt, and snapshots, subscriptions and both refinements follow.      *)
(***************************************************************************)
EXTENDS GraphStore, SequenceTheorems, FiniteSetTheorems, FunctionTheorems,
        WellFoundedInduction, TLAPS

(* Partial functions from D to R: what a transaction stages to put.         *)
Partial(D, R) == UNION {[X -> R] : X \in SUBSET D}

TxnType ==
  [status : {"none", "open", "closed"},
   putNodes : Partial(Nodes, NodeViews), putEdges : Partial(Edges, EdgeViews),
   deleteNodes : SUBSET Nodes, deleteEdges : SUBSET Edges]

GroupType ==
  [commit : Nat, txn : Txns,
   putNodes : Partial(Nodes, NodeViews), putEdges : Partial(Edges, EdgeViews),
   deleteNodes : SUBSET Nodes, deleteEdges : SUBSET Edges]

NotBoth(r) ==
  /\ r.deleteNodes \intersect DOMAIN r.putNodes = {}
  /\ r.deleteEdges \intersect DOMAIN r.putEdges = {}

(* q lists the values of the function R, whose domain is a set of commit    *)
(* numbers, in the order of those numbers.                                  *)
Lists(q, R) ==
  /\ q \in Seq({R[k] : k \in DOMAIN R})
  /\ \E key \in [1..Len(q) -> DOMAIN R] :
       /\ \A i \in 1..Len(q) : q[i] = R[key[i]]
       /\ \A i, j \in 1..Len(q) : i < j => key[i] < key[j]
       /\ \A k \in DOMAIN R : \E i \in 1..Len(q) : key[i] = k

(* What the first c groups of D say of a node, of an edge, and of the       *)
(* commits in the set K.                                                    *)
NodeRecords(D, c, n) ==
  [k \in {m \in 1..c : n \in DOMAIN D[m].putNodes \union D[m].deleteNodes} |->
     IF n \in D[k].deleteNodes THEN Tombstone(k) ELSE Version(D[k].putNodes[n], k)]

EdgeRecords(D, c, e) ==
  [k \in {m \in 1..c : e \in DOMAIN D[m].putEdges \union D[m].deleteEdges} |->
     IF e \in D[k].deleteEdges THEN Tombstone(k) ELSE Version(D[k].putEdges[e], k)]

Changes(D, K) == [k \in K |-> ChangeOf(D[k])]

Mutating(D, c) == {k \in 1..c : ~IsEmptyChange(ChangeOf(D[k]))}

-----------------------------------------------------------------------------
(* The inductive invariant, part by part.                                   *)
InvDurable ==
  /\ durable \in Seq(GroupType) /\ Len(durable) <= MaxCommit
  /\ \A i \in 1..Len(durable) :
       /\ durable[i].commit = i /\ NotBoth(durable[i])
       /\ \/ txn[durable[i].txn].status = "closed"
          \/ durable[i].txn = inflight /\ i = Len(durable)

InvTxn ==
  /\ txn \in [Txns -> TxnType]
  /\ \A t \in Txns : NotBoth(txn[t])

InvHead ==
  /\ up \in BOOLEAN /\ shuttingDown \in BOOLEAN /\ latest \in Nat
  /\ inflight \in Txns \union {NoTxn}
  /\ up /\ inflight = NoTxn => latest = Len(durable)
  /\ ~up => latest = 0 /\ inflight = NoTxn
  /\ inflight # NoTxn =>
       /\ Len(durable) = latest + 1
       /\ txn[inflight].status = "open"
       /\ durable[latest + 1] = GroupFor(inflight, latest + 1)
  /\ acked \subseteq 1..Len(durable)

InvMaps ==
  /\ DOMAIN nodes = Nodes /\ \A n \in Nodes : Lists(nodes[n], NodeRecords(durable, latest, n))
  /\ DOMAIN edges = Edges /\ \A e \in Edges : Lists(edges[e], EdgeRecords(durable, latest, e))

InvChangeLog ==
  \E K \in SUBSET (1..latest) :
    Mutating(durable, latest) \subseteq K /\ Lists(changeLog, Changes(durable, K))

InvSeen ==
  /\ seen \in [Subscribers -> Seq({ChangeOf(durable[k]) : k \in 1..Len(durable)})]
  /\ sub \in [Subscribers -> [open : BOOLEAN, after : Nat]]
  /\ \A s \in Subscribers :
       /\ sub[s].open => up /\ sub[s].after = LastSeen(s)
       /\ sub[s].after <= MaxCommit

IInv ==
  InvDurable /\ InvTxn /\ InvHead /\ InvMaps /\ InvChangeLog /\ InvSeen /\ ConsumersExactlyOnce

-----------------------------------------------------------------------------
(* The order of the naturals is well founded, as a set of pairs.            *)
LEMMA LessThanWellFounded ==
  IsWellFoundedOn({p \in Nat \X Nat : p[1] < p[2]}, Nat)
  <1>1. IsWellFoundedOn(OpToRel(<, Nat), Nat)
    BY NatLessThanWellFounded
  <1> QED
    BY <1>1 DEF OpToRel

(* A non-empty set of naturals has a smallest element.                      *)
LEMMA MinExists ==
  ASSUME NEW T \in SUBSET Nat, T # {}
  PROVE  \E x \in T : \A y \in T : x <= y
  <1> DEFINE R == {p \in Nat \X Nat : p[1] < p[2]}
  <1>1. IsWellFoundedOn(R, Nat)
    BY LessThanWellFounded
  <1> HIDE DEF R
  <1>2. PICK x \in T : \A y \in T : ~(<<y, x>> \in R)
    BY <1>1, WFMin
  <1>3. \A y \in T : x <= y
    <2>1. SUFFICES ASSUME NEW y \in T, y < x PROVE FALSE
      OBVIOUS
    <2>2. <<y, x>> \in R
      BY <2>1 DEF R
    <2> QED
      BY <1>2, <2>2
  <1> QED
    BY <1>3

(* A non-empty bounded set of naturals has a largest element.               *)
LEMMA MaxExists ==
  ASSUME NEW n \in Nat, NEW T \in SUBSET (0..n), T # {}
  PROVE  \E x \in T : \A y \in T : y <= x
  <1> DEFINE U == {n - x : x \in T}
  <1>1. U \in SUBSET Nat /\ U # {}
    OBVIOUS
  <1>2. PICK u \in U : \A v \in U : u <= v
    BY <1>1, MinExists
  <1>3. PICK x \in T : u = n - x
    OBVIOUS
  <1>4. \A y \in T : y <= x
    <2>1. TAKE y \in T
    <2>2. n - y \in U
      OBVIOUS
    <2> QED
      BY <1>2, <1>3, <2>2
  <1> QED
    BY <1>4

-----------------------------------------------------------------------------
(* A finite set of naturals can be listed in ascending order.               *)
LEMMA AscendingExists ==
  ASSUME NEW T \in SUBSET Nat, IsFiniteSet(T)
  PROVE  \E key \in [1..Cardinality(T) -> T] :
           \A i, j \in 1..Cardinality(T) : i < j => key[i] < key[j]
  <1> DEFINE Listed(U) == \E key \in [1..Cardinality(U) -> U] :
                            \A i, j \in 1..Cardinality(U) : i < j => key[i] < key[j]
             Bad == {m \in Nat : \E U \in SUBSET Nat :
                       IsFiniteSet(U) /\ Cardinality(U) = m /\ ~Listed(U)}
  <1>1. SUFFICES Bad = {}
    <2>1. Cardinality(T) \in Nat
      BY FS_CardinalityType
    <2> QED
      BY <2>1
  <1>2. SUFFICES ASSUME Bad # {} PROVE FALSE
    OBVIOUS
  <1>3. PICK m \in Bad : \A x \in Bad : m <= x
    BY <1>2, MinExists
  <1>4. PICK U \in SUBSET Nat : IsFiniteSet(U) /\ Cardinality(U) = m /\ ~Listed(U)
    BY <1>3
  <1>5. U # {}
    <2>1. CASE U = {}
      <3>1. 1..Cardinality(U) = {}
        BY <2>1, FS_EmptySet
      <3>2. [i \in {} |-> 0] \in [{} -> U]
        OBVIOUS
      <3> QED
        BY <3>1, <3>2, <1>4
    <2> QED
      BY <2>1
  <1>6. PICK a \in U : \A y \in U : a <= y
    BY <1>5, MinExists
  <1> DEFINE V == U \ {a}
  <1>7. IsFiniteSet(V) /\ Cardinality(V) = m - 1 /\ m - 1 \in Nat
    <2>1. IsFiniteSet(U \ {a}) /\ Cardinality(U \ {a}) = Cardinality(U) - 1
      BY <1>4, <1>6, FS_RemoveElement
    <2>2. IsFiniteSet(V) /\ Cardinality(V) = m - 1
      BY <1>4, <2>1
    <2> QED
      BY <2>2, FS_CardinalityType
  <1>8. PICK key \in [1..(m-1) -> V] : \A i, j \in 1..(m-1) : i < j => key[i] < key[j]
    <2>1. m - 1 \notin Bad
      BY <1>3, <1>7
    <2>2. V \in SUBSET Nat
      OBVIOUS
    <2>3. Listed(V)
      BY <1>7, <2>1, <2>2
    <2> QED
      BY <1>7, <2>3
  <1> DEFINE more == [i \in 1..m |-> IF i = 1 THEN a ELSE key[i-1]]
  <1>9. more \in [1..m -> U]
    BY <1>7
  <1>10. \A i, j \in 1..m : i < j => more[i] < more[j]
    <2>1. SUFFICES ASSUME NEW i \in 1..m, NEW j \in 1..m, i < j PROVE more[i] < more[j]
      OBVIOUS
    <2>2. j - 1 \in 1..(m-1) /\ more[j] = key[j-1] /\ key[j-1] \in V
      BY <2>1, <1>7
    <2>3. CASE i = 1
      <3>1. more[i] = a /\ key[j-1] # a /\ key[j-1] \in U
        BY <2>2, <2>3, <1>3
      <3>2. a <= key[j-1] /\ a \in Nat /\ key[j-1] \in Nat
        BY <3>1, <1>6
      <3> QED
        BY <2>2, <3>1, <3>2
    <2>4. CASE i # 1
      <3>1. i - 1 \in 1..(m-1) /\ more[i] = key[i-1] /\ i - 1 < j - 1
        BY <2>1, <2>4, <1>7
      <3> QED
        BY <2>2, <3>1, <1>8
    <2> QED
      BY <2>3, <2>4
  <1> QED
    BY <1>4, <1>9, <1>10

(* An ascending list of as many elements as the set has reaches all of it.  *)
LEMMA AscendingReaches ==
  ASSUME NEW T \in SUBSET Nat, IsFiniteSet(T),
         NEW key \in [1..Cardinality(T) -> T],
         \A i, j \in 1..Cardinality(T) : i < j => key[i] < key[j]
  PROVE  \A k \in T : \E i \in 1..Cardinality(T) : key[i] = k
  <1> DEFINE n == Cardinality(T)
             U == {key[i] : i \in 1..n}
  <1>1. n \in Nat
    BY FS_CardinalityType
  <1>2. IsFiniteSet(1..n) /\ Cardinality(1..n) = n
    BY <1>1, FS_Interval
  <1>3. key \in Bijection(1..n, U)
    <2>1. key \in [1..n -> U]
      OBVIOUS
    <2>2. \A i, j \in 1..n : key[i] = key[j] => i = j
      <3>1. \A i \in 1..n : key[i] \in Nat
        OBVIOUS
      <3> QED
        BY <1>1, <3>1
    <2> QED
      BY <2>1, <2>2 DEF Bijection, Injection, Surjection, IsInjective
  <1>4. Cardinality(U) = n
    <2>1. \A S, W, f : IsFiniteSet(S) /\ f \in Bijection(S, W) => Cardinality(S) = Cardinality(W)
      BY FS_Bijection DEF ExistsBijection
    <2> QED
      BY <1>2, <1>3, <2>1
  <1>5. U = T
    BY <1>4, FS_Subset
  <1> QED
    BY <1>5

-----------------------------------------------------------------------------
(* Lists of the values of a function on commit numbers.                     *)

(* Nothing to list.                                                         *)
LEMMA ListsNothing ==
  ASSUME NEW R, DOMAIN R = {}
  PROVE  Lists(<<>>, R)
  <1>1. <<>> \in Seq({R[k] : k \in DOMAIN R}) /\ Len(<<>>) = 0 /\ 1..0 = {}
    BY EmptySeq
  <1>2. [i \in {} |-> 0] \in [{} -> DOMAIN R]
    OBVIOUS
  <1>3. \E key \in [1..Len(<<>>) -> DOMAIN R] : TRUE
    BY <1>1, <1>2
  <1> QED
    BY <1>1, <1>3 DEF Lists

(* A function with one more, later, value is listed by appending it.        *)
LEMMA ListsAppend ==
  ASSUME NEW R, NEW RR, NEW m \in Nat, NEW q, Lists(q, R),
         DOMAIN R \subseteq Nat, \A k \in DOMAIN R : k < m,
         DOMAIN RR = DOMAIN R \union {m},
         \A k \in DOMAIN R : RR[k] = R[k]
  PROVE  Lists(Append(q, RR[m]), RR)
  <1> DEFINE V == {RR[k] : k \in DOMAIN RR}
             n == Len(q)
             g == Append(q, RR[m])
  <1>1. q \in Seq(V)
    <2>1. {R[k] : k \in DOMAIN R} \subseteq V
      OBVIOUS
    <2> QED
      BY <2>1 DEF Lists
  <1>2. RR[m] \in V
    OBVIOUS
  <1> HIDE DEF V
  <1>3. /\ n \in Nat /\ Len(g) = n + 1 /\ g \in Seq(V)
        /\ \A i \in 1..n : g[i] = q[i]
        /\ g[n+1] = RR[m]
    BY <1>1, <1>2, AppendProperties, LenProperties
  <1>4. PICK key \in [1..n -> DOMAIN R] :
          /\ \A i \in 1..n : q[i] = R[key[i]]
          /\ \A i, j \in 1..n : i < j => key[i] < key[j]
          /\ \A k \in DOMAIN R : \E i \in 1..n : key[i] = k
    BY DEF Lists
  <1> DEFINE more == [i \in 1..(n+1) |-> IF i = n + 1 THEN m ELSE key[i]]
  <1> HIDE DEF n, g
  <1>5. more \in [1..(n+1) -> DOMAIN RR]
    BY <1>3
  <1>6. \A i \in 1..(n+1) : g[i] = RR[more[i]]
    BY <1>3, <1>4
  <1>7. \A i, j \in 1..(n+1) : i < j => more[i] < more[j]
    BY <1>3, <1>4
  <1>8. \A k \in DOMAIN RR : \E i \in 1..(n+1) : more[i] = k
    <2>1. TAKE k \in DOMAIN RR
    <2>2. CASE k = m
      BY <2>2, <1>3
    <2>3. CASE k \in DOMAIN R
      <3>1. PICK i \in 1..n : key[i] = k
        BY <2>3, <1>4
      <3>2. i \in 1..(n+1) /\ more[i] = k
        BY <3>1, <1>3
      <3> QED
        BY <3>2
    <2> QED
      BY <2>2, <2>3
  <1> HIDE DEF more
  <1>9. /\ more \in [1..Len(g) -> DOMAIN RR]
        /\ \A i \in 1..Len(g) : g[i] = RR[more[i]]
        /\ \A i, j \in 1..Len(g) : i < j => more[i] < more[j]
        /\ \A k \in DOMAIN RR : \E i \in 1..Len(g) : more[i] = k
    BY <1>3, <1>5, <1>6, <1>7, <1>8
  <1>10. g \in Seq({RR[k] : k \in DOMAIN RR})
    BY <1>3 DEF V
  <1>11. Lists(g, RR)
    BY <1>9, <1>10 DEF Lists
  <1> QED
    BY <1>11 DEF g

(* What a list lists: its elements are values of R, in the order of their   *)
(* commits, and every value is there.                                       *)
LEMMA ListsElements ==
  ASSUME NEW R, NEW q, Lists(q, R), DOMAIN R \subseteq Nat
  PROVE  \E key \in [1..Len(q) -> DOMAIN R] :
           /\ Len(q) \in Nat /\ DOMAIN q = 1..Len(q)
           /\ \A i \in 1..Len(q) : q[i] = R[key[i]]
           /\ \A i, j \in 1..Len(q) : i < j <=> key[i] < key[j]
           /\ \A k \in DOMAIN R : \E i \in 1..Len(q) : key[i] = k
  <1>1. Len(q) \in Nat /\ DOMAIN q = 1..Len(q)
    BY LenProperties DEF Lists
  <1>2. PICK key \in [1..Len(q) -> DOMAIN R] :
          /\ \A i \in 1..Len(q) : q[i] = R[key[i]]
          /\ \A i, j \in 1..Len(q) : i < j => key[i] < key[j]
          /\ \A k \in DOMAIN R : \E i \in 1..Len(q) : key[i] = k
    BY DEF Lists
  <1>3. \A i, j \in 1..Len(q) : key[i] < key[j] => i < j
    <2>1. TAKE i, j \in 1..Len(q)
    <2>2. key[i] \in Nat /\ key[j] \in Nat
      OBVIOUS
    <2>3. j < i => key[j] < key[i]
      BY <1>2
    <2> QED
      BY <1>1, <2>2, <2>3
  <1> QED
    BY <1>1, <1>2, <1>3

(* An injective function on a finite set has as many values as arguments.   *)
LEMMA ValuesCardinality ==
  ASSUME NEW R, IsFiniteSet(DOMAIN R), \A a, b \in DOMAIN R : R[a] = R[b] => a = b
  PROVE  Cardinality({R[k] : k \in DOMAIN R}) = Cardinality(DOMAIN R)
  <1> DEFINE f == [k \in DOMAIN R |-> R[k]]
             V == {R[k] : k \in DOMAIN R}
  <1>1. f \in Bijection(DOMAIN R, V)
    BY DEF Bijection, Injection, Surjection, IsInjective
  <1>2. \A S, W, h : IsFiniteSet(S) /\ h \in Bijection(S, W) => Cardinality(S) = Cardinality(W)
    BY FS_Bijection DEF ExistsBijection
  <1> QED
    BY <1>1, <1>2

(* What load sorts by commit lists the records: with one record for each    *)
(* commit that touches the element there is only one order.                 *)
LEMMA InOrderLists ==
  ASSUME NEW R, IsFiniteSet(DOMAIN R), DOMAIN R \subseteq Nat,
         NEW C \in [{R[k] : k \in DOMAIN R} -> Nat],
         \A k \in DOMAIN R : C[R[k]] = k,
         NEW q \in [1..Cardinality({R[k] : k \in DOMAIN R}) -> {R[k] : k \in DOMAIN R}],
         \A i, j \in DOMAIN q : i < j => C[q[i]] < C[q[j]]
  PROVE  Lists(q, R)
  <1> DEFINE V == {R[k] : k \in DOMAIN R}
             n == Cardinality(DOMAIN R)
             key == [i \in 1..n |-> C[q[i]]]
  <1>1. Cardinality(V) = n /\ n \in Nat
    BY ValuesCardinality, FS_CardinalityType
  <1>2. q \in Seq(V) /\ Len(q) = n /\ DOMAIN q = 1..n
    <2>1. q \in [1..n -> V]
      BY <1>1
    <2> QED
      BY <1>1, <2>1, SeqDef, LenProperties
  <1>3. key \in [1..n -> DOMAIN R] /\ \A i \in 1..n : q[i] = R[key[i]]
    <2>1. \A i \in 1..n : q[i] \in V
      BY <1>1
    <2>2. \A v \in V : C[v] \in DOMAIN R /\ v = R[C[v]]
      OBVIOUS
    <2> QED
      BY <2>1, <2>2
  <1>4. \A i, j \in 1..n : i < j => key[i] < key[j]
    BY <1>2
  <1> HIDE DEF key, n
  <1>5. \A k \in DOMAIN R : \E i \in 1..n : key[i] = k
    <2>1. key \in [1..Cardinality(DOMAIN R) -> DOMAIN R]
      BY <1>3 DEF n
    <2>2. \A i, j \in 1..Cardinality(DOMAIN R) : i < j => key[i] < key[j]
      BY <1>4 DEF n
    <2>3. \A k \in DOMAIN R : \E i \in 1..Cardinality(DOMAIN R) : key[i] = k
      <3> DEFINE T == DOMAIN R
      <3>1. T \in SUBSET Nat /\ IsFiniteSet(T) /\ key \in [1..Cardinality(T) -> T]
        BY <2>1
      <3>2. \A i, j \in 1..Cardinality(T) : i < j => key[i] < key[j]
        BY <2>2
      <3> HIDE DEF T
      <3>3. \A k \in T : \E i \in 1..Cardinality(T) : key[i] = k
        BY <3>1, <3>2, AscendingReaches
      <3> QED
        BY <3>3 DEF T
    <2> QED
      BY <2>3 DEF n
  <1> QED
    BY <1>2, <1>3, <1>4, <1>5 DEF Lists

(* An order that load can sort by exists.                                   *)
LEMMA InOrderExists ==
  ASSUME NEW R, IsFiniteSet(DOMAIN R), DOMAIN R \subseteq Nat,
         NEW C \in [{R[k] : k \in DOMAIN R} -> Nat],
         \A k \in DOMAIN R : C[R[k]] = k
  PROVE  \E q \in [1..Cardinality({R[k] : k \in DOMAIN R}) -> {R[k] : k \in DOMAIN R}] :
           \A i, j \in DOMAIN q : i < j => C[q[i]] < C[q[j]]
  <1> DEFINE V == {R[k] : k \in DOMAIN R}
             n == Cardinality(DOMAIN R)
  <1>1. Cardinality(V) = n
    <2>1. \A a, b \in DOMAIN R : R[a] = R[b] => a = b
      <3>1. TAKE a, b \in DOMAIN R
      <3>2. HAVE R[a] = R[b]
      <3>3. C[R[a]] = C[R[b]]
        BY <3>2
      <3> QED
        BY <3>3
    <2> QED
      BY <2>1, ValuesCardinality
  <1>2. PICK key \in [1..n -> DOMAIN R] : \A i, j \in 1..n : i < j => key[i] < key[j]
    BY AscendingExists
  <1> DEFINE q == [i \in 1..n |-> R[key[i]]]
  <1>3. q \in [1..n -> V]
    OBVIOUS
  <1>4. \A i, j \in DOMAIN q : i < j => C[q[i]] < C[q[j]]
    BY <1>2
  <1> QED
    BY <1>1, <1>3, <1>4

(* The history load sorts lists the records it was made from.               *)
LEMMA LoadHistoryLists ==
  ASSUME NEW R, IsFiniteSet(DOMAIN R), DOMAIN R \subseteq Nat,
         \A k \in DOMAIN R : R[k].begin = k,
         NEW A, NEW B, A \union B = {R[k] : k \in DOMAIN R}
  PROVE  Lists(LoadHistory(A, B), R)
  <1> DEFINE V == {R[k] : k \in DOMAIN R}
             C == [v \in V |-> v.begin]
             Sorted(q) == \A i, j \in DOMAIN q : i < j => q[i].begin < q[j].begin
             h == CHOOSE q \in [1..Cardinality(V) -> V] : Sorted(q)
  <1>1. C \in [V -> Nat] /\ \A k \in DOMAIN R : C[R[k]] = k
    OBVIOUS
  <1>2. PICK p \in [1..Cardinality(V) -> V] : \A i, j \in DOMAIN p : i < j => C[p[i]] < C[p[j]]
    <2> HIDE DEF C
    <2> QED
      BY <1>1, InOrderExists
  <1>3. Sorted(p)
    BY <1>2
  <1>4. h \in [1..Cardinality(V) -> V] /\ Sorted(h)
    <2> HIDE DEF V, Sorted
    <2> QED
      BY <1>2, <1>3
  <1> HIDE DEF h
  <1>5. \A i, j \in DOMAIN h : i < j => C[h[i]] < C[h[j]]
    BY <1>4
  <1>6. Lists(h, R)
    <2> HIDE DEF C
    <2> QED
      BY <1>1, <1>4, <1>5, InOrderLists
  <1>7. LoadHistory(A, B) = h
    BY DEF LoadHistory, InOrder, LoadOrder, h
  <1> QED
    BY <1>6, <1>7

(* Nothing of a history is visible before its first record.                 *)
LEMMA LatestAtZero ==
  ASSUME NEW R, DOMAIN R \subseteq Nat \ {0}, \A k \in DOMAIN R : R[k].begin = k,
         NEW h, Lists(h, R)
  PROVE  LatestAt(h, 0) = Tombstone(0)
  <1>1. PICK key \in [1..Len(h) -> DOMAIN R] :
           /\ Len(h) \in Nat /\ DOMAIN h = 1..Len(h)
           /\ \A i \in 1..Len(h) : h[i] = R[key[i]]
    BY ListsElements
  <1>2. \A i \in DOMAIN h : ~(h[i].begin <= 0)
    BY <1>1
  <1> QED
    BY <1>2 DEF LatestAt

(* A commit that touches the element shows its own record; any other shows  *)
(* what the commit before it shows.                                         *)
LEMMA LatestAtStep ==
  ASSUME NEW R, DOMAIN R \subseteq Nat \ {0}, \A k \in DOMAIN R : R[k].begin = k,
         NEW h, Lists(h, R), NEW c \in Nat \ {0}
  PROVE  LatestAt(h, c) = IF c \in DOMAIN R THEN R[c] ELSE LatestAt(h, c - 1)
  <1>1. PICK key \in [1..Len(h) -> DOMAIN R] :
           /\ Len(h) \in Nat /\ DOMAIN h = 1..Len(h)
           /\ \A i \in 1..Len(h) : h[i] = R[key[i]]
           /\ \A i, j \in 1..Len(h) : i < j <=> key[i] < key[j]
           /\ \A k \in DOMAIN R : \E i \in 1..Len(h) : key[i] = k
    BY ListsElements
  <1> DEFINE seenAt == {i \in DOMAIN h : h[i].begin <= c}
             before == {i \in DOMAIN h : h[i].begin <= c - 1}
  <1>2. \A i \in DOMAIN h : h[i].begin = key[i] /\ key[i] \in Nat \ {0}
    BY <1>1
  <1>3. CASE c \in DOMAIN R
    <2>1. PICK i \in 1..Len(h) : key[i] = c
      BY <1>1, <1>3
    <2>2. i \in seenAt /\ \A j \in seenAt : j <= i
      <3>1. \A j \in seenAt : key[j] <= key[i] /\ j \in Nat /\ i \in Nat
        BY <1>1, <1>2, <2>1
      <3>2. \A j \in seenAt : ~(i < j)
        <4>1. TAKE j \in seenAt
        <4>2. i < j => key[i] < key[j]
          BY <1>1
        <4> QED
          BY <4>2, <3>1, <1>2, <1>1
      <3> QED
        BY <1>1, <1>2, <2>1, <3>1, <3>2
    <2>3. (CHOOSE x \in seenAt : \A j \in seenAt : j <= x) = i
      <3>1. \A x \in seenAt : (\A j \in seenAt : j <= x) => x = i
        BY <1>1, <2>2
      <3> HIDE DEF seenAt
      <3> QED
        BY <2>2, <3>1
    <2>4. LatestAt(h, c) = h[i]
      BY <2>2, <2>3 DEF LatestAt
    <2> QED
      BY <2>1, <2>4, <1>1, <1>3
  <1>4. CASE c \notin DOMAIN R
    <2>1. seenAt = before
      BY <1>1, <1>2, <1>4
    <2>2. LatestAt(h, c) = LatestAt(h, c - 1)
      <3> DEFINE Last(S) == IF S = {} THEN Tombstone(0)
                            ELSE h[CHOOSE i \in S : \A j \in S : j <= i]
      <3>1. LatestAt(h, c) = Last(seenAt)
        BY DEF LatestAt
      <3>2. LatestAt(h, c - 1) = Last(before)
        BY DEF LatestAt
      <3> HIDE DEF Last, seenAt, before
      <3> QED
        BY <2>1, <3>1, <3>2
    <2> QED
      BY <2>2, <1>4
  <1> QED
    BY <1>3, <1>4

-----------------------------------------------------------------------------
(* Sequences of groups, and what they say of an element.                    *)

(* A group of the file, field by field.                                     *)
LEMMA GroupFields ==
  ASSUME NEW D \in Seq(GroupType), NEW k \in 1..Len(D)
  PROVE  /\ D[k] \in GroupType
         /\ DOMAIN D[k].putNodes \in SUBSET Nodes /\ DOMAIN D[k].putEdges \in SUBSET Edges
         /\ D[k].deleteNodes \in SUBSET Nodes /\ D[k].deleteEdges \in SUBSET Edges
         /\ \A n \in DOMAIN D[k].putNodes : D[k].putNodes[n] \in NodeViews
         /\ \A e \in DOMAIN D[k].putEdges : D[k].putEdges[e] \in EdgeViews
  <1>1. D[k] \in GroupType
    BY ElementOfSeq
  <1> QED
    BY <1>1 DEF GroupType, Partial

(* Commit numbers up to a head are finitely many naturals.                  *)
LEMMA CommitsFinite ==
  ASSUME NEW c \in Nat, NEW K \in SUBSET (1..c)
  PROVE  IsFiniteSet(K) /\ K \subseteq Nat \ {0} /\ K \subseteq Nat
  <1>1. IsFiniteSet(1..c)
    BY FS_Interval
  <1>2. IsFiniteSet(K)
    <2> DEFINE S == 1..c
    <2> HIDE DEF S
    <2> QED
      BY <1>1, FS_Subset DEF S
  <1> QED
    BY <1>2

(* The records of an element carry the commit that made them.               *)
LEMMA RecordsBegin ==
  ASSUME NEW D, NEW c \in Nat, NEW x
  PROVE  /\ DOMAIN NodeRecords(D, c, x) \in SUBSET (1..c)
         /\ DOMAIN EdgeRecords(D, c, x) \in SUBSET (1..c)
         /\ IsFiniteSet(DOMAIN NodeRecords(D, c, x)) /\ IsFiniteSet(DOMAIN EdgeRecords(D, c, x))
         /\ \A k \in DOMAIN NodeRecords(D, c, x) : NodeRecords(D, c, x)[k].begin = k
         /\ \A k \in DOMAIN EdgeRecords(D, c, x) : EdgeRecords(D, c, x)[k].begin = k
  BY CommitsFinite DEF NodeRecords, EdgeRecords, Version, Tombstone

(* A group appended to the file says nothing of the commits before it.      *)
LEMMA RecordsKeep ==
  ASSUME NEW D \in Seq(GroupType), NEW g \in GroupType, NEW c \in 0..Len(D), NEW x
  PROVE  /\ NodeRecords(Append(D, g), c, x) = NodeRecords(D, c, x)
         /\ EdgeRecords(Append(D, g), c, x) = EdgeRecords(D, c, x)
         /\ Mutating(Append(D, g), c) = Mutating(D, c)
         /\ \A K \in SUBSET (1..c) : Changes(Append(D, g), K) = Changes(D, K)
  <1> DEFINE E == Append(D, g)
  <1>1. \A k \in 1..c : E[k] = D[k]
    BY AppendProperties, LenProperties
  <1> HIDE DEF E
  <1>2. NodeRecords(E, c, x) = NodeRecords(D, c, x)
    BY <1>1 DEF NodeRecords
  <1>3. EdgeRecords(E, c, x) = EdgeRecords(D, c, x)
    BY <1>1 DEF EdgeRecords
  <1>4. Mutating(E, c) = Mutating(D, c)
    BY <1>1 DEF Mutating
  <1>5. ASSUME NEW K \in SUBSET (1..c) PROVE Changes(E, K) = Changes(D, K)
    BY <1>1 DEF Changes
  <1> QED
    BY <1>2, <1>3, <1>4, <1>5 DEF E

(* The file's groups as load sees them: a well-formed sequence in commit    *)
(* order.                                                                   *)
WellFormed(D) ==
  /\ D \in Seq(GroupType)
  /\ \A k \in 1..Len(D) : D[k].commit = k /\ NotBoth(D[k])

(* load rebuilds for each node and edge the list of all that the file says  *)
(* of it.                                                                   *)
LEMMA LoadMaps ==
  ASSUME WellFormed(durable)
  PROVE  /\ \A n \in Nodes : Lists(LoadNode(n), NodeRecords(durable, Len(durable), n))
         /\ \A e \in Edges : Lists(LoadEdge(e), EdgeRecords(durable, Len(durable), e))
  <1> DEFINE c == Len(durable)
  <1>1. c \in Nat /\ DOMAIN durable = 1..c
    BY LenProperties DEF WellFormed
  <1>2. \A k \in 1..c : /\ durable[k].commit = k
                        /\ durable[k].deleteNodes \intersect DOMAIN durable[k].putNodes = {}
                        /\ durable[k].deleteEdges \intersect DOMAIN durable[k].putEdges = {}
    BY DEF WellFormed, NotBoth
  <1> HIDE DEF c
  <1>3. ASSUME NEW n \in Nodes PROVE Lists(LoadNode(n), NodeRecords(durable, c, n))
    <2> DEFINE R == NodeRecords(durable, c, n)
               A == {Version(g.putNodes[n], g.commit) : g \in {h \in Groups : n \in DOMAIN h.putNodes}}
               B == {Tombstone(g.commit) : g \in {h \in Groups : n \in h.deleteNodes}}
    <2>1. A = {R[k] : k \in {m \in 1..c : n \in DOMAIN durable[m].putNodes}}
      <3> DEFINE P == {m \in 1..c : n \in DOMAIN durable[m].putNodes}
      <3>1. {h \in Groups : n \in DOMAIN h.putNodes} = {durable[k] : k \in P}
        BY <1>1 DEF Groups
      <3>2. A = {Version(durable[k].putNodes[n], durable[k].commit) : k \in P}
        BY <3>1
      <3>3. \A k \in P : Version(durable[k].putNodes[n], durable[k].commit) = R[k]
        BY <1>2 DEF NodeRecords
      <3> HIDE DEF A, R, P
      <3>4. A = {R[k] : k \in P}
        BY <3>2, <3>3
      <3> QED
        BY <3>4 DEF P
    <2>2. B = {R[k] : k \in {m \in 1..c : n \in durable[m].deleteNodes}}
      <3> DEFINE P == {m \in 1..c : n \in durable[m].deleteNodes}
      <3>1. {h \in Groups : n \in h.deleteNodes} = {durable[k] : k \in P}
        BY <1>1 DEF Groups
      <3>2. B = {Tombstone(durable[k].commit) : k \in P}
        BY <3>1
      <3>3. \A k \in P : Tombstone(durable[k].commit) = R[k]
        BY <1>2 DEF NodeRecords
      <3> HIDE DEF B, R, P
      <3>4. B = {R[k] : k \in P}
        BY <3>2, <3>3
      <3> QED
        BY <3>4 DEF P
    <2>3. DOMAIN R = {m \in 1..c : n \in DOMAIN durable[m].putNodes}
                       \union {m \in 1..c : n \in durable[m].deleteNodes}
      BY DEF NodeRecords
    <2>4. /\ IsFiniteSet(DOMAIN R) /\ DOMAIN R \subseteq Nat
          /\ \A k \in DOMAIN R : R[k].begin = k
      <3>1. /\ DOMAIN R \in SUBSET (1..c) /\ IsFiniteSet(DOMAIN R)
            /\ \A k \in DOMAIN R : R[k].begin = k
        <4>1. R = NodeRecords(durable, c, n)
          OBVIOUS
        <4> HIDE DEF R
        <4> QED
          BY ONLY <1>1, <4>1, RecordsBegin
      <3> HIDE DEF R
      <3> QED
        BY <1>1, <3>1
    <2> HIDE DEF R
    <2>5. A \union B = {R[k] : k \in DOMAIN R}
      <3> HIDE DEF A, B
      <3> QED
        BY <2>1, <2>2, <2>3
    <2>6. Lists(LoadHistory(A, B), R)
      <3> HIDE DEF A, B
      <3> QED
        BY <2>4, <2>5, LoadHistoryLists
    <2> QED
      BY <2>6 DEF LoadNode, R
  <1>4. ASSUME NEW e \in Edges PROVE Lists(LoadEdge(e), EdgeRecords(durable, c, e))
    <2> DEFINE R == EdgeRecords(durable, c, e)
               A == {Version(g.putEdges[e], g.commit) : g \in {h \in Groups : e \in DOMAIN h.putEdges}}
               B == {Tombstone(g.commit) : g \in {h \in Groups : e \in h.deleteEdges}}
    <2>1. A = {R[k] : k \in {m \in 1..c : e \in DOMAIN durable[m].putEdges}}
      <3> DEFINE P == {m \in 1..c : e \in DOMAIN durable[m].putEdges}
      <3>1. {h \in Groups : e \in DOMAIN h.putEdges} = {durable[k] : k \in P}
        BY <1>1 DEF Groups
      <3>2. A = {Version(durable[k].putEdges[e], durable[k].commit) : k \in P}
        BY <3>1
      <3>3. \A k \in P : Version(durable[k].putEdges[e], durable[k].commit) = R[k]
        BY <1>2 DEF EdgeRecords
      <3> HIDE DEF A, R, P
      <3>4. A = {R[k] : k \in P}
        BY <3>2, <3>3
      <3> QED
        BY <3>4 DEF P
    <2>2. B = {R[k] : k \in {m \in 1..c : e \in durable[m].deleteEdges}}
      <3> DEFINE P == {m \in 1..c : e \in durable[m].deleteEdges}
      <3>1. {h \in Groups : e \in h.deleteEdges} = {durable[k] : k \in P}
        BY <1>1 DEF Groups
      <3>2. B = {Tombstone(durable[k].commit) : k \in P}
        BY <3>1
      <3>3. \A k \in P : Tombstone(durable[k].commit) = R[k]
        BY <1>2 DEF EdgeRecords
      <3> HIDE DEF B, R, P
      <3>4. B = {R[k] : k \in P}
        BY <3>2, <3>3
      <3> QED
        BY <3>4 DEF P
    <2>3. DOMAIN R = {m \in 1..c : e \in DOMAIN durable[m].putEdges}
                       \union {m \in 1..c : e \in durable[m].deleteEdges}
      BY DEF EdgeRecords
    <2>4. /\ IsFiniteSet(DOMAIN R) /\ DOMAIN R \subseteq Nat
          /\ \A k \in DOMAIN R : R[k].begin = k
      <3>1. /\ DOMAIN R \in SUBSET (1..c) /\ IsFiniteSet(DOMAIN R)
            /\ \A k \in DOMAIN R : R[k].begin = k
        <4>1. R = EdgeRecords(durable, c, e)
          OBVIOUS
        <4> HIDE DEF R
        <4> QED
          BY ONLY <1>1, <4>1, RecordsBegin
      <3> HIDE DEF R
      <3> QED
        BY <1>1, <3>1
    <2> HIDE DEF R
    <2>5. A \union B = {R[k] : k \in DOMAIN R}
      <3> HIDE DEF A, B
      <3> QED
        BY <2>1, <2>2, <2>3
    <2>6. Lists(LoadHistory(A, B), R)
      <3> HIDE DEF A, B
      <3> QED
        BY <2>4, <2>5, LoadHistoryLists
    <2> QED
      BY <2>6 DEF LoadEdge, R
  <1> QED
    BY <1>3, <1>4 DEF c

(* The change log load rebuilds lists the changes that mutate something.    *)
LEMMA LoadLog ==
  ASSUME WellFormed(durable)
  PROVE  Lists(LoadedChanges, Changes(durable, Mutating(durable, Len(durable))))
  <1> DEFINE c == Len(durable)
             K == Mutating(durable, c)
             R == Changes(durable, K)
             V == {R[k] : k \in DOMAIN R}
             C == [v \in V |-> v.commit]
             Sorted(q) == \A i, j \in DOMAIN q : i < j => q[i].commit < q[j].commit
             h == CHOOSE q \in [1..Cardinality(V) -> V] : Sorted(q)
  <1>1. c \in Nat /\ DOMAIN durable = 1..c
    BY LenProperties DEF WellFormed
  <1>2. DOMAIN R = K /\ K \in SUBSET (1..c) /\ \A k \in K : R[k] = ChangeOf(durable[k])
    BY DEF Changes, Mutating
  <1>3. \A k \in K : R[k].commit = k
    BY <1>2 DEF WellFormed, ChangeOf
  <1>4. IsFiniteSet(DOMAIN R) /\ DOMAIN R \subseteq Nat
    BY <1>1, <1>2, CommitsFinite
  <1>5. {x \in {ChangeOf(g) : g \in Groups} : ~IsEmptyChange(x)} = V
    <2>1. V = {ChangeOf(durable[k]) : k \in K}
      BY <1>2
    <2>2. {ChangeOf(g) : g \in Groups} = {ChangeOf(durable[k]) : k \in 1..c}
      BY <1>1 DEF Groups
    <2>3. K = {k \in 1..c : ~IsEmptyChange(ChangeOf(durable[k]))}
      BY DEF Mutating
    <2> QED
      BY <2>1, <2>2, <2>3
  <1> HIDE DEF c, K, R
  <1>6. C \in [V -> Nat] /\ \A k \in DOMAIN R : C[R[k]] = k
    <2>1. \A k \in DOMAIN R : R[k].commit = k /\ k \in Nat
      BY <1>2, <1>3, <1>4
    <2> HIDE DEF R
    <2> QED
      BY <2>1
  <1>7. PICK p \in [1..Cardinality(V) -> V] : \A i, j \in DOMAIN p : i < j => C[p[i]] < C[p[j]]
    <2> HIDE DEF C
    <2> QED
      BY <1>4, <1>6, InOrderExists
  <1>8. Sorted(p)
    BY <1>7
  <1>9. h \in [1..Cardinality(V) -> V] /\ Sorted(h)
    <2> HIDE DEF V, Sorted
    <2> QED
      BY <1>7, <1>8
  <1> HIDE DEF h
  <1>10. \A i, j \in DOMAIN h : i < j => C[h[i]] < C[h[j]]
    BY <1>9
  <1>11. Lists(h, R)
    <2> HIDE DEF C
    <2> QED
      BY <1>4, <1>6, <1>9, <1>10, InOrderLists
  <1>12. LoadedChanges = h
    <2> HIDE DEF V
    <2> QED
      BY <1>5 DEF LoadedChanges, InOrder, EarlierChange, h
  <1> QED
    BY <1>11, <1>12 DEF R, K, c

(* Publishing a group adds to each history what the group says of it.       *)
LEMMA PublishMaps ==
  ASSUME NEW D, WellFormed(D), NEW c \in Nat, c + 1 \in 1..Len(D)
  PROVE  /\ \A n, N : /\ n \in DOMAIN N
                      /\ Lists(N[n], NodeRecords(D, c, n))
                      => Lists(AddVersions(N, D[c+1].putNodes, D[c+1].deleteNodes, c + 1)[n],
                               NodeRecords(D, c + 1, n))
         /\ \A e, E : /\ e \in DOMAIN E
                      /\ Lists(E[e], EdgeRecords(D, c, e))
                      => Lists(AddVersions(E, D[c+1].putEdges, D[c+1].deleteEdges, c + 1)[e],
                               EdgeRecords(D, c + 1, e))
  <1> DEFINE m == c + 1
             g == D[m]
  <1>0. m \in Nat /\ 1..m = (1..c) \union {m} /\ m \notin 1..c /\ \A k \in 1..c : k < m
    OBVIOUS
  <1>1. g.deleteNodes \intersect DOMAIN g.putNodes = {} /\ g.deleteEdges \intersect DOMAIN g.putEdges = {}
    BY DEF WellFormed, NotBoth
  <1>2. ASSUME NEW n, NEW N, n \in DOMAIN N, Lists(N[n], NodeRecords(D, c, n))
        PROVE  Lists(AddVersions(N, g.putNodes, g.deleteNodes, m)[n], NodeRecords(D, m, n))
    <2> DEFINE R == NodeRecords(D, c, n)
               RR == NodeRecords(D, m, n)
               q == N[n]
    <2>1. /\ DOMAIN RR = IF n \in DOMAIN g.putNodes \union g.deleteNodes
                         THEN DOMAIN R \union {m} ELSE DOMAIN R
          /\ \A k \in DOMAIN R : RR[k] = R[k]
          /\ n \in g.deleteNodes => RR[m] = Tombstone(m)
          /\ n \in DOMAIN g.putNodes => RR[m] = Version(g.putNodes[n], m)
          /\ DOMAIN R \subseteq Nat /\ \A k \in DOMAIN R : k < m
      BY <1>0, <1>1 DEF NodeRecords
    <2>2. RR = [k \in DOMAIN RR |-> RR[k]] /\ R = [k \in DOMAIN R |-> R[k]]
      BY DEF NodeRecords
    <2>3. q \in Seq({R[k] : k \in DOMAIN R})
      BY <1>2 DEF Lists
    <2>4. q \o <<>> = q /\ \A x : q \o <<x>> = Append(q, x)
      BY <2>3
    <2>5. \A x : (q \o <<x>>) \o <<>> = q \o <<x>>
      BY <2>3
    <2>6. AddVersions(N, g.putNodes, g.deleteNodes, m)[n]
            = IF n \in g.deleteNodes THEN Append(q, Tombstone(m))
              ELSE IF n \in DOMAIN g.putNodes THEN Append(q, Version(g.putNodes[n], m))
              ELSE q
      BY <1>1, <1>2, <2>4, <2>5 DEF AddVersions
    <2> HIDE DEF R, RR, q, g
    <2>7. CASE n \in DOMAIN g.putNodes \union g.deleteNodes
      <3>1. Lists(Append(q, RR[m]), RR)
        BY <1>0, <1>2, <2>1, <2>7, ListsAppend DEF R, q
      <3> QED
        BY <3>1, <2>1, <2>6, <2>7, <1>1 DEF RR
    <2>8. CASE n \notin DOMAIN g.putNodes \union g.deleteNodes
      <3>1. RR = R
        BY <2>1, <2>2, <2>8
      <3> QED
        BY <3>1, <2>6, <2>8, <1>2 DEF RR, R, q
    <2> QED
      BY <2>7, <2>8
  <1>3. ASSUME NEW e, NEW E, e \in DOMAIN E, Lists(E[e], EdgeRecords(D, c, e))
        PROVE  Lists(AddVersions(E, g.putEdges, g.deleteEdges, m)[e], EdgeRecords(D, m, e))
    <2> DEFINE R == EdgeRecords(D, c, e)
               RR == EdgeRecords(D, m, e)
               q == E[e]
    <2>1. /\ DOMAIN RR = IF e \in DOMAIN g.putEdges \union g.deleteEdges
                         THEN DOMAIN R \union {m} ELSE DOMAIN R
          /\ \A k \in DOMAIN R : RR[k] = R[k]
          /\ e \in g.deleteEdges => RR[m] = Tombstone(m)
          /\ e \in DOMAIN g.putEdges => RR[m] = Version(g.putEdges[e], m)
          /\ DOMAIN R \subseteq Nat /\ \A k \in DOMAIN R : k < m
      BY <1>0, <1>1 DEF EdgeRecords
    <2>2. RR = [k \in DOMAIN RR |-> RR[k]] /\ R = [k \in DOMAIN R |-> R[k]]
      BY DEF EdgeRecords
    <2>3. q \in Seq({R[k] : k \in DOMAIN R})
      BY <1>3 DEF Lists
    <2>4. q \o <<>> = q /\ \A x : q \o <<x>> = Append(q, x)
      BY <2>3
    <2>5. \A x : (q \o <<x>>) \o <<>> = q \o <<x>>
      BY <2>3
    <2>6. AddVersions(E, g.putEdges, g.deleteEdges, m)[e]
            = IF e \in g.deleteEdges THEN Append(q, Tombstone(m))
              ELSE IF e \in DOMAIN g.putEdges THEN Append(q, Version(g.putEdges[e], m))
              ELSE q
      BY <1>1, <1>3, <2>4, <2>5 DEF AddVersions
    <2> HIDE DEF R, RR, q, g
    <2>7. CASE e \in DOMAIN g.putEdges \union g.deleteEdges
      <3>1. Lists(Append(q, RR[m]), RR)
        BY <1>0, <1>3, <2>1, <2>7, ListsAppend DEF R, q
      <3> QED
        BY <3>1, <2>1, <2>6, <2>7, <1>1 DEF RR
    <2>8. CASE e \notin DOMAIN g.putEdges \union g.deleteEdges
      <3>1. RR = R
        BY <2>1, <2>2, <2>8
      <3> QED
        BY <3>1, <2>6, <2>8, <1>3 DEF RR, R, q
    <2> QED
      BY <2>7, <2>8
  <1> QED
    BY <1>2, <1>3

-----------------------------------------------------------------------------
(* Replay: its recursive definition has a solution, so it satisfies it.     *)
LEMMA ReplayUnfolds ==
  ASSUME NEW D, Len(D) \in Nat
  PROVE  /\ Replay(D)[0] = EmptyGraph
         /\ \A c \in 1..Len(D) : Replay(D)[c] = Apply(Replay(D)[c - 1], D[c])
  <1> DEFINE n == Len(D)
             Next_(f, c) == IF c = 0 THEN EmptyGraph ELSE Apply(f[c - 1], D[c])
             Solves(f, m) == f = [c \in 0..m |-> Next_(f, c)]
             Bad == {m \in 0..n : \A f : ~Solves(f, m)}
  <1>1. Bad = {}
    <2>1. SUFFICES ASSUME Bad # {} PROVE FALSE
      OBVIOUS
    <2>2. PICK m \in Bad : \A x \in Bad : m <= x
      <3>1. Bad \in SUBSET Nat
        OBVIOUS
      <3> HIDE DEF Bad
      <3> QED
        BY <2>1, <3>1, MinExists
    <2>3. CASE m = 0
      <3> DEFINE f == [c \in 0..0 |-> EmptyGraph]
      <3>1. Solves(f, 0)
        OBVIOUS
      <3> QED
        BY <3>1, <2>2, <2>3
    <2>4. CASE m # 0
      <3>1. m - 1 \in 0..n /\ m - 1 \notin Bad /\ m \in Nat
        BY <2>2, <2>4
      <3>2. PICK f : Solves(f, m - 1)
        BY <3>1
      <3> DEFINE h == [c \in 0..m |-> IF c = m THEN Apply(f[m - 1], D[m]) ELSE f[c]]
      <3>3. \A c \in 0..(m-1) : h[c] = f[c] /\ f[c] = Next_(f, c)
        <4>1. \A c \in 0..(m-1) : h[c] = f[c]
          BY <3>1
        <4>2. \A c \in 0..(m-1) : [x \in 0..(m-1) |-> Next_(f, x)][c] = Next_(f, c)
          OBVIOUS
        <4> HIDE DEF h, Next_
        <4> QED
          BY <3>2, <4>1, <4>2
      <3>4. \A c \in 0..m : h[c] = Next_(h, c)
        <4>1. TAKE c \in 0..m
        <4>2. CASE c = m
          BY <4>2, <3>1, <3>3, <2>4
        <4>3. CASE c # m /\ c # 0
          <5>1. c \in 0..(m-1) /\ c - 1 \in 0..(m-1)
            BY <4>3, <3>1
          <5>2. h[c] = f[c] /\ h[c-1] = f[c-1] /\ f[c] = Next_(f, c)
            BY <5>1, <3>3
          <5> QED
            BY <4>3, <5>2
        <4>4. CASE c # m /\ c = 0
          <5>1. 0 \in 0..(m-1)
            BY <3>1
          <5>2. h[0] = f[0] /\ f[0] = EmptyGraph
            BY <5>1, <3>3
          <5> HIDE DEF h
          <5> QED
            BY <4>4, <5>2
        <4> QED
          BY <4>2, <4>3, <4>4
      <3>5. Solves(h, m)
        <4>1. h = [c \in 0..m |-> h[c]]
          OBVIOUS
        <4> HIDE DEF h, Next_
        <4> QED
          BY <3>4, <4>1
      <3> HIDE DEF Solves
      <3> QED
        BY <3>5, <2>2
    <2> QED
      BY <2>3, <2>4
  <1>2. \E f : Solves(f, n)
    BY <1>1
  <1>3. Replay(D) = CHOOSE f : Solves(f, n)
    BY DEF Replay
  <1>4. Solves(Replay(D), n)
    <2> HIDE DEF Solves
    <2> QED
      BY <1>2, <1>3
  <1>5. \A c \in 0..n : Replay(D)[c] = Next_(Replay(D), c)
    <2> DEFINE f == Replay(D)
    <2>1. f = [c \in 0..n |-> Next_(f, c)]
      BY <1>4
    <2>2. \A c \in 0..n : [x \in 0..n |-> Next_(f, x)][c] = Next_(f, c)
      OBVIOUS
    <2> HIDE DEF f, Next_
    <2>3. \A c \in 0..n : f[c] = Next_(f, c)
      BY <2>1, <2>2
    <2> QED
      BY <2>3 DEF f
  <1>6. \A c \in 1..n : c \in 0..n /\ c # 0
    OBVIOUS
  <1> QED
    BY <1>5, <1>6

(* A group appended to the file changes none of the graphs before it.       *)
LEMMA ReplayKeeps ==
  ASSUME NEW D \in Seq(GroupType), NEW g \in GroupType
  PROVE  \A c \in 0..Len(D) : Replay(Append(D, g))[c] = Replay(D)[c]
  <1> DEFINE n == Len(D)
             E == Append(D, g)
             Bad == {c \in 0..n : Replay(E)[c] # Replay(D)[c]}
  <1>1. n \in Nat /\ Len(E) = n + 1 /\ \A c \in 1..n : E[c] = D[c]
    BY AppendProperties, LenProperties
  <1>2. SUFFICES ASSUME Bad # {} PROVE FALSE
    OBVIOUS
  <1>3. PICK c \in Bad : \A x \in Bad : c <= x
    <2>1. Bad \in SUBSET Nat
      BY <1>1
    <2> HIDE DEF Bad
    <2> QED
      BY <1>2, <2>1, MinExists
  <1>4. /\ Replay(E)[0] = EmptyGraph /\ Replay(D)[0] = EmptyGraph
        /\ c \in 1..n => Replay(E)[c] = Apply(Replay(E)[c-1], E[c])
        /\ c \in 1..n => Replay(D)[c] = Apply(Replay(D)[c-1], D[c])
    <2> HIDE DEF E
    <2>1. Len(E) \in Nat /\ Len(D) \in Nat /\ (c \in 1..n => c \in 1..Len(E) /\ c \in 1..Len(D))
      BY <1>1
    <2> QED
      BY <2>1, ReplayUnfolds
  <1>5. CASE c = 0
    BY <1>3, <1>4, <1>5
  <1>6. CASE c # 0
    <2>1. c \in 1..n /\ c - 1 \in 0..n /\ c - 1 \notin Bad
      BY <1>1, <1>3, <1>6
    <2>2. Replay(E)[c-1] = Replay(D)[c-1] /\ E[c] = D[c]
      BY <1>1, <2>1
    <2> QED
      BY <1>3, <1>4, <2>1, <2>2
  <1> QED
    BY <1>5, <1>6

-----------------------------------------------------------------------------
(* Actions, seen by what they leave of the invariant.                       *)

(* The file is well formed whenever the invariant holds.                    *)
LEMMA DurableWellFormed ==
  ASSUME InvDurable
  PROVE  /\ WellFormed(durable) /\ Len(durable) \in Nat
         /\ DOMAIN durable = 1..Len(durable)
  BY LenProperties DEF InvDurable, WellFormed

(* A transaction in its type has the fields of a group.                     *)
LEMMA GroupForType ==
  ASSUME InvTxn, NEW t \in Txns, NEW c \in Nat
  PROVE  GroupFor(t, c) \in GroupType /\ NotBoth(GroupFor(t, c)) /\ GroupFor(t, c).commit = c
  <1>1. txn[t] \in TxnType /\ NotBoth(txn[t])
    BY DEF InvTxn
  <1> QED
    BY <1>1 DEF GroupFor, GroupType, TxnType, NotBoth

(* An object with nothing staged.                                           *)
LEMMA FreshType ==
  ASSUME NEW st \in {"none", "open", "closed"}
  PROVE  Fresh(st) \in TxnType /\ NotBoth(Fresh(st)) /\ Fresh(st).status = st
  <1>1. \A D, R : EmptyFcn \in Partial(D, R)
    <2>1. TAKE D, R
    <2>2. EmptyFcn \in [{} -> R] /\ {} \in SUBSET D
      BY DEF EmptyFcn
    <2> QED
      BY <2>2 DEF Partial
  <1>2. DOMAIN EmptyFcn = {}
    BY DEF EmptyFcn
  <1> QED
    BY <1>1, <1>2 DEF Fresh, TxnType, NotBoth

(* Erasing from a partial function.                                         *)
LEMMA PartialErase ==
  ASSUME NEW D, NEW R, NEW f \in Partial(D, R), NEW x \in D
  PROVE  Erase(f, x) \in Partial(D, R) /\ DOMAIN Erase(f, x) = DOMAIN f \ {x}
  <1>1. DOMAIN f \in SUBSET D /\ f \in [DOMAIN f -> R]
    BY DEF Partial
  <1>2. Erase(f, x) \in [DOMAIN f \ {x} -> R]
    BY <1>1 DEF Erase
  <1> QED
    BY <1>1, <1>2 DEF Partial

(* Staging a put or a delete keeps a transaction in its type.               *)
LEMMA StagingKeepsType ==
  ASSUME NEW r \in TxnType, NotBoth(r)
  PROVE  /\ \A n \in Nodes, v \in NodeViews :
              LET q == [r EXCEPT !.deleteNodes = @ \ {n}, !.putNodes = Insert(@, n, v)]
              IN  q \in TxnType /\ NotBoth(q) /\ q.status = r.status
         /\ \A e \in Edges, v \in EdgeViews :
              LET q == [r EXCEPT !.deleteEdges = @ \ {e}, !.putEdges = Insert(@, e, v)]
              IN  q \in TxnType /\ NotBoth(q) /\ q.status = r.status
         /\ \A n \in Nodes :
              LET q == [r EXCEPT !.putNodes = Erase(@, n), !.deleteNodes = @ \union {n}]
              IN  q \in TxnType /\ NotBoth(q) /\ q.status = r.status
         /\ \A e \in Edges :
              LET q == [r EXCEPT !.putEdges = Erase(@, e), !.deleteEdges = @ \union {e}]
              IN  q \in TxnType /\ NotBoth(q) /\ q.status = r.status
  <1>1. /\ r.putNodes \in Partial(Nodes, NodeViews) /\ r.putEdges \in Partial(Edges, EdgeViews)
        /\ r.deleteNodes \in SUBSET Nodes /\ r.deleteEdges \in SUBSET Edges
        /\ r.status \in {"none", "open", "closed"}
        /\ r.deleteNodes \intersect DOMAIN r.putNodes = {}
        /\ r.deleteEdges \intersect DOMAIN r.putEdges = {}
    BY DEF TxnType, NotBoth
  <1>2. /\ \A n \in Nodes, v \in NodeViews :
             /\ Insert(r.putNodes, n, v) \in Partial(Nodes, NodeViews)
             /\ DOMAIN Insert(r.putNodes, n, v) = DOMAIN r.putNodes \union {n}
        /\ \A e \in Edges, v \in EdgeViews :
             /\ Insert(r.putEdges, e, v) \in Partial(Edges, EdgeViews)
             /\ DOMAIN Insert(r.putEdges, e, v) = DOMAIN r.putEdges \union {e}
    <2>1. ASSUME NEW n \in Nodes, NEW v \in NodeViews
          PROVE  /\ Insert(r.putNodes, n, v) \in Partial(Nodes, NodeViews)
                 /\ DOMAIN Insert(r.putNodes, n, v) = DOMAIN r.putNodes \union {n}
      <3> DEFINE f == r.putNodes
      <3>1. f \in Partial(Nodes, NodeViews)
        BY <1>1
      <3> HIDE DEF f
      <3> QED
        <4>1. /\ Insert(f, n, v) \in Partial(Nodes, NodeViews)
              /\ DOMAIN Insert(f, n, v) = DOMAIN f \union {n}
          <5>1. DOMAIN f \in SUBSET Nodes /\ f \in [DOMAIN f -> NodeViews]
            BY <3>1 DEF Partial
          <5>2. Insert(f, n, v) \in [DOMAIN f \union {n} -> NodeViews]
            BY <5>1 DEF Insert
          <5> QED
            BY <5>1, <5>2 DEF Partial
        <4> QED
          BY <4>1 DEF f
    <2>2. ASSUME NEW e \in Edges, NEW v \in EdgeViews
          PROVE  /\ Insert(r.putEdges, e, v) \in Partial(Edges, EdgeViews)
                 /\ DOMAIN Insert(r.putEdges, e, v) = DOMAIN r.putEdges \union {e}
      <3> DEFINE f == r.putEdges
      <3>1. f \in Partial(Edges, EdgeViews)
        BY <1>1
      <3> HIDE DEF f
      <3> QED
        <4>1. /\ Insert(f, e, v) \in Partial(Edges, EdgeViews)
              /\ DOMAIN Insert(f, e, v) = DOMAIN f \union {e}
          <5>1. DOMAIN f \in SUBSET Edges /\ f \in [DOMAIN f -> EdgeViews]
            BY <3>1 DEF Partial
          <5>2. Insert(f, e, v) \in [DOMAIN f \union {e} -> EdgeViews]
            BY <5>1 DEF Insert
          <5> QED
            BY <5>1, <5>2 DEF Partial
        <4> QED
          BY <4>1 DEF f
    <2> QED
      BY <2>1, <2>2
  <1>3. /\ \A n \in Nodes : /\ Erase(r.putNodes, n) \in Partial(Nodes, NodeViews)
                            /\ DOMAIN Erase(r.putNodes, n) = DOMAIN r.putNodes \ {n}
        /\ \A e \in Edges : /\ Erase(r.putEdges, e) \in Partial(Edges, EdgeViews)
                            /\ DOMAIN Erase(r.putEdges, e) = DOMAIN r.putEdges \ {e}
    <2>1. ASSUME NEW n \in Nodes
          PROVE  /\ Erase(r.putNodes, n) \in Partial(Nodes, NodeViews)
                 /\ DOMAIN Erase(r.putNodes, n) = DOMAIN r.putNodes \ {n}
      <3> DEFINE f == r.putNodes
      <3>1. f \in Partial(Nodes, NodeViews)
        BY <1>1
      <3> HIDE DEF f
      <3> QED
        <4>1. /\ Erase(f, n) \in Partial(Nodes, NodeViews)
              /\ DOMAIN Erase(f, n) = DOMAIN f \ {n}
          BY <3>1, PartialErase
        <4> QED
          BY <4>1 DEF f
    <2>2. ASSUME NEW e \in Edges
          PROVE  /\ Erase(r.putEdges, e) \in Partial(Edges, EdgeViews)
                 /\ DOMAIN Erase(r.putEdges, e) = DOMAIN r.putEdges \ {e}
      <3> DEFINE f == r.putEdges
      <3>1. f \in Partial(Edges, EdgeViews)
        BY <1>1
      <3> HIDE DEF f
      <3> QED
        <4>1. /\ Erase(f, e) \in Partial(Edges, EdgeViews)
              /\ DOMAIN Erase(f, e) = DOMAIN f \ {e}
          BY <3>1, PartialErase
        <4> QED
          BY <4>1 DEF f
    <2> QED
      BY <2>1, <2>2
  <1>4. \A pn \in Partial(Nodes, NodeViews), dn \in SUBSET Nodes :
          dn \intersect DOMAIN pn = {} =>
            LET q == [r EXCEPT !.putNodes = pn, !.deleteNodes = dn]
            IN  q \in TxnType /\ NotBoth(q) /\ q.status = r.status
    BY <1>1 DEF TxnType, NotBoth
  <1>5. \A pe \in Partial(Edges, EdgeViews), de \in SUBSET Edges :
          de \intersect DOMAIN pe = {} =>
            LET q == [r EXCEPT !.putEdges = pe, !.deleteEdges = de]
            IN  q \in TxnType /\ NotBoth(q) /\ q.status = r.status
    BY <1>1 DEF TxnType, NotBoth
  <1>6. \A a, b : /\ [r EXCEPT !.deleteNodes = a, !.putNodes = b] = [r EXCEPT !.putNodes = b, !.deleteNodes = a]
                  /\ [r EXCEPT !.deleteEdges = a, !.putEdges = b] = [r EXCEPT !.putEdges = b, !.deleteEdges = a]
    BY DEF TxnType
  <1>7. ASSUME NEW n \in Nodes, NEW v \in NodeViews
        PROVE  LET q == [r EXCEPT !.deleteNodes = @ \ {n}, !.putNodes = Insert(@, n, v)]
               IN  q \in TxnType /\ NotBoth(q) /\ q.status = r.status
    <2> DEFINE pn == Insert(r.putNodes, n, v)
               dn == r.deleteNodes \ {n}
    <2>1. pn \in Partial(Nodes, NodeViews) /\ dn \in SUBSET Nodes /\ dn \intersect DOMAIN pn = {}
      <3>1. pn \in Partial(Nodes, NodeViews) /\ DOMAIN pn = DOMAIN r.putNodes \union {n}
        BY <1>2
      <3> HIDE DEF pn
      <3> QED
        BY <1>1, <3>1
    <2> HIDE DEF pn, dn
    <2>2. LET q == [r EXCEPT !.deleteNodes = dn, !.putNodes = pn]
          IN  q \in TxnType /\ NotBoth(q) /\ q.status = r.status
      <3> DEFINE u == [r EXCEPT !.putNodes = pn, !.deleteNodes = dn]
      <3>1. [r EXCEPT !.deleteNodes = dn, !.putNodes = pn] = u
        BY <1>6
      <3>2. u \in TxnType /\ NotBoth(u) /\ u.status = r.status
        BY <2>1, <1>4
      <3> HIDE DEF u
      <3> QED
        BY <3>1, <3>2
    <2> QED
      BY <2>2 DEF pn, dn
  <1>8. ASSUME NEW e \in Edges, NEW v \in EdgeViews
        PROVE  LET q == [r EXCEPT !.deleteEdges = @ \ {e}, !.putEdges = Insert(@, e, v)]
               IN  q \in TxnType /\ NotBoth(q) /\ q.status = r.status
    <2> DEFINE pe == Insert(r.putEdges, e, v)
               de == r.deleteEdges \ {e}
    <2>1. pe \in Partial(Edges, EdgeViews) /\ de \in SUBSET Edges /\ de \intersect DOMAIN pe = {}
      <3>1. pe \in Partial(Edges, EdgeViews) /\ DOMAIN pe = DOMAIN r.putEdges \union {e}
        BY <1>2
      <3> HIDE DEF pe
      <3> QED
        BY <1>1, <3>1
    <2> HIDE DEF pe, de
    <2>2. LET q == [r EXCEPT !.deleteEdges = de, !.putEdges = pe]
          IN  q \in TxnType /\ NotBoth(q) /\ q.status = r.status
      <3> DEFINE u == [r EXCEPT !.putEdges = pe, !.deleteEdges = de]
      <3>1. [r EXCEPT !.deleteEdges = de, !.putEdges = pe] = u
        BY <1>6
      <3>2. u \in TxnType /\ NotBoth(u) /\ u.status = r.status
        BY <2>1, <1>5
      <3> HIDE DEF u
      <3> QED
        BY <3>1, <3>2
    <2> QED
      BY <2>2 DEF pe, de
  <1>9. ASSUME NEW n \in Nodes
        PROVE  LET q == [r EXCEPT !.putNodes = Erase(@, n), !.deleteNodes = @ \union {n}]
               IN  q \in TxnType /\ NotBoth(q) /\ q.status = r.status
    <2> DEFINE pn == Erase(r.putNodes, n)
               dn == r.deleteNodes \union {n}
    <2>1. pn \in Partial(Nodes, NodeViews) /\ dn \in SUBSET Nodes /\ dn \intersect DOMAIN pn = {}
      BY <1>1, <1>3
    <2> HIDE DEF pn, dn
    <2>2. LET q == [r EXCEPT !.putNodes = pn, !.deleteNodes = dn]
          IN  q \in TxnType /\ NotBoth(q) /\ q.status = r.status
      BY <2>1, <1>4
    <2> QED
      BY <2>2 DEF pn, dn
  <1>10. ASSUME NEW e \in Edges
         PROVE  LET q == [r EXCEPT !.putEdges = Erase(@, e), !.deleteEdges = @ \union {e}]
                IN  q \in TxnType /\ NotBoth(q) /\ q.status = r.status
    <2> DEFINE pe == Erase(r.putEdges, e)
               de == r.deleteEdges \union {e}
    <2>1. pe \in Partial(Edges, EdgeViews) /\ de \in SUBSET Edges /\ de \intersect DOMAIN pe = {}
      BY <1>1, <1>3
    <2> HIDE DEF pe, de
    <2>2. LET q == [r EXCEPT !.putEdges = pe, !.deleteEdges = de]
          IN  q \in TxnType /\ NotBoth(q) /\ q.status = r.status
      BY <2>1, <1>5
    <2> QED
      BY <2>2 DEF pe, de
  <1> QED
    BY <1>7, <1>8, <1>9, <1>10

-----------------------------------------------------------------------------
(* The invariant holds initially.                                           *)
LEMMA InitInv == Init => IInv
  <1> SUFFICES ASSUME Init PROVE IInv
    OBVIOUS
  <1>0. MaxCommit \in Nat /\ NoTxn \notin Txns
    BY GraphStoreAssumption
  <1>1. durable = <<>> /\ Len(durable) = 0 /\ 1..0 = {} /\ latest = 0 /\ DOMAIN durable = {}
    BY DEF Init
  <1>2. InvDurable
    BY <1>0, <1>1, EmptySeq DEF InvDurable
  <1>3. InvTxn
    <2>2. Fresh("none") \in TxnType /\ NotBoth(Fresh("none"))
      BY FreshType
    <2> QED
      BY <2>2 DEF Init, InvTxn
  <1>4. InvHead
    <2>1. up = TRUE /\ shuttingDown = FALSE /\ inflight = NoTxn /\ acked = {}
      BY DEF Init
    <2> QED
      BY <1>1, <2>1 DEF InvHead
  <1>5. InvMaps
    <2>1. \A x : DOMAIN NodeRecords(durable, latest, x) = {} /\ DOMAIN EdgeRecords(durable, latest, x) = {}
      BY <1>1 DEF NodeRecords, EdgeRecords
    <2> QED
      BY <2>1, ListsNothing DEF Init, InvMaps
  <1>6. InvChangeLog
    <2>1. DOMAIN Changes(durable, {}) = {} /\ Mutating(durable, latest) = {}
      BY <1>1 DEF Changes, Mutating
    <2>2. Lists(changeLog, Changes(durable, {}))
      BY <2>1, ListsNothing DEF Init
    <2> QED
      BY <2>1, <2>2 DEF InvChangeLog
  <1>7. InvSeen
    BY <1>0, EmptySeq DEF Init, InvSeen, NoSub
  <1>8. ConsumersExactlyOnce
    BY <1>1 DEF Init, ConsumersExactlyOnce
  <1> QED
    BY <1>2, <1>3, <1>4, <1>5, <1>6, <1>7, <1>8 DEF IInv

(* A step on a transaction object that is neither closed nor in flight.     *)
LEMMA ObjectStepInv ==
  ASSUME IInv, NEW t \in Txns, t # inflight, txn[t].status # "closed",
         NEW r \in TxnType, NotBoth(r), txn' = [txn EXCEPT ![t] = r],
         UNCHANGED <<durable, up, memory, inflight, sub, seen, acked>>
  PROVE  IInv'
  <1>1. txn' \in [Txns -> TxnType] /\ \A u \in Txns : txn'[u] = IF u = t THEN r ELSE txn[u]
    BY DEF IInv, InvTxn
  <1>2. InvTxn'
    BY <1>1 DEF IInv, InvTxn
  <1>3. InvDurable'
    <2>1. \A i \in 1..Len(durable) : durable[i].txn \in Txns
      BY GroupFields DEF IInv, InvDurable, GroupType
    <2> QED
      BY <1>1, <2>1 DEF IInv, InvDurable
  <1>4. InvHead'
    BY <1>1 DEF IInv, InvHead, GroupFor, memory
  <1>5. InvMaps' /\ InvChangeLog' /\ InvSeen' /\ ConsumersExactlyOnce'
    BY DEF IInv, InvMaps, InvChangeLog, InvSeen, ConsumersExactlyOnce, LastSeen, memory
  <1> QED
    BY <1>2, <1>3, <1>4, <1>5 DEF IInv

(* The actions of one transaction, up to its commit.                        *)
LEMMA StagingInv ==
  ASSUME IInv, NEW t \in Txns,
         \/ BeginTxn(t)
         \/ \E n \in Nodes, v \in NodeViews : PutNode(t, n, v)
         \/ \E e \in Edges, v \in EdgeViews : PutEdge(t, e, v)
         \/ \E n \in Nodes : DeleteNode(t, n)
         \/ \E e \in Edges : DeleteEdge(t, e)
         \/ Abort(t)
  PROVE  IInv'
  <1>1. txn \in [Txns -> TxnType] /\ txn[t] \in TxnType /\ NotBoth(txn[t]) /\ NoTxn \notin Txns
    BY GraphStoreAssumption DEF IInv, InvTxn
  <1>2. \A st \in {"none", "open", "closed"} : Fresh(st) \in TxnType /\ NotBoth(Fresh(st))
    BY FreshType
  <1>3. CASE BeginTxn(t)
    BY <1>1, <1>2, <1>3, ObjectStepInv DEF BeginTxn, Unlocked
  <1>4. CASE \E n \in Nodes, v \in NodeViews : PutNode(t, n, v)
    <2>1. PICK n \in Nodes, v \in NodeViews : PutNode(t, n, v)
      BY <1>4
    <2> DEFINE r == [txn[t] EXCEPT !.deleteNodes = @ \ {n}, !.putNodes = Insert(@, n, v)]
    <2>2. r \in TxnType /\ NotBoth(r)
      BY <1>1, StagingKeepsType
    <2>3. txn' = [txn EXCEPT ![t] = r]
      BY <2>1, <1>1 DEF PutNode
    <2>4. /\ t # inflight /\ txn[t].status # "closed"
          /\ UNCHANGED <<durable, up, memory, inflight, sub, seen, acked>>
      BY <2>1 DEF PutNode, Stage
    <2> HIDE DEF r
    <2> QED
      BY <2>2, <2>3, <2>4, ObjectStepInv
  <1>5. CASE \E e \in Edges, v \in EdgeViews : PutEdge(t, e, v)
    <2>1. PICK e \in Edges, v \in EdgeViews : PutEdge(t, e, v)
      BY <1>5
    <2> DEFINE r == [txn[t] EXCEPT !.deleteEdges = @ \ {e}, !.putEdges = Insert(@, e, v)]
    <2>2. r \in TxnType /\ NotBoth(r)
      BY <1>1, StagingKeepsType
    <2>3. txn' = [txn EXCEPT ![t] = r]
      BY <2>1, <1>1 DEF PutEdge
    <2>4. /\ t # inflight /\ txn[t].status # "closed"
          /\ UNCHANGED <<durable, up, memory, inflight, sub, seen, acked>>
      BY <2>1 DEF PutEdge, Stage
    <2> HIDE DEF r
    <2> QED
      BY <2>2, <2>3, <2>4, ObjectStepInv
  <1>6. CASE \E n \in Nodes : DeleteNode(t, n)
    <2>1. PICK n \in Nodes : DeleteNode(t, n)
      BY <1>6
    <2> DEFINE r == [txn[t] EXCEPT !.putNodes = Erase(@, n), !.deleteNodes = @ \union {n}]
    <2>2. r \in TxnType /\ NotBoth(r)
      BY <1>1, StagingKeepsType
    <2>3. txn' = [txn EXCEPT ![t] = r]
      BY <2>1, <1>1 DEF DeleteNode
    <2>4. /\ t # inflight /\ txn[t].status # "closed"
          /\ UNCHANGED <<durable, up, memory, inflight, sub, seen, acked>>
      BY <2>1 DEF DeleteNode, Stage
    <2> HIDE DEF r
    <2> QED
      BY <2>2, <2>3, <2>4, ObjectStepInv
  <1>7. CASE \E e \in Edges : DeleteEdge(t, e)
    <2>1. PICK e \in Edges : DeleteEdge(t, e)
      BY <1>7
    <2> DEFINE r == [txn[t] EXCEPT !.putEdges = Erase(@, e), !.deleteEdges = @ \union {e}]
    <2>2. r \in TxnType /\ NotBoth(r)
      BY <1>1, StagingKeepsType
    <2>3. txn' = [txn EXCEPT ![t] = r]
      BY <2>1, <1>1 DEF DeleteEdge
    <2>4. /\ t # inflight /\ txn[t].status # "closed"
          /\ UNCHANGED <<durable, up, memory, inflight, sub, seen, acked>>
      BY <2>1 DEF DeleteEdge, Stage
    <2> HIDE DEF r
    <2> QED
      BY <2>2, <2>3, <2>4, ObjectStepInv
  <1>8. CASE Abort(t)
    BY <1>1, <1>2, <1>8, ObjectStepInv DEF Abort
  <1> QED
    BY <1>3, <1>4, <1>5, <1>6, <1>7, <1>8

(* What a client has processed is in the file.                              *)
LEMMA LastSeenBound ==
  ASSUME InvDurable, InvSeen, NEW s \in Subscribers
  PROVE  LastSeen(s) \in 0..Len(durable)
  <1> DEFINE n == Len(durable)
  <1>0. n \in Nat
    BY DurableWellFormed
  <1>1. seen[s] \in Seq({ChangeOf(durable[k]) : k \in 1..n})
    BY DEF InvSeen
  <1>2. CASE seen[s] = <<>>
    BY <1>0, <1>2 DEF LastSeen
  <1>3. CASE seen[s] # <<>>
    <2>1. Len(seen[s]) \in DOMAIN seen[s]
      BY <1>1, <1>3, EmptySeq, LenProperties
    <2>2. PICK k \in 1..n : seen[s][Len(seen[s])] = ChangeOf(durable[k])
      BY <1>1, <2>1, ElementOfSeq, LenProperties
    <2>3. LastSeen(s) = k
      BY <1>3, <2>2 DEF LastSeen, ChangeOf, InvDurable
    <2> QED
      BY <1>0, <2>3
  <1> QED
    BY <1>2, <1>3

(* commit() up to the append: the file grows by a group of the transaction  *)
(* that holds the mutex.                                                    *)
LEMMA CommitAppendInv ==
  ASSUME IInv, NEW t \in Txns, CommitAppend(t)
  PROVE  IInv'
  <1> DEFINE g == GroupFor(t, latest + 1)
             n == Len(durable)
  <1>1. /\ durable' = Append(durable, g) /\ inflight' = t /\ up /\ inflight = NoTxn
        /\ txn[t].status = "open" /\ latest < MaxCommit
        /\ UNCHANGED <<up, latest, shuttingDown, nodes, edges, changeLog, txn, sub, seen, acked>>
    BY DEF CommitAppend, Unlocked, memory
  <1>2. latest = n /\ n \in Nat /\ MaxCommit \in Nat /\ NoTxn \notin Txns
    BY <1>1, DurableWellFormed, GraphStoreAssumption DEF IInv, InvHead
  <1>3. g \in GroupType /\ NotBoth(g) /\ g.commit = n + 1 /\ g.txn = t
    BY <1>2, GroupForType DEF IInv, GroupFor
  <1>4. /\ durable' \in Seq(GroupType) /\ Len(durable') = n + 1
        /\ \A i \in 1..n : durable'[i] = durable[i]
        /\ durable'[n+1] = g /\ DOMAIN durable' = 1..(n+1) /\ DOMAIN durable = 1..n
    BY <1>1, <1>3, AppendProperties, LenProperties DEF IInv, InvDurable
  <1> HIDE DEF g
  <1>5. InvDurable'
    <2>1. \A i \in 1..n : txn[durable[i].txn].status = "closed"
      <3>1. \A i \in 1..n : durable[i].txn \in Txns
        BY GroupFields DEF IInv, InvDurable, GroupType
      <3> QED
        BY <1>1, <1>2, <3>1 DEF IInv, InvDurable
    <2>2. ASSUME NEW i \in 1..(n+1)
          PROVE  /\ durable'[i].commit = i /\ NotBoth(durable'[i])
                 /\ \/ txn'[durable'[i].txn].status = "closed"
                    \/ durable'[i].txn = inflight' /\ i = n + 1
      <3>1. CASE i = n + 1
        BY <1>1, <1>3, <1>4, <3>1
      <3>2. CASE i \in 1..n
        BY <1>1, <1>4, <2>1, <3>2 DEF IInv, InvDurable
      <3> QED
        BY <1>2, <3>1, <3>2
    <2> QED
      BY <1>1, <1>2, <1>4, <2>2 DEF InvDurable
  <1>6. InvTxn'
    BY <1>1 DEF IInv, InvTxn
  <1>7. InvHead'
    <2>1. g = GroupFor(inflight, latest + 1)'
      BY <1>1 DEF g, GroupFor
    <2>2. acked' \subseteq 1..(n+1)
      BY <1>1, <1>2 DEF IInv, InvHead
    <2> QED
      BY <1>1, <1>2, <1>4, <2>1, <2>2 DEF IInv, InvHead
  <1>8. InvMaps' /\ InvChangeLog'
    <2>1. /\ \A x : /\ NodeRecords(durable', latest, x) = NodeRecords(durable, latest, x)
                    /\ EdgeRecords(durable', latest, x) = EdgeRecords(durable, latest, x)
          /\ Mutating(durable', latest) = Mutating(durable, latest)
          /\ \A K \in SUBSET (1..latest) : Changes(durable', K) = Changes(durable, K)
      <3>1. durable \in Seq(GroupType) /\ latest \in 0..Len(durable)
        BY <1>2 DEF IInv, InvDurable
      <3>2. durable' = Append(durable, g) /\ g \in GroupType
        BY <1>1, <1>3
      <3> QED
        BY ONLY <3>1, <3>2, RecordsKeep
    <2>2. InvMaps'
      BY <1>1, <2>1 DEF IInv, InvMaps
    <2>3. InvChangeLog'
      BY <1>1, <2>1 DEF IInv, InvChangeLog
    <2> QED
      BY <2>2, <2>3
  <1>9. InvSeen'
    <2>1. {ChangeOf(durable[k]) : k \in 1..n} \subseteq {ChangeOf(durable'[k]) : k \in 1..(n+1)}
      BY <1>2, <1>4
    <2>2. \A s \in Subscribers : seen[s] \in Seq({ChangeOf(durable'[k]) : k \in 1..(n+1)})
      <3> DEFINE S == {ChangeOf(durable[k]) : k \in 1..n}
                 T == {ChangeOf(durable'[k]) : k \in 1..(n+1)}
      <3>1. \A s \in Subscribers : seen[s] \in Seq(S)
        BY DEF IInv, InvSeen
      <3>2. S \subseteq T
        BY <2>1
      <3> HIDE DEF S, T
      <3>3. \A s \in Subscribers : seen[s] \in Seq(T)
        BY <3>1, <3>2, SeqMonotonic
      <3> QED
        BY <3>3 DEF T
    <2>3. seen' \in [Subscribers -> Seq({ChangeOf(durable'[k]) : k \in 1..(n+1)})]
      BY <1>1, <2>2 DEF IInv, InvSeen
    <2>4. \A s \in Subscribers : LastSeen(s)' = LastSeen(s)
      BY <1>1 DEF LastSeen
    <2> QED
      BY <1>1, <1>4, <2>3, <2>4 DEF IInv, InvSeen
  <1>10. ConsumersExactlyOnce'
    <2>1. \A s \in Subscribers : LastSeen(s)' = LastSeen(s) /\ LastSeen(s) \in 0..n
      BY <1>1, LastSeenBound DEF LastSeen, IInv
    <2>2. ASSUME NEW s \in Subscribers, NEW k \in 1..(n+1)
          PROVE  \/ durable'[k].commit > LastSeen(s)'
                 \/ IsEmptyChange(ChangeOf(durable'[k]))
                 \/ \E i \in DOMAIN seen[s] : seen[s][i] = ChangeOf(durable'[k])
      <3>1. CASE k = n + 1
        BY <1>2, <1>3, <1>4, <2>1, <3>1
      <3>2. CASE k \in 1..n
        BY <1>4, <2>1, <3>2 DEF IInv, ConsumersExactlyOnce
      <3> QED
        BY <1>2, <3>1, <3>2
    <2>3. ASSUME NEW s \in Subscribers, NEW i \in DOMAIN seen[s]
          PROVE  \E k \in 1..(n+1) : seen[s][i] = ChangeOf(durable'[k])
      BY <1>2, <1>4 DEF IInv, ConsumersExactlyOnce
    <2> QED
      BY <1>1, <1>4, <2>2, <2>3 DEF IInv, ConsumersExactlyOnce
  <1> QED
    BY <1>5, <1>6, <1>7, <1>8, <1>9, <1>10 DEF IInv

(* The rest of commit(): the memory takes in the last group of the file.    *)
LEMMA PublishInv ==
  ASSUME IInv, Publish
  PROVE  IInv'
  <1> DEFINE m == latest + 1
             g == durable[m]
  <1>0. latest \in Nat /\ MaxCommit \in Nat /\ NoTxn \notin Txns
    BY GraphStoreAssumption DEF IInv, InvHead
  <1>1. /\ inflight # NoTxn /\ inflight \in Txns /\ up
        /\ Len(durable) = m /\ g = GroupFor(inflight, m)
        /\ txn[inflight].status = "open"
    BY DEF Publish, IInv, InvHead
  <1>2. m \in 1..Len(durable) /\ m \in Nat /\ m # latest
    BY <1>0, <1>1
  <1>3. WellFormed(durable) /\ g.commit = m
    BY <1>2, DurableWellFormed DEF IInv, WellFormed
  <1>4. /\ nodes' = AddVersions(nodes, g.putNodes, g.deleteNodes, m)
        /\ edges' = AddVersions(edges, g.putEdges, g.deleteEdges, m)
        /\ changeLog' = Append(changeLog, ChangeOf(g))
        /\ latest' = m /\ acked' = acked \union {m}
    BY <1>1, <1>3 DEF Publish
  <1>5. /\ txn' = [txn EXCEPT ![inflight] = Fresh("closed")] /\ inflight' = NoTxn
        /\ UNCHANGED <<durable, up, shuttingDown, sub, seen>>
    BY DEF Publish
  <1>6. InvTxn'
    <2>1. Fresh("closed") \in TxnType /\ NotBoth(Fresh("closed"))
      BY FreshType
    <2> QED
      BY <1>5, <2>1 DEF IInv, InvTxn
  <1>7. InvDurable'
    <2>1. \A u \in Txns : txn'[u].status = IF u = inflight THEN "closed" ELSE txn[u].status
      BY <1>5 DEF IInv, InvTxn, Fresh
    <2>2. \A i \in 1..Len(durable) : durable[i].txn \in Txns
      BY GroupFields DEF IInv, InvDurable, GroupType
    <2> QED
      BY <1>5, <2>1, <2>2 DEF IInv, InvDurable
  <1>8. InvHead'
    <2>1. acked' \subseteq 1..Len(durable)
      BY <1>2, <1>4 DEF IInv, InvHead
    <2> QED
      BY <1>0, <1>1, <1>2, <1>4, <1>5, <2>1 DEF IInv, InvHead
  <1>9. InvMaps'
    <2>1. DOMAIN nodes' = Nodes /\ DOMAIN edges' = Edges
      BY <1>4 DEF AddVersions, IInv, InvMaps
    <2>2. \A n \in Nodes : Lists(nodes'[n], NodeRecords(durable, m, n))
      BY <1>0, <1>2, <1>3, <1>4, PublishMaps DEF IInv, InvMaps
    <2>3. \A e \in Edges : Lists(edges'[e], EdgeRecords(durable, m, e))
      BY <1>0, <1>2, <1>3, <1>4, PublishMaps DEF IInv, InvMaps
    <2> QED
      BY <1>4, <1>5, <2>1, <2>2, <2>3 DEF InvMaps
  <1>10. InvChangeLog'
    <2>1. PICK K \in SUBSET (1..latest) :
            Mutating(durable, latest) \subseteq K /\ Lists(changeLog, Changes(durable, K))
      BY DEF IInv, InvChangeLog
    <2> DEFINE KK == K \union {m}
               R == Changes(durable, K)
               RR == Changes(durable, KK)
    <2>2. /\ DOMAIN R = K /\ DOMAIN RR = DOMAIN R \union {m}
          /\ \A k \in DOMAIN R : RR[k] = R[k]
          /\ RR[m] = ChangeOf(g)
      BY DEF Changes
    <2>3. DOMAIN R \subseteq Nat /\ \A k \in DOMAIN R : k < m
      <3>1. K \subseteq Nat /\ \A k \in K : k < m
        BY <1>0, <2>1
      <3> QED
        BY <2>2, <3>1
    <2> HIDE DEF R, RR, m
    <2>4. Lists(Append(changeLog, RR[m]), RR)
      BY <1>2, <2>1, <2>2, <2>3, ListsAppend DEF R
    <2>5. KK \in SUBSET (1..m) /\ Mutating(durable, m) \subseteq KK
      BY <1>0, <2>1 DEF Mutating, m
    <2> QED
      BY <1>4, <1>5, <2>2, <2>4, <2>5 DEF InvChangeLog, RR
  <1>11. InvSeen' /\ ConsumersExactlyOnce'
    BY <1>5 DEF IInv, InvSeen, ConsumersExactlyOnce, LastSeen
  <1> QED
    BY <1>6, <1>7, <1>8, <1>9, <1>10, <1>11 DEF IInv

(* A client subscribes after the last change it has processed.              *)
LEMMA SubscribeInv ==
  ASSUME IInv, NEW s \in Subscribers, SubscribeCommits(s)
  PROVE  IInv'
  <1>1. LastSeen(s) \in 0..Len(durable) /\ Len(durable) <= MaxCommit /\ Len(durable) \in Nat
        /\ MaxCommit \in Nat
    BY LastSeenBound, DurableWellFormed, GraphStoreAssumption DEF IInv, InvDurable
  <1>2. sub' = [sub EXCEPT ![s] = [open |-> TRUE, after |-> LastSeen(s)]] /\ up
        /\ UNCHANGED <<durable, up, memory, inflight, txn, seen, acked>>
    BY DEF SubscribeCommits, Unlocked
  <1>3. InvDurable' /\ InvTxn' /\ InvHead' /\ InvMaps' /\ InvChangeLog' /\ ConsumersExactlyOnce'
    BY <1>2 DEF IInv, InvDurable, InvTxn, InvHead, InvMaps, InvChangeLog,
                ConsumersExactlyOnce, LastSeen, memory, GroupFor
  <1>4. InvSeen'
    <2>1. \A r \in Subscribers : LastSeen(r)' = LastSeen(r)
      BY <1>2 DEF LastSeen
    <2> QED
      BY <1>1, <1>2, <2>1 DEF IInv, InvSeen
  <1> QED
    BY <1>3, <1>4 DEF IInv

(* shutdown() only sets its flag.                                           *)
LEMMA ShutdownInv ==
  ASSUME IInv, Shutdown
  PROVE  IInv'
  <1>1. shuttingDown' = TRUE /\ up
        /\ UNCHANGED <<durable, up, latest, nodes, edges, changeLog, inflight, txn, sub, seen, acked>>
    BY DEF Shutdown, Unlocked
  <1> QED
    <2>1. InvDurable' /\ InvTxn' /\ InvMaps' /\ InvChangeLog'
      BY <1>1 DEF IInv, InvDurable, InvTxn, InvMaps, InvChangeLog
    <2>2. InvHead'
      BY <1>1 DEF IInv, InvHead, GroupFor
    <2>3. InvSeen' /\ ConsumersExactlyOnce'
      BY <1>1 DEF IInv, InvSeen, ConsumersExactlyOnce, LastSeen
    <2> QED
      BY <2>1, <2>2, <2>3 DEF IInv

(* The process ends: what it had staged or not yet published is gone from   *)
(* memory, the file is not.                                                 *)
LEMMA CrashInv ==
  ASSUME IInv, Crash
  PROVE  IInv'
  <1>0. MaxCommit \in Nat /\ NoTxn \notin Txns /\ 1..0 = {}
    BY GraphStoreAssumption
  <1>1. /\ up' = FALSE /\ latest' = 0 /\ shuttingDown' = FALSE /\ changeLog' = <<>>
        /\ nodes' = [n \in Nodes |-> <<>>] /\ edges' = [e \in Edges |-> <<>>]
        /\ inflight' = NoTxn
        /\ txn' = [t \in Txns |-> IF txn[t].status = "open" THEN Fresh("closed") ELSE txn[t]]
        /\ sub' = [s \in Subscribers |-> NoSub]
        /\ UNCHANGED <<durable, seen, acked>>
    BY DEF Crash
  <1>2. InvTxn' /\ \A t \in Txns : txn[t].status \in {"open", "closed"} => txn'[t].status = "closed"
    <2>1. Fresh("closed") \in TxnType /\ NotBoth(Fresh("closed"))
      BY FreshType
    <2>2. \A t \in Txns : txn'[t] = IF txn[t].status = "open" THEN Fresh("closed") ELSE txn[t]
      BY <1>1
    <2>3. txn' \in [Txns -> TxnType] /\ \A t \in Txns : NotBoth(txn'[t])
      BY <1>1, <2>1, <2>2 DEF IInv, InvTxn
    <2> QED
      BY <2>2, <2>3 DEF InvTxn, Fresh
  <1>3. InvDurable'
    <2>1. \A i \in 1..Len(durable) : durable[i].txn \in Txns
      BY GroupFields DEF IInv, InvDurable, GroupType
    <2>2. \A i \in 1..Len(durable) : txn[durable[i].txn].status \in {"open", "closed"}
      BY <2>1, <1>0 DEF IInv, InvDurable, InvHead
    <2>3. \A i \in 1..Len(durable) : txn'[durable[i].txn].status = "closed"
      BY <2>1, <2>2, <1>2
    <2> QED
      BY <1>1, <2>3 DEF IInv, InvDurable
  <1>4. InvHead'
    BY <1>0, <1>1 DEF IInv, InvHead
  <1>5. InvMaps'
    <2>1. \A x : DOMAIN NodeRecords(durable, 0, x) = {} /\ DOMAIN EdgeRecords(durable, 0, x) = {}
      BY <1>0 DEF NodeRecords, EdgeRecords
    <2>2. \A x : Lists(<<>>, NodeRecords(durable, 0, x)) /\ Lists(<<>>, EdgeRecords(durable, 0, x))
      BY <2>1, ListsNothing
    <2> QED
      BY <1>1, <2>2 DEF InvMaps
  <1>6. InvChangeLog'
    <2>1. DOMAIN Changes(durable, {}) = {} /\ Mutating(durable, 0) = {}
      BY <1>0 DEF Changes, Mutating
    <2>2. Lists(<<>>, Changes(durable, {}))
      BY <2>1, ListsNothing
    <2>3. {} \in SUBSET (1..0)
      OBVIOUS
    <2> QED
      BY <1>1, <2>1, <2>2, <2>3 DEF InvChangeLog
  <1>7. InvSeen' /\ ConsumersExactlyOnce'
    <2>1. ConsumersExactlyOnce'
      BY <1>1 DEF IInv, ConsumersExactlyOnce, LastSeen
    <2>2. sub' \in [Subscribers -> [open : BOOLEAN, after : Nat]]
          /\ \A s \in Subscribers : ~sub'[s].open /\ sub'[s].after = 0
      BY <1>1 DEF NoSub
    <2>3. InvSeen'
      BY <1>0, <1>1, <2>2 DEF IInv, InvSeen
    <2> QED
      BY <2>1, <2>3
  <1> QED
    BY <1>2, <1>3, <1>4, <1>5, <1>6, <1>7 DEF IInv

(* A client takes the first change of the log past the last it processed.   *)
LEMMA NextChangeInv ==
  ASSUME IInv, NEW s \in Subscribers, NextChange(s)
  PROVE  IInv'
  <1> DEFINE n == Len(durable)
             q == seen[s]
             V == {ChangeOf(durable[k]) : k \in 1..n}
  <1>1. /\ up /\ inflight = NoTxn /\ sub[s].open /\ sub[s].after = LastSeen(s)
        /\ UNCHANGED <<durable, up, memory, inflight, txn, acked>>
    BY DEF NextChange, Unlocked, IInv, InvSeen
  <1>2. PICK i \in DOMAIN changeLog :
          /\ changeLog[i].commit > sub[s].after
          /\ \A j \in 1..(i-1) : changeLog[j].commit <= sub[s].after
          /\ sub' = [sub EXCEPT ![s].after = changeLog[i].commit]
          /\ seen' = [seen EXCEPT ![s] = Append(@, changeLog[i])]
    BY DEF NextChange
  <1>3. /\ latest = n /\ n \in Nat /\ DOMAIN durable = 1..n /\ MaxCommit \in Nat /\ n <= MaxCommit
        /\ LastSeen(s) \in 0..n
        /\ \A k \in 1..n : durable[k].commit = k
    BY <1>1, DurableWellFormed, LastSeenBound, GraphStoreAssumption DEF IInv, InvHead, InvDurable
  <1>4. PICK K \in SUBSET (1..n) :
          Mutating(durable, n) \subseteq K /\ Lists(changeLog, Changes(durable, K))
    BY <1>3 DEF IInv, InvChangeLog
  <1>5. PICK key \in [1..Len(changeLog) -> K] :
          /\ Len(changeLog) \in Nat /\ DOMAIN changeLog = 1..Len(changeLog)
          /\ \A j \in 1..Len(changeLog) : changeLog[j] = ChangeOf(durable[key[j]])
          /\ \A a, b \in 1..Len(changeLog) : a < b <=> key[a] < key[b]
          /\ \A k \in K : \E j \in 1..Len(changeLog) : key[j] = k
    <2> DEFINE R == Changes(durable, K)
    <2>1. DOMAIN R = K /\ \A k \in K : R[k] = ChangeOf(durable[k])
      BY DEF Changes
    <2>2. DOMAIN R \subseteq Nat /\ Lists(changeLog, R)
      BY <1>3, <1>4, <2>1
    <2> HIDE DEF R
    <2>3. PICK key \in [1..Len(changeLog) -> DOMAIN R] :
            /\ Len(changeLog) \in Nat /\ DOMAIN changeLog = 1..Len(changeLog)
            /\ \A j \in 1..Len(changeLog) : changeLog[j] = R[key[j]]
            /\ \A a, b \in 1..Len(changeLog) : a < b <=> key[a] < key[b]
            /\ \A k \in DOMAIN R : \E j \in 1..Len(changeLog) : key[j] = k
      BY <2>2, ListsElements
    <2>4. \A j \in 1..Len(changeLog) : changeLog[j] = ChangeOf(durable[key[j]])
      BY <2>1, <2>3
    <2>5. /\ key \in [1..Len(changeLog) -> K]
          /\ \A k \in K : \E j \in 1..Len(changeLog) : key[j] = k
      BY <2>1, <2>3
    <2> QED
      BY <2>3, <2>4, <2>5
  <1>6. \A j \in 1..Len(changeLog) : key[j] \in 1..n /\ changeLog[j].commit = key[j]
    <2>1. TAKE j \in 1..Len(changeLog)
    <2>2. key[j] \in 1..n
      BY <1>5
    <2> QED
      BY <1>3, <1>5, <2>2 DEF ChangeOf
  <1> DEFINE m == key[i]
             c == changeLog[i]
  <1>7. /\ i \in 1..Len(changeLog) /\ m \in 1..n /\ c = ChangeOf(durable[m]) /\ c.commit = m
        /\ m > LastSeen(s) /\ c \in V
    BY <1>1, <1>2, <1>5, <1>6
  <1>8. /\ q \in Seq(V) /\ Len(q) \in Nat /\ DOMAIN q = 1..Len(q)
        /\ Append(q, c) \in Seq(V) /\ Len(Append(q, c)) = Len(q) + 1
        /\ DOMAIN Append(q, c) = 1..(Len(q) + 1)
        /\ \A j \in 1..Len(q) : Append(q, c)[j] = q[j]
        /\ Append(q, c)[Len(q) + 1] = c
    <2>1. q \in Seq(V)
      BY DEF IInv, InvSeen
    <2> HIDE DEF V, q, c
    <2> QED
      BY <1>7, <2>1, AppendProperties, LenProperties
  <1>9. \A j \in DOMAIN q : q[j].commit <= LastSeen(s) /\ q[j].commit \in 1..n
    <2>1. TAKE j \in DOMAIN q
    <2>2. q[j].commit \in 1..n
      <3>1. q[j] \in V
        BY <1>8, ElementOfSeq
      <3> QED
        BY <3>1, <1>3 DEF ChangeOf
    <2>3. LastSeen(s) = q[Len(q)].commit /\ Len(q) \in DOMAIN q
      <3>1. q # <<>> /\ Len(q) \in 1..Len(q)
        BY <1>8, EmptySeq
      <3> QED
        BY <1>8, <3>1 DEF LastSeen
    <2>4. j < Len(q) => q[j].commit < q[Len(q)].commit
      BY <2>3 DEF IInv, ConsumersExactlyOnce
    <2> QED
      BY <1>3, <1>8, <2>2, <2>3, <2>4
  <1>10. /\ seen' = [seen EXCEPT ![s] = Append(q, c)]
         /\ seen'[s] = Append(q, c) /\ \A r \in Subscribers \ {s} : seen'[r] = seen[r]
    BY <1>2 DEF IInv, InvSeen
  <1>11. LastSeen(s)' = m /\ \A r \in Subscribers \ {s} : LastSeen(r)' = LastSeen(r)
    <2>1. Append(q, c) # <<>>
      <3> DEFINE p == Append(q, c)
      <3>1. Len(p) # 0
        BY <1>8
      <3> HIDE DEF p
      <3>2. p # <<>>
        BY <3>1, EmptySeq
      <3> QED
        BY <3>2 DEF p
    <2> QED
      BY <1>7, <1>8, <1>10, <2>1 DEF LastSeen
  <1> HIDE DEF c, m, V
  <1>12. InvSeen'
    <2>1. seen' \in [Subscribers -> Seq(V)]
      BY <1>8, <1>10 DEF IInv, InvSeen, V
    <2>2. /\ sub' \in [Subscribers -> [open : BOOLEAN, after : Nat]]
          /\ sub'[s].after = m /\ sub'[s].open
          /\ \A r \in Subscribers \ {s} : sub'[r] = sub[r]
      <3>1. sub \in [Subscribers -> [open : BOOLEAN, after : Nat]]
        BY DEF IInv, InvSeen
      <3>2. sub' = [sub EXCEPT ![s].after = m] /\ m \in Nat
        BY <1>2, <1>7 DEF c
      <3> QED
        BY <1>1, <3>1, <3>2
    <2>3. seen' \in [Subscribers -> Seq({ChangeOf(durable[k]) : k \in 1..Len(durable)})']
      BY <1>1, <2>1 DEF V
    <2>4. \A r \in Subscribers : /\ sub'[r].open => up' /\ sub'[r].after = LastSeen(r)'
                                 /\ sub'[r].after <= MaxCommit
      <3>1. TAKE r \in Subscribers
      <3>2. CASE r = s
        BY <1>1, <1>3, <1>7, <1>11, <2>2, <3>2
      <3>3. CASE r # s
        BY <1>1, <1>11, <2>2, <3>3 DEF IInv, InvSeen
      <3> QED
        BY <3>2, <3>3
    <2> QED
      BY <2>2, <2>3, <2>4 DEF InvSeen
  <1>13. ConsumersExactlyOnce'
    <2>1. ASSUME NEW r \in Subscribers, r # s
          PROVE  /\ \A a, b \in DOMAIN seen'[r] : a < b => seen'[r][a].commit < seen'[r][b].commit
                 /\ \A a \in DOMAIN seen'[r] : \E k \in DOMAIN durable : seen'[r][a] = ChangeOf(durable[k])
                 /\ \A k \in DOMAIN durable :
                      \/ durable[k].commit > LastSeen(r)' \/ IsEmptyChange(ChangeOf(durable[k]))
                      \/ \E a \in DOMAIN seen'[r] : seen'[r][a] = ChangeOf(durable[k])
      BY <1>10, <1>11, <2>1 DEF IInv, ConsumersExactlyOnce
    <2>2. \A a, b \in 1..(Len(q) + 1) : a < b => Append(q, c)[a].commit < Append(q, c)[b].commit
      <3>1. TAKE a, b \in 1..(Len(q) + 1)
      <3>2. HAVE a < b
      <3>3. CASE b = Len(q) + 1
        <4>1. a \in DOMAIN q /\ Append(q, c)[a] = q[a] /\ Append(q, c)[b] = c
          BY <1>8, <3>2, <3>3
        <4> QED
          BY <1>3, <1>7, <1>9, <4>1
      <3>4. CASE b # Len(q) + 1
        <4>1. a \in DOMAIN q /\ b \in DOMAIN q
          BY <1>8, <3>2, <3>4
        <4>2. Append(q, c)[a] = q[a] /\ Append(q, c)[b] = q[b]
          BY <1>8, <4>1
        <4> QED
          BY <3>2, <4>1, <4>2 DEF IInv, ConsumersExactlyOnce
      <3> QED
        BY <3>3, <3>4
    <2>3. \A a \in 1..(Len(q) + 1) : \E k \in 1..n : Append(q, c)[a] = ChangeOf(durable[k])
      <3>1. TAKE a \in 1..(Len(q) + 1)
      <3>2. Append(q, c)[a] \in V
        BY <1>8, ElementOfSeq
      <3> QED
        BY <3>2 DEF V
    <2>4. ASSUME NEW k \in 1..n, k <= m, ~IsEmptyChange(ChangeOf(durable[k]))
          PROVE  \E a \in 1..(Len(q) + 1) : Append(q, c)[a] = ChangeOf(durable[k])
      <3>1. CASE k <= LastSeen(s)
        <4>1. ~(durable[k].commit > LastSeen(s))
          BY <1>3, <3>1
        <4>2. PICK a \in DOMAIN q : q[a] = ChangeOf(durable[k])
          BY <1>3, <2>4, <4>1 DEF IInv, ConsumersExactlyOnce
        <4> QED
          BY <1>8, <4>2
      <3>2. CASE k > LastSeen(s)
        <4>1. k \in K
          BY <1>4, <2>4 DEF Mutating
        <4>2. PICK j \in 1..Len(changeLog) : key[j] = k
          BY <1>5, <4>1
        <4>3. ~(j \in 1..(i-1))
          BY <1>1, <1>2, <1>3, <1>6, <3>2, <4>2
        <4>4. ~(j < i)
          BY <1>5, <1>7, <4>3
        <4>5. ~(key[i] < key[j])
          BY <1>7, <2>4, <4>2 DEF m
        <4>6. j = i
          BY <1>5, <1>7, <4>4, <4>5
        <4>7. Append(q, c)[Len(q) + 1] = ChangeOf(durable[k])
          BY <1>7, <1>8, <4>2, <4>6 DEF m
        <4> QED
          BY <1>8, <4>7
      <3> QED
        BY <1>3, <3>1, <3>2
    <2>5. /\ \A a, b \in DOMAIN seen'[s] : a < b => seen'[s][a].commit < seen'[s][b].commit
          /\ \A a \in DOMAIN seen'[s] : \E k \in DOMAIN durable : seen'[s][a] = ChangeOf(durable[k])
          /\ \A k \in DOMAIN durable :
               \/ durable[k].commit > LastSeen(s)' \/ IsEmptyChange(ChangeOf(durable[k]))
               \/ \E a \in DOMAIN seen'[s] : seen'[s][a] = ChangeOf(durable[k])
      <3>1. \A k \in 1..n : ~(durable[k].commit > m) => k <= m
        BY <1>3, <1>7
      <3> DEFINE p == Append(q, c)
      <3>2. seen'[s] = p /\ DOMAIN p = 1..(Len(q) + 1) /\ DOMAIN durable = 1..n /\ LastSeen(s)' = m
        BY <1>3, <1>8, <1>10, <1>11
      <3> HIDE DEF p
      <3>3. \A a, b \in DOMAIN p : a < b => p[a].commit < p[b].commit
        BY <2>2, <3>2 DEF p
      <3>4. \A a \in DOMAIN p : \E k \in 1..n : p[a] = ChangeOf(durable[k])
        BY <2>3, <3>2 DEF p
      <3>5. \A k \in 1..n : \/ durable[k].commit > m \/ IsEmptyChange(ChangeOf(durable[k]))
                           \/ \E a \in DOMAIN p : p[a] = ChangeOf(durable[k])
        BY <2>4, <3>1, <3>2 DEF p
      <3> QED
        BY <3>2, <3>3, <3>4, <3>5
    <2> QED
      BY <1>1, <2>1, <2>5 DEF ConsumersExactlyOnce
  <1>14. InvDurable' /\ InvTxn' /\ InvHead' /\ InvMaps' /\ InvChangeLog'
    BY <1>1 DEF IInv, InvDurable, InvTxn, InvHead, InvMaps, InvChangeLog, memory, GroupFor
  <1> QED
    BY <1>12, <1>13, <1>14 DEF IInv

(* load rebuilds the whole memory from the file.                            *)
LEMMA ReopenInv ==
  ASSUME IInv, Reopen
  PROVE  IInv'
  <1> DEFINE n == Len(durable)
  <1>1. /\ ~up /\ up' = TRUE
        /\ nodes' = [x \in Nodes |-> LoadNode(x)] /\ edges' = [e \in Edges |-> LoadEdge(e)]
        /\ changeLog' = LoadedChanges
        /\ UNCHANGED <<durable, shuttingDown, inflight, txn, sub, seen, acked>>
    BY DEF Reopen
  <1>2. WellFormed(durable) /\ n \in Nat /\ DOMAIN durable = 1..n /\ inflight = NoTxn
    BY <1>1, DurableWellFormed DEF IInv, InvHead
  <1>3. latest' = n
    <2>1. CASE durable = <<>>
      BY <2>1, EmptySeq DEF Reopen
    <2>2. CASE durable # <<>>
      <3>1. n \in 1..n
        BY <1>2, <2>2, EmptySeq DEF WellFormed
      <3>2. durable[n].commit = n
        BY <1>2, <3>1 DEF WellFormed
      <3> QED
        BY <2>2, <3>2 DEF Reopen
    <2> QED
      BY <2>1, <2>2
  <1>4. InvMaps'
    <2>1. /\ \A x \in Nodes : Lists(LoadNode(x), NodeRecords(durable, n, x))
          /\ \A e \in Edges : Lists(LoadEdge(e), EdgeRecords(durable, n, e))
      BY <1>2, LoadMaps
    <2> QED
      BY <1>1, <1>3, <2>1 DEF InvMaps
  <1>5. InvChangeLog'
    <2>1. Lists(LoadedChanges, Changes(durable, Mutating(durable, n)))
      BY <1>2, LoadLog
    <2>2. Mutating(durable, n) \in SUBSET (1..n)
      BY DEF Mutating
    <2> QED
      BY <1>1, <1>3, <2>1, <2>2 DEF InvChangeLog
  <1>6. InvHead'
    BY <1>1, <1>2, <1>3 DEF IInv, InvHead
  <1>7. InvDurable' /\ InvTxn'
    BY <1>1 DEF IInv, InvDurable, InvTxn
  <1>8. InvSeen'
    <2>1. \A s \in Subscribers : ~sub[s].open
      BY <1>1 DEF IInv, InvSeen
    <2> QED
      BY <1>1, <2>1 DEF IInv, InvSeen
  <1>9. ConsumersExactlyOnce'
    BY <1>1 DEF IInv, ConsumersExactlyOnce, LastSeen
  <1> QED
    BY <1>4, <1>5, <1>6, <1>7, <1>8, <1>9 DEF IInv

-----------------------------------------------------------------------------
(* The invariant is inductive.                                              *)
LEMMA StepInv == IInv /\ [Next]_vars => IInv'
  <1> SUFFICES ASSUME IInv, [Next]_vars PROVE IInv'
    OBVIOUS
  <1>1. CASE UNCHANGED vars
    <2>1. InvDurable' /\ InvTxn' /\ InvMaps' /\ InvChangeLog'
      BY <1>1 DEF vars, memory, IInv, InvDurable, InvTxn, InvMaps, InvChangeLog
    <2>2. InvHead'
      BY <1>1 DEF vars, memory, IInv, InvHead, GroupFor
    <2>3. InvSeen' /\ ConsumersExactlyOnce'
      BY <1>1 DEF vars, memory, IInv, InvSeen, ConsumersExactlyOnce, LastSeen
    <2> QED
      BY <2>1, <2>2, <2>3 DEF IInv
  <1>2. ASSUME NEW t \in Txns,
               \/ BeginTxn(t)
               \/ \E n \in Nodes, v \in NodeViews : PutNode(t, n, v)
               \/ \E e \in Edges, v \in EdgeViews : PutEdge(t, e, v)
               \/ \E n \in Nodes : DeleteNode(t, n)
               \/ \E e \in Edges : DeleteEdge(t, e)
               \/ Abort(t)
        PROVE  IInv'
    BY <1>2, StagingInv
  <1>3. ASSUME NEW t \in Txns, CommitAppend(t) PROVE IInv'
    BY <1>3, CommitAppendInv
  <1>4. CASE Publish
    BY <1>4, PublishInv
  <1>5. ASSUME NEW s \in Subscribers, SubscribeCommits(s) PROVE IInv'
    BY <1>5, SubscribeInv
  <1>6. ASSUME NEW s \in Subscribers, NextChange(s) PROVE IInv'
    BY <1>6, NextChangeInv
  <1>7. CASE Shutdown
    BY <1>7, ShutdownInv
  <1>8. CASE Crash
    BY <1>8, CrashInv
  <1>9. CASE Reopen
    BY <1>9, ReopenInv
  <1> QED
    BY <1>1, <1>2, <1>3, <1>4, <1>5, <1>6, <1>7, <1>8, <1>9 DEF Next

(* The invariant holds in every reachable state.                            *)
THEOREM Invariance == Spec => []IInv
  BY InitInv, StepInv, PTL DEF Spec

(* A client that crashes and resubscribes sees every change of the file     *)
(* that mutates something once, in commit order, for any number of          *)
(* subscribers, commits and crashes.                                        *)
THEOREM EveryConsumerExactlyOnce == Spec => []ConsumersExactlyOnce
  <1>1. IInv => ConsumersExactlyOnce
    BY DEF IInv
  <1> QED
    BY <1>1, Invariance, PTL

-----------------------------------------------------------------------------
(***************************************************************************)
(* What the invariant of the store gives its users: types, snapshots that  *)
(* equal a replay of the file, and the refinement of the two abstract      *)
(* specifications, the atomic log of the file and the sequence of graphs.  *)
(***************************************************************************)
(* What the history of a node shows at a commit is what replay has there:   *)
(* the two are built in different ways from the same groups.                *)
LEMMA NodeMatchesReplay ==
  ASSUME NEW D, WellFormed(D), NEW L \in 0..Len(D), NEW n \in Nodes,
         NEW h, Lists(h, NodeRecords(D, L, n))
  PROVE  \A c \in 0..L : /\ LatestAt(h, c).view = Replay(D)[c].node[n]
                         /\ LatestAt(h, c).tombstone <=> Replay(D)[c].node[n] = Absent
  <1> DEFINE R == NodeRecords(D, L, n)
             Same(c) == /\ LatestAt(h, c).view = Replay(D)[c].node[n]
                        /\ LatestAt(h, c).tombstone <=> Replay(D)[c].node[n] = Absent
             Bad == {c \in 0..L : ~Same(c)}
  <1>1. SUFFICES ASSUME Bad # {} PROVE FALSE
    OBVIOUS
  <1>2. Len(D) \in Nat /\ L \in Nat /\ D \in Seq(GroupType)
    BY LenProperties DEF WellFormed
  <1>3. PICK c \in Bad : \A x \in Bad : c <= x
    <2>1. Bad \in SUBSET Nat
      BY <1>2
    <2> HIDE DEF Bad
    <2> QED
      BY <1>1, <2>1, MinExists
  <1>4. /\ DOMAIN R \subseteq Nat \ {0} /\ \A k \in DOMAIN R : R[k].begin = k
        /\ Lists(h, R)
    <2>1. DOMAIN R \in SUBSET (1..L) /\ \A k \in DOMAIN R : R[k].begin = k
      BY <1>2, RecordsBegin
    <2> HIDE DEF R
    <2>2. DOMAIN R \subseteq Nat \ {0}
      BY <1>2, <2>1
    <2> QED
      BY <2>1, <2>2 DEF R
  <1>5. CASE c = 0
    <2>1. LatestAt(h, 0) = Tombstone(0)
      <3> HIDE DEF R
      <3> QED
        BY <1>4, LatestAtZero
    <2>2. Replay(D)[0].node[n] = Absent
      BY <1>2, ReplayUnfolds DEF EmptyGraph
    <2>3. Same(0)
      BY <2>1, <2>2 DEF Tombstone
    <2> QED
      BY <1>3, <1>5, <2>3
  <1>6. CASE c # 0
    <2>1. c \in 1..L /\ c \in 1..Len(D) /\ c \in Nat \ {0} /\ c - 1 \in 0..L
      BY <1>2, <1>3, <1>6
    <2>2. Same(c - 1)
      <3>1. c - 1 \notin Bad
        BY <1>3, <2>1
      <3> HIDE DEF Same
      <3> QED
        BY <2>1, <3>1
    <2>3. LatestAt(h, c) = IF c \in DOMAIN R THEN R[c] ELSE LatestAt(h, c - 1)
      <3> HIDE DEF R
      <3> QED
        BY <1>4, <2>1, LatestAtStep
    <2>4. Replay(D)[c].node[n]
            = IF n \in D[c].deleteNodes THEN Absent
              ELSE IF n \in DOMAIN D[c].putNodes THEN D[c].putNodes[n]
              ELSE Replay(D)[c - 1].node[n]
      <3>1. Replay(D)[c] = Apply(Replay(D)[c - 1], D[c])
        BY <1>2, <2>1, ReplayUnfolds
      <3> QED
        BY <3>1 DEF Apply
    <2>5. /\ c \in DOMAIN R <=> n \in DOMAIN D[c].putNodes \union D[c].deleteNodes
          /\ c \in DOMAIN R =>
               R[c] = IF n \in D[c].deleteNodes THEN Tombstone(c) ELSE Version(D[c].putNodes[n], c)
      BY <2>1 DEF NodeRecords
    <2>6. n \in DOMAIN D[c].putNodes => D[c].putNodes[n] # Absent
      BY <1>2, <2>1, GroupFields, GraphStoreAssumption
    <2> HIDE DEF R
    <2>7. Same(c)
      <3>1. /\ Tombstone(c).view = Absent /\ Tombstone(c).tombstone
            /\ \A v : Version(v, c).view = v /\ ~Version(v, c).tombstone
        BY DEF Tombstone, Version
      <3>2. CASE n \in D[c].deleteNodes
        <4>1. LatestAt(h, c) = Tombstone(c) /\ Replay(D)[c].node[n] = Absent
          BY <2>3, <2>4, <2>5, <3>2
        <4> QED
          BY <3>1, <4>1
      <3>3. CASE n \notin D[c].deleteNodes /\ n \in DOMAIN D[c].putNodes
        <4>1. /\ LatestAt(h, c) = Version(D[c].putNodes[n], c)
              /\ Replay(D)[c].node[n] = D[c].putNodes[n]
          BY <2>3, <2>4, <2>5, <3>3
        <4> QED
          BY <2>6, <3>1, <3>3, <4>1
      <3>4. CASE n \notin D[c].deleteNodes /\ n \notin DOMAIN D[c].putNodes
        <4>1. /\ LatestAt(h, c) = LatestAt(h, c - 1)
              /\ Replay(D)[c].node[n] = Replay(D)[c - 1].node[n]
          BY <2>3, <2>4, <2>5, <3>4
        <4> QED
          BY <2>2, <4>1
      <3> QED
        BY <3>2, <3>3, <3>4
    <2> QED
      BY <1>3, <2>7
  <1> QED
    BY <1>5, <1>6

(* The same for an edge.                                                    *)
LEMMA EdgeMatchesReplay ==
  ASSUME NEW D, WellFormed(D), NEW L \in 0..Len(D), NEW e \in Edges,
         NEW h, Lists(h, EdgeRecords(D, L, e))
  PROVE  \A c \in 0..L : /\ LatestAt(h, c).view = Replay(D)[c].edge[e]
                         /\ LatestAt(h, c).tombstone <=> Replay(D)[c].edge[e] = Absent
  <1> DEFINE R == EdgeRecords(D, L, e)
             Same(c) == /\ LatestAt(h, c).view = Replay(D)[c].edge[e]
                        /\ LatestAt(h, c).tombstone <=> Replay(D)[c].edge[e] = Absent
             Bad == {c \in 0..L : ~Same(c)}
  <1>1. SUFFICES ASSUME Bad # {} PROVE FALSE
    OBVIOUS
  <1>2. Len(D) \in Nat /\ L \in Nat /\ D \in Seq(GroupType)
    BY LenProperties DEF WellFormed
  <1>3. PICK c \in Bad : \A x \in Bad : c <= x
    <2>1. Bad \in SUBSET Nat
      BY <1>2
    <2> HIDE DEF Bad
    <2> QED
      BY <1>1, <2>1, MinExists
  <1>4. /\ DOMAIN R \subseteq Nat \ {0} /\ \A k \in DOMAIN R : R[k].begin = k
        /\ Lists(h, R)
    <2>1. DOMAIN R \in SUBSET (1..L) /\ \A k \in DOMAIN R : R[k].begin = k
      BY <1>2, RecordsBegin
    <2> HIDE DEF R
    <2>2. DOMAIN R \subseteq Nat \ {0}
      BY <1>2, <2>1
    <2> QED
      BY <2>1, <2>2 DEF R
  <1>5. CASE c = 0
    <2>1. LatestAt(h, 0) = Tombstone(0)
      <3> HIDE DEF R
      <3> QED
        BY <1>4, LatestAtZero
    <2>2. Replay(D)[0].edge[e] = Absent
      BY <1>2, ReplayUnfolds DEF EmptyGraph
    <2>3. Same(0)
      BY <2>1, <2>2 DEF Tombstone
    <2> QED
      BY <1>3, <1>5, <2>3
  <1>6. CASE c # 0
    <2>1. c \in 1..L /\ c \in 1..Len(D) /\ c \in Nat \ {0} /\ c - 1 \in 0..L
      BY <1>2, <1>3, <1>6
    <2>2. Same(c - 1)
      <3>1. c - 1 \notin Bad
        BY <1>3, <2>1
      <3> HIDE DEF Same
      <3> QED
        BY <2>1, <3>1
    <2>3. LatestAt(h, c) = IF c \in DOMAIN R THEN R[c] ELSE LatestAt(h, c - 1)
      <3> HIDE DEF R
      <3> QED
        BY <1>4, <2>1, LatestAtStep
    <2>4. Replay(D)[c].edge[e]
            = IF e \in D[c].deleteEdges THEN Absent
              ELSE IF e \in DOMAIN D[c].putEdges THEN D[c].putEdges[e]
              ELSE Replay(D)[c - 1].edge[e]
      <3>1. Replay(D)[c] = Apply(Replay(D)[c - 1], D[c])
        BY <1>2, <2>1, ReplayUnfolds
      <3> QED
        BY <3>1 DEF Apply
    <2>5. /\ c \in DOMAIN R <=> e \in DOMAIN D[c].putEdges \union D[c].deleteEdges
          /\ c \in DOMAIN R =>
               R[c] = IF e \in D[c].deleteEdges THEN Tombstone(c) ELSE Version(D[c].putEdges[e], c)
      BY <2>1 DEF EdgeRecords
    <2>6. e \in DOMAIN D[c].putEdges => D[c].putEdges[e] # Absent
      BY <1>2, <2>1, GroupFields, GraphStoreAssumption
    <2> HIDE DEF R
    <2>7. Same(c)
      <3>1. /\ Tombstone(c).view = Absent /\ Tombstone(c).tombstone
            /\ \A v : Version(v, c).view = v /\ ~Version(v, c).tombstone
        BY DEF Tombstone, Version
      <3>2. CASE e \in D[c].deleteEdges
        <4>1. LatestAt(h, c) = Tombstone(c) /\ Replay(D)[c].edge[e] = Absent
          BY <2>3, <2>4, <2>5, <3>2
        <4> QED
          BY <3>1, <4>1
      <3>3. CASE e \notin D[c].deleteEdges /\ e \in DOMAIN D[c].putEdges
        <4>1. /\ LatestAt(h, c) = Version(D[c].putEdges[e], c)
              /\ Replay(D)[c].edge[e] = D[c].putEdges[e]
          BY <2>3, <2>4, <2>5, <3>3
        <4> QED
          BY <2>6, <3>1, <3>3, <4>1
      <3>4. CASE e \notin D[c].deleteEdges /\ e \notin DOMAIN D[c].putEdges
        <4>1. /\ LatestAt(h, c) = LatestAt(h, c - 1)
              /\ Replay(D)[c].edge[e] = Replay(D)[c - 1].edge[e]
          BY <2>3, <2>4, <2>5, <3>4
        <4> QED
          BY <2>2, <4>1
      <3> QED
        BY <3>2, <3>3, <3>4
    <2> QED
      BY <1>3, <2>7
  <1> QED
    BY <1>5, <1>6

-----------------------------------------------------------------------------
(* Every snapshot shows the replay of the file up to its commit.            *)
LEMMA SnapshotsMatch == IInv => SnapshotsMatchReplay
  <1> SUFFICES ASSUME IInv, up, NEW c \in 0..latest, NEW t \in Times
               PROVE  Snapshot(c, t) = Visible(GraphAfter[c], t)
    BY DEF SnapshotsMatchReplay
  <1> DEFINE G == Replay(durable)[c]
  <1>1. WellFormed(durable) /\ latest \in 0..Len(durable) /\ c \in 0..latest
    BY DurableWellFormed DEF IInv, InvHead
  <1>2. \A n \in Nodes : /\ LatestAt(nodes[n], c).view = G.node[n]
                         /\ LatestAt(nodes[n], c).tombstone <=> G.node[n] = Absent
    <2>1. TAKE n \in Nodes
    <2>2. Lists(nodes[n], NodeRecords(durable, latest, n))
      BY DEF IInv, InvMaps
    <2> QED
      BY <1>1, <2>2, NodeMatchesReplay
  <1>3. \A e \in Edges : /\ LatestAt(edges[e], c).view = G.edge[e]
                         /\ LatestAt(edges[e], c).tombstone <=> G.edge[e] = Absent
    <2>1. TAKE e \in Edges
    <2>2. Lists(edges[e], EdgeRecords(durable, latest, e))
      BY DEF IInv, InvMaps
    <2> QED
      BY <1>1, <2>2, EdgeMatchesReplay
  <1> HIDE DEF G
  <1> DEFINE active == {n \in Nodes : G.node[n] # Absent /\ Covers(G.node[n], t)}
  <1>4. \A n \in Nodes : ActiveAt(nodes[n], c, t) <=> G.node[n] # Absent /\ Covers(G.node[n], t)
    BY <1>2 DEF ActiveAt, LiveAt
  <1>5. \A e \in Edges : ActiveAt(edges[e], c, t) <=> G.edge[e] # Absent /\ Covers(G.edge[e], t)
    BY <1>3 DEF ActiveAt, LiveAt
  <1>6. {n \in Nodes : ActiveAt(nodes[n], c, t)} = active
    BY <1>4
  <1>7. {e \in Edges : /\ ActiveAt(edges[e], c, t)
                       /\ LatestAt(edges[e], c).view.from \in active
                       /\ LatestAt(edges[e], c).view.to \in active}
          = {e \in Edges : /\ G.edge[e] # Absent /\ Covers(G.edge[e], t)
                           /\ {G.edge[e].from, G.edge[e].to} \subseteq active}
    <2> HIDE DEF active
    <2> QED
      BY <1>3, <1>5
  <1>8. Snapshot(c, t) = [nodes |-> active,
                          edges |-> {e \in Edges : /\ ActiveAt(edges[e], c, t)
                                                   /\ LatestAt(edges[e], c).view.from \in active
                                                   /\ LatestAt(edges[e], c).view.to \in active}]
    <2> HIDE DEF active
    <2> QED
      BY <1>6 DEF Snapshot
  <1>9. Visible(G, t) = [nodes |-> active,
                         edges |-> {e \in Edges : /\ G.edge[e] # Absent /\ Covers(G.edge[e], t)
                                                  /\ {G.edge[e].from, G.edge[e].to} \subseteq active}]
    BY DEF Visible
  <1>10. GraphAfter[c] = G
    BY DEF GraphAfter, G
  <1> QED
    BY <1>7, <1>8, <1>9, <1>10

(* Every snapshot of every commit at every valid time equals the replay of  *)
(* the file, after any sequence of commits, crashes and reloads.            *)
THEOREM SnapshotsEqualReplay == Spec => []SnapshotsMatchReplay
  BY SnapshotsMatch, Invariance, PTL

-----------------------------------------------------------------------------
(* Types: what the groups, the version maps, the transaction objects and    *)
(* the subscriptions hold.                                                  *)
LEMMA TypesFollow == IInv => TypeOK
  <1> SUFFICES ASSUME IInv PROVE TypeOK
    OBVIOUS
  <1> DEFINE n == Len(durable)
  <1>1. /\ WellFormed(durable) /\ durable \in Seq(GroupType)
        /\ n \in Nat /\ DOMAIN durable = 1..n /\ n <= MaxCommit
        /\ MaxCommit \in Nat /\ latest \in 0..n /\ NoTxn \notin Txns
    BY DurableWellFormed, GraphStoreAssumption DEF IInv, InvDurable, InvHead
  <1>2. \A i \in 1..n : IsStaged(durable[i]) /\ durable[i].commit = i /\ durable[i].txn \in Txns
    <2>1. TAKE i \in 1..n
    <2>2. durable[i].commit = i /\ NotBoth(durable[i]) /\ durable[i] \in GroupType
      BY <1>1, GroupFields DEF WellFormed
    <2>3. IsStaged(durable[i])
      BY <1>1, <2>2, GroupFields DEF IsStaged, NotBoth
    <2> QED
      BY <2>2, <2>3 DEF GroupType
  <1>3. ASSUME NEW x \in Nodes, NEW i \in 1..MaxCommit, i \in DOMAIN nodes[x]
        PROVE  IsVersion(nodes[x][i], NodeViews)
    <2> DEFINE R == NodeRecords(durable, latest, x)
    <2>1. Lists(nodes[x], R)
      BY DEF IInv, InvMaps
    <2>2. nodes[x][i] \in {R[k] : k \in DOMAIN R}
      BY <1>3, <2>1, ElementOfSeq, LenProperties DEF Lists
    <2>3. \A k \in DOMAIN R : IsVersion(R[k], NodeViews)
      <3>1. TAKE k \in DOMAIN R
      <3>2. k \in 1..n /\ k \in 1..MaxCommit
        BY <1>1 DEF NodeRecords
      <3>3. \/ R[k] = Tombstone(k)
            \/ x \in DOMAIN durable[k].putNodes /\ R[k] = Version(durable[k].putNodes[x], k)
        BY DEF NodeRecords
      <3>4. x \in DOMAIN durable[k].putNodes => durable[k].putNodes[x] \in NodeViews
        BY <1>1, <3>2, GroupFields
      <3> HIDE DEF R
      <3>5. CASE R[k] = Tombstone(k)
        BY <3>2, <3>5 DEF IsVersion, Tombstone
      <3>6. CASE x \in DOMAIN durable[k].putNodes /\ R[k] = Version(durable[k].putNodes[x], k)
        BY <3>2, <3>4, <3>6 DEF IsVersion, Version
      <3> QED
        BY <3>3, <3>5, <3>6
    <2> QED
      BY <2>2, <2>3
  <1>4. ASSUME NEW e \in Edges, NEW i \in 1..MaxCommit, i \in DOMAIN edges[e]
        PROVE  IsVersion(edges[e][i], EdgeViews)
    <2> DEFINE R == EdgeRecords(durable, latest, e)
    <2>1. Lists(edges[e], R)
      BY DEF IInv, InvMaps
    <2>2. edges[e][i] \in {R[k] : k \in DOMAIN R}
      BY <1>4, <2>1, ElementOfSeq, LenProperties DEF Lists
    <2>3. \A k \in DOMAIN R : IsVersion(R[k], EdgeViews)
      <3>1. TAKE k \in DOMAIN R
      <3>2. k \in 1..n /\ k \in 1..MaxCommit
        BY <1>1 DEF EdgeRecords
      <3>3. \/ R[k] = Tombstone(k)
            \/ e \in DOMAIN durable[k].putEdges /\ R[k] = Version(durable[k].putEdges[e], k)
        BY DEF EdgeRecords
      <3>4. e \in DOMAIN durable[k].putEdges => durable[k].putEdges[e] \in EdgeViews
        BY <1>1, <3>2, GroupFields
      <3> HIDE DEF R
      <3>5. CASE R[k] = Tombstone(k)
        BY <3>2, <3>5 DEF IsVersion, Tombstone
      <3>6. CASE e \in DOMAIN durable[k].putEdges /\ R[k] = Version(durable[k].putEdges[e], k)
        BY <3>2, <3>4, <3>6 DEF IsVersion, Version
      <3> QED
        BY <3>3, <3>5, <3>6
    <2> QED
      BY <2>2, <2>3
  <1>5. ASSUME NEW t \in Txns
        PROVE  txn[t].status \in {"none", "open", "closed"} /\ IsStaged(txn[t])
    <2>1. txn[t] \in TxnType /\ NotBoth(txn[t])
      BY DEF IInv, InvTxn
    <2> QED
      BY <2>1 DEF TxnType, NotBoth, IsStaged, Partial
  <1>6. sub \in [Subscribers -> [open : BOOLEAN, after : 0..MaxCommit]]
    <2>1. sub \in [Subscribers -> [open : BOOLEAN, after : Nat]]
          /\ \A s \in Subscribers : sub[s].after <= MaxCommit
      BY DEF IInv, InvSeen
    <2>2. \A s \in Subscribers : sub[s] \in [open : BOOLEAN, after : 0..MaxCommit]
      BY <1>1, <2>1
    <2> QED
      BY <2>1, <2>2
  <1>7. /\ up \in BOOLEAN /\ latest \in 0..MaxCommit /\ shuttingDown \in BOOLEAN
        /\ inflight \in Txns \union {NoTxn} /\ acked \subseteq 1..MaxCommit
    <2>1. up \in BOOLEAN /\ shuttingDown \in BOOLEAN /\ inflight \in Txns \union {NoTxn}
          /\ acked \subseteq 1..n
      BY DEF IInv, InvHead
    <2>2. 1..n \subseteq 1..MaxCommit /\ latest \in 0..MaxCommit
      BY <1>1
    <2> QED
      BY <2>1, <2>2
  <1> QED
    BY <1>1, <1>2, <1>3, <1>4, <1>5, <1>6, <1>7 DEF TypeOK

(* Type correctness.                                                        *)
THEOREM TypeCorrect == Spec => []TypeOK
  BY TypesFollow, Invariance, PTL

-----------------------------------------------------------------------------
(* The atomic log: each step of the store is one of its steps or a stutter. *)
LEMMA LogInit == Init => Log!Init
  BY DEF Init, Log!Init

LEMMA LogStep ==
  ASSUME IInv, [Next]_vars
  PROVE  [Log!Next]_<<[i \in DOMAIN durable |-> durable[i].txn], IF up THEN latest ELSE -1, acked>>
  <1> DEFINE log == [i \in DOMAIN durable |-> durable[i].txn]
             head == IF up THEN latest ELSE -1
             n == Len(durable)
  <1>0. /\ n \in Nat /\ DOMAIN durable = 1..n /\ latest \in Nat /\ NoTxn \notin Txns
        /\ WellFormed(durable) /\ durable \in Seq(GroupType)
        /\ \A i \in 1..n : durable[i].txn \in Txns
    <2>1. WellFormed(durable) /\ n \in Nat /\ DOMAIN durable = 1..n /\ durable \in Seq(GroupType)
      BY DurableWellFormed DEF IInv, InvDurable
    <2>2. \A i \in 1..n : durable[i].txn \in Txns
      BY <2>1, GroupFields DEF GroupType
    <2> QED
      BY <2>1, <2>2, GraphStoreAssumption DEF IInv, InvHead
  <1>1. log \in Seq(Txns) /\ Len(log) = n
    BY <1>0, SeqDef, LenProperties
  <1>2. ASSUME NEW t \in Txns, CommitAppend(t) PROVE Log!MakeDurable(t)
    <2> DEFINE g == GroupFor(t, latest + 1)
    <2>1. /\ up /\ inflight = NoTxn /\ txn[t].status = "open"
          /\ durable' = Append(durable, g)
          /\ UNCHANGED <<up, latest, acked>>
      BY <1>2 DEF CommitAppend, Unlocked, memory
    <2>2. head = Len(log)
      BY <1>1, <2>1 DEF IInv, InvHead
    <2>3. \A i \in DOMAIN log : log[i] # t
      BY <1>0, <2>1 DEF IInv, InvDurable
    <2>4. log' = Append(log, t)
      <3>1. g \in GroupType /\ g.txn = t
        BY <1>0, GroupForType DEF IInv, GroupFor
      <3> HIDE DEF g
      <3>2. /\ DOMAIN durable' = 1..(n+1) /\ durable'[n+1] = g
            /\ \A i \in 1..n : durable'[i] = durable[i]
        BY <1>0, <2>1, <3>1, AppendProperties, LenProperties
      <3>3. log' = [i \in 1..(n+1) |-> durable'[i].txn]
        BY <3>2
      <3>4. /\ Append(log, t) \in Seq(Txns) /\ Len(Append(log, t)) = n + 1
            /\ \A i \in 1..n : Append(log, t)[i] = log[i]
            /\ Append(log, t)[n+1] = t
        BY <1>1, AppendProperties, LenProperties
      <3>5. Append(log, t) = [i \in 1..(n+1) |-> Append(log, t)[i]]
        BY <3>4, SeqDef, LenProperties
      <3>6. \A i \in 1..(n+1) : Append(log, t)[i] = durable'[i].txn
        BY <1>0, <3>1, <3>2, <3>4
      <3> HIDE DEF log
      <3> QED
        BY <3>3, <3>5, <3>6
    <2> QED
      BY <2>1, <2>2, <2>3, <2>4 DEF Log!MakeDurable
  <1>3. ASSUME Publish PROVE Log!Publish
    <2>1. /\ inflight # NoTxn /\ up /\ n = latest + 1
          /\ latest' = latest + 1 /\ acked' = acked \union {latest + 1}
          /\ UNCHANGED <<durable, up>>
      BY <1>3 DEF Publish, IInv, InvHead, GroupFor
    <2> QED
      BY <1>0, <1>1, <2>1 DEF Log!Publish, Log!Closed
  <1>4. ASSUME Crash PROVE Log!Die
    BY <1>0, <1>4 DEF Crash, Log!Die, Log!Closed
  <1>5. ASSUME Reopen PROVE Log!Open
    <2>1. ~up /\ up' /\ UNCHANGED <<durable, acked>>
      BY <1>5 DEF Reopen
    <2>2. latest' = n
      <3>1. CASE durable = <<>>
        BY <1>5, <3>1, EmptySeq DEF Reopen
      <3>2. CASE durable # <<>>
        <4>1. n \in 1..n
          BY <1>0, <3>2, EmptySeq
        <4>2. durable[n].commit = n
          BY <1>0, <4>1 DEF WellFormed
        <4> QED
          BY <1>5, <3>2, <4>2 DEF Reopen
      <3> QED
        BY <3>1, <3>2
    <2> QED
      BY <1>1, <2>1, <2>2 DEF Log!Open, Log!Closed
  <1>6. UNCHANGED <<durable, up, latest, acked>> => UNCHANGED <<log, head, acked>>
    OBVIOUS
  <1>7. ASSUME NEW t \in Txns,
               \/ BeginTxn(t)
               \/ \E x \in Nodes, v \in NodeViews : PutNode(t, x, v)
               \/ \E e \in Edges, v \in EdgeViews : PutEdge(t, e, v)
               \/ \E x \in Nodes : DeleteNode(t, x)
               \/ \E e \in Edges : DeleteEdge(t, e)
               \/ Abort(t)
        PROVE  UNCHANGED <<durable, up, latest, acked>>
    BY <1>7 DEF BeginTxn, PutNode, PutEdge, DeleteNode, DeleteEdge, Abort, Stage, memory
  <1>8. ASSUME NEW s \in Subscribers, SubscribeCommits(s) \/ NextChange(s)
        PROVE  UNCHANGED <<durable, up, latest, acked>>
    BY <1>8 DEF SubscribeCommits, NextChange, memory
  <1>9. Shutdown \/ UNCHANGED vars => UNCHANGED <<durable, up, latest, acked>>
    BY DEF Shutdown, vars, memory
  <1> HIDE DEF log, head
  <1>10. [Log!Next]_<<log, head, acked>>
    BY <1>2, <1>3, <1>4, <1>5, <1>6, <1>7, <1>8, <1>9 DEF Next, Log!Next, log, head
  <1> QED
    BY <1>10 DEF log, head

(* Seen from its file the store is the atomic log of CommitLog.             *)
THEOREM StoreIsAtomicLog == Spec => ImplementsAtomicLog
  <1>1. Init => Log!Init
    BY LogInit
  <1>2. IInv /\ [Next]_vars
          => [Log!Next]_<<[i \in DOMAIN durable |-> durable[i].txn], IF up THEN latest ELSE -1, acked>>
    BY LogStep
  <1> QED
    BY <1>1, <1>2, Invariance, PTL DEF Spec, ImplementsAtomicLog, Log!Spec

-----------------------------------------------------------------------------
(* The sequence of graphs: only a commit moves it, by one legal successor.  *)
LEMMA GraphsInit == Init => Graphs!Init
  <1> SUFFICES ASSUME Init PROVE [c \in 1..Len(durable) |-> GraphAfter[c]] = <<>>
    BY DEF Graphs!Init
  <1>1. 1..Len(durable) = {}
    BY DEF Init
  <1> QED
    BY <1>1

(* An edge that a commit puts has both endpoints in the graph it makes:     *)
(* validation looked at the head that the commit extends.                   *)
LEMMA CommitExtends ==
  ASSUME IInv, NEW t \in Txns, CommitAppend(t)
  PROVE  \A e \in Edges :
           LET g == Replay(durable')[Len(durable) + 1]
               h == Replay(durable)[Len(durable)]
           IN  \/ g.edge[e] = h.edge[e]
               \/ g.edge[e] = Absent
               \/ g.node[g.edge[e].from] # Absent /\ g.node[g.edge[e].to] # Absent
  <1> DEFINE n == Len(durable)
             grp == GroupFor(t, latest + 1)
             g == Replay(durable')[n + 1]
             h == Replay(durable)[n]
  <1>1. /\ durable' = Append(durable, grp) /\ up /\ inflight = NoTxn /\ EndpointsVisible(t)
    BY DEF CommitAppend, Unlocked
  <1>2. /\ latest = n /\ n \in Nat /\ NoTxn \notin Txns /\ WellFormed(durable)
        /\ durable \in Seq(GroupType)
    BY <1>1, DurableWellFormed, GraphStoreAssumption DEF IInv, InvHead, InvDurable
  <1>3. grp \in GroupType /\ NotBoth(grp)
    BY <1>2, GroupForType DEF IInv
  <1>4. /\ grp.putNodes = txn[t].putNodes /\ grp.putEdges = txn[t].putEdges
        /\ grp.deleteNodes = txn[t].deleteNodes /\ grp.deleteEdges = txn[t].deleteEdges
    BY DEF GroupFor
  <1> HIDE DEF grp
  <1>5. g = Apply(h, grp)
    <2>1. Len(durable') = n + 1 /\ durable'[n+1] = grp
      BY <1>1, <1>2, <1>3, AppendProperties, LenProperties
    <2>2. Replay(durable')[n] = h
      BY <1>1, <1>2, <1>3, ReplayKeeps
    <2>3. Replay(durable')[n+1] = Apply(Replay(durable')[n], durable'[n+1])
      <3>1. Len(durable') \in Nat /\ n + 1 \in 1..Len(durable') /\ (n + 1) - 1 = n
        BY <1>2, <2>1
      <3> QED
        BY <3>1, ReplayUnfolds
    <2> QED
      BY <2>1, <2>2, <2>3
  <1>6. \A x \in Nodes : LiveAt(nodes[x], n) => h.node[x] # Absent
    <2>1. TAKE x \in Nodes
    <2>2. Lists(nodes[x], NodeRecords(durable, n, x))
      BY <1>2 DEF IInv, InvMaps
    <2>3. n \in 0..n /\ n \in 0..Len(durable)
      BY <1>2
    <2>4. LatestAt(nodes[x], n).tombstone <=> h.node[x] = Absent
      BY <1>2, <2>2, <2>3, NodeMatchesReplay
    <2> QED
      BY <2>4 DEF LiveAt
  <1> HIDE DEF g, h
  <1>7. \A x \in Nodes : EndpointVisible(t, x) => g.node[x] # Absent
    <2>1. TAKE x \in Nodes
    <2>2. HAVE EndpointVisible(t, x)
    <2>3. x \notin grp.deleteNodes /\ (LiveAt(nodes[x], n) \/ x \in DOMAIN grp.putNodes)
      BY <1>2, <1>4, <2>2 DEF EndpointVisible
    <2>4. x \in DOMAIN grp.putNodes => grp.putNodes[x] \in NodeViews
      BY <1>3 DEF GroupType, Partial
    <2>5. g.node[x] = IF x \in DOMAIN grp.putNodes THEN grp.putNodes[x] ELSE h.node[x]
      BY <1>5, <2>3 DEF Apply
    <2> QED
      BY <1>6, <2>3, <2>4, <2>5, GraphStoreAssumption
  <1>8. ASSUME NEW e \in Edges
        PROVE  \/ g.edge[e] = h.edge[e]
               \/ g.edge[e] = Absent
               \/ g.node[g.edge[e].from] # Absent /\ g.node[g.edge[e].to] # Absent
    <2>1. g.edge[e] = IF e \in grp.deleteEdges THEN Absent
                      ELSE IF e \in DOMAIN grp.putEdges THEN grp.putEdges[e]
                      ELSE h.edge[e]
      BY <1>5 DEF Apply
    <2>2. ASSUME e \in DOMAIN grp.putEdges, e \notin grp.deleteEdges
          PROVE  g.node[g.edge[e].from] # Absent /\ g.node[g.edge[e].to] # Absent
      <3>1. grp.putEdges[e] \in EdgeViews
        BY <1>3, <2>2 DEF GroupType, Partial
      <3>2. grp.putEdges[e].from \in Nodes /\ grp.putEdges[e].to \in Nodes
        BY <3>1, GraphStoreAssumption
      <3>3. EndpointVisible(t, grp.putEdges[e].from) /\ EndpointVisible(t, grp.putEdges[e].to)
        BY <1>1, <1>4, <2>2 DEF EndpointsVisible
      <3> QED
        BY <1>7, <2>1, <2>2, <3>2, <3>3
    <2> QED
      BY <2>1, <2>2
  <1> QED
    BY <1>8 DEF g, h

LEMMA GraphsStep ==
  ASSUME IInv, [Next]_vars
  PROVE  [Graphs!Commit]_([c \in 1..Len(durable) |-> GraphAfter[c]])
  <1> DEFINE hist == [c \in 1..Len(durable) |-> GraphAfter[c]]
             n == Len(durable)
  <1>1. n \in Nat /\ durable \in Seq(GroupType) /\ WellFormed(durable)
    BY DurableWellFormed DEF IInv, InvDurable
  <1>2. CASE UNCHANGED durable
    BY <1>2 DEF GraphAfter
  <1>3. ASSUME NEW t \in Txns, CommitAppend(t) PROVE Graphs!Commit
    <2> DEFINE grp == GroupFor(t, latest + 1)
               G == {Replay(durable')[c] : c \in 0..(n+1)}
    <2>1. durable' = Append(durable, grp)
      BY <1>3 DEF CommitAppend
    <2>2. grp \in GroupType
      BY <1>1, GroupForType DEF IInv, InvHead
    <2> HIDE DEF grp
    <2>3. Len(durable') = n + 1
      BY <1>1, <2>1, <2>2, AppendProperties
    <2>4. \A c \in 0..n : Replay(durable')[c] = Replay(durable)[c]
      BY <1>1, <2>1, <2>2, ReplayKeeps
    <2>5. /\ hist = [c \in 1..n |-> Replay(durable')[c]]
          /\ hist' = [c \in 1..(n+1) |-> Replay(durable')[c]]
      BY <2>3, <2>4 DEF GraphAfter
    <2>6. hist \in Seq(G) /\ Len(hist) = n /\ hist' \in Seq(G) /\ Len(hist') = n + 1
      <3>1. [c \in 1..n |-> Replay(durable')[c]] \in [1..n -> G]
        BY <1>1
      <3>2. [c \in 1..(n+1) |-> Replay(durable')[c]] \in [1..(n+1) -> G]
        BY <1>1
      <3> HIDE DEF G, hist
      <3>3. hist \in [1..n -> G] /\ hist' \in [1..(n+1) -> G]
        BY <2>5, <3>1, <3>2
      <3> QED
        BY <1>1, <3>3, SeqDef, LenProperties
    <2>7. hist'[n+1] = Replay(durable')[n+1]
      BY <1>1, <2>5
    <2>8. SubSeq(hist', 1, n) = hist
      <3>1. SubSeq(hist', 1, n) = [c \in 1..n |-> hist'[c]]
        BY <1>1, <2>6, SubSeqProperties
      <3>2. \A c \in 1..n : hist'[c] = Replay(durable')[c]
        BY <1>1, <2>5
      <3> HIDE DEF hist
      <3> QED
        BY <2>5, <3>1, <3>2
    <2>9. (IF hist = <<>> THEN EmptyGraph ELSE hist[Len(hist)]) = Replay(durable)[n]
      <3>1. CASE n = 0
        <4>1. Replay(durable)[0] = EmptyGraph
          BY <1>1, ReplayUnfolds
        <4>2. hist = <<>>
          BY <2>6, <3>1, EmptySeq
        <4> QED
          BY <3>1, <4>1, <4>2
      <3>2. CASE n # 0
        <4>1. hist # <<>> /\ hist[n] = Replay(durable')[n]
          BY <1>1, <2>5, <2>6, <3>2, EmptySeq
        <4> QED
          BY <1>1, <2>4, <2>6, <4>1
      <3> QED
        BY <3>1, <3>2
    <2>10. Graphs!Extends(Replay(durable')[n+1])
      <3>1. Graphs!HeadGraph = Replay(durable)[n]
        BY <2>9 DEF Graphs!HeadGraph, Graphs!EmptyGraph, EmptyGraph
      <3> QED
        BY <1>3, <3>1, CommitExtends DEF Graphs!Extends, Graphs!Present
    <2> QED
      BY <2>6, <2>7, <2>8, <2>10 DEF Graphs!Commit
  <1>4. ASSUME NEW t \in Txns,
               \/ BeginTxn(t)
               \/ \E x \in Nodes, v \in NodeViews : PutNode(t, x, v)
               \/ \E e \in Edges, v \in EdgeViews : PutEdge(t, e, v)
               \/ \E x \in Nodes : DeleteNode(t, x)
               \/ \E e \in Edges : DeleteEdge(t, e)
               \/ Abort(t)
        PROVE  UNCHANGED durable
    BY <1>4 DEF BeginTxn, PutNode, PutEdge, DeleteNode, DeleteEdge, Abort, Stage
  <1>5. ASSUME NEW s \in Subscribers, SubscribeCommits(s) \/ NextChange(s)
        PROVE  UNCHANGED durable
    BY <1>5 DEF SubscribeCommits, NextChange
  <1>6. Publish \/ Shutdown \/ Crash \/ Reopen \/ UNCHANGED vars => UNCHANGED durable
    BY DEF Publish, Shutdown, Crash, Reopen, vars
  <1> QED
    BY <1>2, <1>3, <1>4, <1>5, <1>6 DEF Next

(* The store implements the sequence of graphs: no commit, crash or reload  *)
(* changes an earlier graph, and every edge that is put has its endpoints.  *)
THEOREM StoreIsTemporalGraph == Spec => ImplementsTemporalGraph
  <1>1. Init => Graphs!Init
    BY GraphsInit
  <1>2. IInv /\ [Next]_vars => [Graphs!Commit]_([c \in 1..Len(durable) |-> GraphAfter[c]])
    BY GraphsStep
  <1> QED
    BY <1>1, <1>2, Invariance, PTL DEF Spec, ImplementsTemporalGraph, Graphs!Spec

=============================================================================
