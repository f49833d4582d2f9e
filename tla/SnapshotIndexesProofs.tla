----------------------- MODULE SnapshotIndexesProofs -----------------------
(***************************************************************************)
(* Theorems about the snapshots of a store, for any file it was opened     *)
(* with, any views, labels, types, keys, values and valid times: lookups   *)
(* through the indexes equal scans, the verification of compaction accepts *)
(* every snapshot and reaches every retained version, and equality through *)
(* the property index is sound.                                            *)
(***************************************************************************)
EXTENDS SnapshotIndexes, GraphStoreProofs

-----------------------------------------------------------------------------
(* Rounding.                                                                *)
LEMMA SpacingIs ==
  ASSUME NEW i \in Int, InRange(i)
  PROVE  /\ Spacing(i) \in Nat \ {0} /\ Within(i, Spacing(i))
         /\ \A r \in Spacings : Within(i, r) => Spacing(i) <= r
  <1> DEFINE S == {s \in Spacings : Within(i, s)}
  <1>1. S \in SUBSET Nat /\ S # {}
    BY PropertyValuesAssumption DEF InRange
  <1>2. PICK m \in S : \A r \in S : m <= r
    <2> HIDE DEF S
    <2> QED
      BY <1>1, MinExists
  <1>3. \E s \in Spacings : Within(i, s) /\ \A r \in Spacings : Within(i, r) => s <= r
    BY <1>2
  <1>4. /\ Spacing(i) \in Spacings /\ Within(i, Spacing(i))
        /\ \A r \in Spacings : Within(i, r) => Spacing(i) <= r
    BY <1>3 DEF Spacing
  <1> QED
    BY <1>4, PropertyValuesAssumption

(* Up to Exact every integer is a double.                                   *)
LEMMA SmallIsDouble ==
  ASSUME NEW i \in Int, i \in -Exact..Exact
  PROVE  InRange(i) /\ i % Spacing(i) = 0
  <1>1. Within(i, 1) /\ 1 \in Spacings
    BY PropertyValuesAssumption DEF Within
  <1>2. InRange(i)
    BY <1>1 DEF InRange
  <1>3. Spacing(i) \in Nat \ {0} /\ Spacing(i) <= 1
    BY <1>1, <1>2, SpacingIs
  <1>4. Spacing(i) = 1
    BY <1>3
  <1> QED
    BY <1>2, <1>4

(* An integer that is a double is converted to itself.                      *)
LEMMA DoubleIsRounded ==
  ASSUME NEW i \in Int, InRange(i), i % Spacing(i) = 0
  PROVE  Rounded(i) = i
  <1>1. Spacing(i) \in Nat \ {0}
    BY SpacingIs
  <1> QED
    BY <1>1 DEF Rounded

LEMMA RoundedInt ==
  ASSUME NEW i \in Int, InRange(i)
  PROVE  Rounded(i) \in Int
  <1>1. Spacing(i) \in Nat \ {0}
    BY SpacingIs
  <1>2. i % Spacing(i) \in Int
    BY <1>1
  <1> QED
    BY <1>1, <1>2 DEF Rounded

(* Values with one canonical text compare equal.                            *)
LEMMA CanonicalComparesEqual ==
  ASSUME NEW x, NEW y, IsPropertyValue(x), IsPropertyValue(y), x # NotFinite,
         Canonical(x) = Canonical(y)
  PROVE  Compare(x, "=", y) = "yes" /\ Compare(x, "!=", y) = "no"
  <1> DEFINE Written(v) == v.tag = "double" /\ v.n % 2 = 0 /\ v.n \div 2 \in -(SciFrom-1)..(SciFrom-1)
  <1>1. ASSUME NEW v, IsPropertyValue(v)
        PROVE  /\ v.n \in Int /\ v.tag \in {"bool", "string", "int", "double", "minus zero", "not finite"}
               /\ v.tag = "not finite" => v = NotFinite
               /\ v.tag = "bool" => v = BoolValue(v.n)
               /\ v.tag = "string" => v = StringValue(v.n)
               /\ v.tag = "minus zero" => v = MinusZero
               /\ v.tag = "int" => v = IntValue(v.n) /\ InRange(v.n)
               /\ v.tag = "double" =>
                    /\ v = DoubleValue(v.n)
                    /\ \/ v.n \in -(2 * Exact)..(2 * Exact)
                       \/ InRange(v.n \div 2) /\ (v.n \div 2) % Spacing(v.n \div 2) = 0
    <2>1. CASE v.tag = "bool" /\ v = BoolValue(v.n) /\ v.n \in {0, 1}
      BY <2>1
    <2>2. CASE v.tag = "string" /\ v = StringValue(v.n) /\ v.n \in Int
      BY <2>2
    <2>3. CASE v.tag = "int" /\ v = IntValue(v.n) /\ v.n \in Int /\ InRange(v.n)
      BY <2>3
    <2>4. CASE /\ v.tag = "double" /\ v = DoubleValue(v.n) /\ v.n \in Int
               /\ \/ v.n \in -(2 * Exact)..(2 * Exact)
                  \/ InRange(v.n \div 2) /\ (v.n \div 2) % Spacing(v.n \div 2) = 0
      BY <2>4
    <2>5. CASE v = MinusZero
      <3>1. v.tag = "minus zero"
        BY <2>5 DEF MinusZero
      <3>2. v.n \in Nat
        BY <2>5 DEF MinusZero
      <3>3. \A t \in {"bool", "string", "int", "double", "not finite"} : v.tag # t
        BY <3>1
      <3> QED
        <4>1. v.n \in Int
          BY <3>2
        <4> QED
          BY <2>5, <3>1, <3>3, <4>1
    <2>6. CASE v = NotFinite
      <3>1. v.tag = "not finite"
        BY <2>6 DEF NotFinite
      <3>2. v.n \in Nat
        BY <2>6 DEF NotFinite
      <3>3. \A t \in {"bool", "string", "int", "double", "minus zero"} : v.tag # t
        BY <3>1
      <3> QED
        <4>1. v.n \in Int
          BY <3>2
        <4> QED
          BY <2>6, <3>1, <3>3, <4>1
    <2> QED
      BY <1>1, <2>1, <2>2, <2>3, <2>4, <2>5, <2>6 DEF IsPropertyValue
  <1>2. \A v : Written(v) => Canonical(v) = IntValue(v.n \div 2)
    BY DEF Canonical
  <1>3. \A v : ~Written(v) => Canonical(v) = v
    BY DEF Canonical
  \* The integer a double is written like is converted to that double.
  <1>4. ASSUME NEW v, NEW w, IsPropertyValue(v), IsPropertyValue(w),
               Written(v), ~Written(w), Canonical(v) = Canonical(w)
        PROVE  w.tag = "int" /\ NumericValue(w) = v.n /\ NumericValue(v) = v.n
    <2>1. w = IntValue(v.n \div 2) /\ v.n \in Int
      BY <1>1, <1>2, <1>3, <1>4
    <2>2. w.tag = "int" /\ w.n = v.n \div 2
      BY <2>1 DEF IntValue
    <2>3. Rounded(w.n) = w.n
      <3>1. w.n \in Int /\ v.n % 2 = 0
        BY <1>4, <2>1, <2>2
      <3>2. CASE v.n \in -(2 * Exact)..(2 * Exact)
        <4>1. w.n \in -Exact..Exact
          BY <2>1, <2>2, <3>1, <3>2, PropertyValuesAssumption
        <4> QED
          BY <4>1, SmallIsDouble, DoubleIsRounded
      <3>3. CASE InRange(v.n \div 2) /\ (v.n \div 2) % Spacing(v.n \div 2) = 0
        BY <2>2, <3>1, <3>3, DoubleIsRounded
      <3> QED
        BY <1>1, <1>4, <3>2, <3>3
    <2>4. 2 * (v.n \div 2) = v.n
      BY <2>1, <1>4
    <2> QED
      BY <1>4, <2>2, <2>3, <2>4 DEF NumericValue
  <1>5. ASSUME NEW v, NEW w, IsPropertyValue(v), IsPropertyValue(w),
               IsNumeric(v), IsNumeric(w), v # NotFinite, w # NotFinite,
               NumericValue(v) = NumericValue(w)
        PROVE  Compare(v, "=", w) = "yes" /\ Compare(v, "!=", w) = "no"
    <2>3. Comparison(NumericValue(v), NumericValue(w)) = 0
      <3>1. \A i \in Int : Comparison(i, i) = 0
        BY DEF Comparison
      <3>2. NumericValue(v) \in Int
        <4>1. v.n \in Int /\ (v.tag = "int" => InRange(v.n))
          BY <1>1, <1>5
        <4>2. CASE v.tag = "int"
          BY <4>1, <4>2, RoundedInt DEF NumericValue
        <4>3. CASE v.tag # "int"
          BY <4>1, <4>3 DEF NumericValue
        <4> QED
          BY <4>2, <4>3
      <3> QED
        BY <1>5, <3>1, <3>2
    <2>4. ApplyComparison(0, "=") /\ ~ApplyComparison(0, "!=")
      BY DEF ApplyComparison
    <2>5. /\ Compare(v, "=", w) = Answer(ApplyComparison(0, "="))
          /\ Compare(v, "!=", w) = Answer(ApplyComparison(0, "!="))
      BY <1>5, <2>3 DEF Compare, IsNumeric
    <2> QED
      BY <2>4, <2>5 DEF Answer
  <1>6. CASE x = y
    <2>1. CASE IsNumeric(x)
      BY <1>1, <1>5, <1>6, <2>1
    <2>2. CASE x.tag = "string" \/ x.tag = "bool"
      <3>1. x.n \in Int /\ Comparison(x.n, x.n) = 0
        <4>1. x.n \in Int
          BY <1>1
        <4> QED
          BY <4>1 DEF Comparison
      <3>2. ApplyComparison(0, "=") /\ ~ApplyComparison(0, "!=")
        BY DEF ApplyComparison
      <3>3. /\ Compare(x, "=", x) = Answer(ApplyComparison(0, "="))
            /\ Compare(x, "!=", x) = Answer(ApplyComparison(0, "!="))
        BY <2>2, <3>1 DEF Compare, IsNumeric
      <3> QED
        BY <1>6, <3>2, <3>3 DEF Answer
    <2> QED
      BY <1>1, <2>1, <2>2 DEF IsNumeric
  <1>7. CASE Written(x) /\ Written(y)
    <2>1. x.n \div 2 = y.n \div 2
      BY <1>2, <1>7 DEF IntValue
    <2>2. x.n = y.n
      <3>1. \A a, b \in Int : a % 2 = 0 /\ b % 2 = 0 /\ a \div 2 = b \div 2 => a = b
        OBVIOUS
      <3> QED
        BY <1>1, <1>7, <2>1, <3>1
    <2>3. x = y
      BY <1>1, <1>7, <2>2
    <2> QED
      BY <1>6, <2>3
  <1>8. CASE Written(x) /\ ~Written(y)
    <2>1. y.tag = "int" /\ NumericValue(y) = x.n /\ NumericValue(x) = x.n
      BY <1>4, <1>8
    <2>2. y # NotFinite /\ IsNumeric(x) /\ IsNumeric(y) /\ x.n \in Int /\ y.n \in Int
      BY <1>1, <1>8, <2>1 DEF IsNumeric, NotFinite
    <2> QED
      BY <1>5, <2>1, <2>2
  <1>9. CASE ~Written(x) /\ Written(y)
    <2>1. x.tag = "int" /\ NumericValue(x) = y.n /\ NumericValue(y) = y.n
      BY <1>4, <1>9
    <2>2. y # NotFinite /\ IsNumeric(x) /\ IsNumeric(y) /\ x.n \in Int /\ y.n \in Int
      BY <1>1, <1>9, <2>1 DEF IsNumeric, NotFinite
    <2> QED
      BY <1>5, <2>1, <2>2
  <1>10. ~Written(x) /\ ~Written(y) => x = y
    BY <1>3
  <1> QED
    BY <1>6, <1>7, <1>8, <1>9, <1>10

-----------------------------------------------------------------------------
(* Sequences of numbers in ascending order.                                 *)

(* q lists the elements of S in ascending order, each of them once.         *)
Ascends(q, S) ==
  /\ q \in [1..Cardinality(S) -> S]
  /\ \A i, j \in 1..Cardinality(S) : i < j => q[i] < q[j]
  /\ \A x \in S : \E i \in 1..Cardinality(S) : q[i] = x

LEMMA ByIdAscends ==
  ASSUME NEW S \in SUBSET Nat, IsFiniteSet(S)
  PROVE  Ascends(ById(S), S)
  <1> DEFINE n == Cardinality(S)
  <1>1. \E q \in [1..n -> S] : \A i, j \in DOMAIN q : i < j => q[i] < q[j]
    BY AscendingExists
  <1>2. /\ ById(S) \in [1..n -> S]
        /\ \A i, j \in DOMAIN ById(S) : i < j => ById(S)[i] < ById(S)[j]
    BY <1>1 DEF ById, InOrder, Less
  <1> DEFINE q == ById(S)
  <1>3. q \in [1..Cardinality(S) -> S] /\ \A i, j \in 1..Cardinality(S) : i < j => q[i] < q[j]
    BY <1>2
  <1> HIDE DEF q
  <1>4. \A k \in S : \E i \in 1..Cardinality(S) : q[i] = k
    BY <1>3, AscendingReaches
  <1> QED
    BY <1>3, <1>4 DEF Ascends, q
(* The elements come once: a smaller one is at a smaller place.             *)
LEMMA AscendsPlaces ==
  ASSUME NEW S \in SUBSET Nat, IsFiniteSet(S), NEW q, Ascends(q, S)
  PROVE  /\ Cardinality(S) \in Nat /\ DOMAIN q = 1..Cardinality(S)
         /\ \A i, j \in 1..Cardinality(S) : q[i] < q[j] => i < j
         /\ \A i, j \in 1..Cardinality(S) : q[i] = q[j] => i = j
         /\ \A i \in 1..Cardinality(S) : q[i] \in S /\ q[i] \in Nat
  <1>1. Cardinality(S) \in Nat
    BY FS_CardinalityType
  <1>2. DOMAIN q = 1..Cardinality(S) /\ \A i \in 1..Cardinality(S) : q[i] \in S /\ q[i] \in Nat
    BY DEF Ascends
  <1>3. \A i, j \in 1..Cardinality(S) : i < j => q[i] < q[j]
    BY DEF Ascends
  <1>4. ASSUME NEW i \in 1..Cardinality(S), NEW j \in 1..Cardinality(S)
        PROVE  (q[i] < q[j] => i < j) /\ (q[i] = q[j] => i = j)
    <2>1. q[i] \in Nat /\ q[j] \in Nat /\ (i < j => q[i] < q[j]) /\ (j < i => q[j] < q[i])
      BY <1>2, <1>3
    <2> QED
      BY <1>1, <2>1
  <1> QED
    BY <1>1, <1>2, <1>4

(* There is only one ascending list of a set.                               *)
LEMMA AscendsUnique ==
  ASSUME NEW S \in SUBSET Nat, IsFiniteSet(S), NEW q, NEW r, Ascends(q, S), Ascends(r, S)
  PROVE  q = r
  <1> DEFINE n == Cardinality(S)
             Differ == {i \in 1..n : q[i] # r[i]}
  <1>1. /\ n \in Nat
        /\ \A i \in 1..n : q[i] \in Nat /\ q[i] \in S /\ r[i] \in Nat /\ r[i] \in S
        /\ \A i, j \in 1..n : (i < j <=> q[i] < q[j]) /\ (i < j <=> r[i] < r[j])
        /\ \A x \in S : (\E i \in 1..n : q[i] = x) /\ (\E i \in 1..n : r[i] = x)
    BY AscendsPlaces DEF Ascends
  <1>2. q \in [1..n -> S] /\ r \in [1..n -> S]
    BY DEF Ascends
  <1>3. SUFFICES ASSUME Differ # {} PROVE FALSE
    <2>1. SUFFICES ASSUME Differ = {} PROVE q = r
      OBVIOUS
    <2>2. \A i \in 1..n : q[i] = r[i]
      BY <2>1
    <2>3. DOMAIN q = 1..n /\ DOMAIN r = 1..n
      BY <1>2
    <2>4. q = [i \in 1..n |-> q[i]] /\ r = [i \in 1..n |-> r[i]]
      BY <1>2
    <2> HIDE DEF n, Differ
    <2>5. [i \in 1..n |-> q[i]] = [i \in 1..n |-> r[i]]
      BY <2>2
    <2> QED
      BY <2>4, <2>5
  <1>4. PICK m \in Differ : \A i \in Differ : m <= i
    <2>1. Differ \in SUBSET Nat
      BY <1>1
    <2> QED
      BY <1>3, <2>1, MinExists
  <1>5. m \in 1..n /\ q[m] # r[m] /\ \A i \in 1..n : i < m => q[i] = r[i]
    <2>1. m \in 1..n /\ q[m] # r[m]
      BY <1>4
    <2>2. ASSUME NEW i \in 1..n, i < m PROVE q[i] = r[i]
      <3>1. i \notin Differ
        BY <1>1, <1>4, <2>1, <2>2
      <3> QED
        BY <3>1
    <2> QED
      BY <2>1, <2>2
  <1> HIDE DEF n, Differ
  <1>6. PICK a \in 1..n : r[a] = q[m]
    BY <1>1, <1>5
  <1>7. PICK b \in 1..n : q[b] = r[m]
    BY <1>1, <1>5
  <1>8. ~(a < m) /\ ~(b < m)
    BY <1>1, <1>5, <1>6, <1>7
  <1>9. a # m /\ b # m
    BY <1>5, <1>6, <1>7
  <1>10. m < a /\ m < b
    BY <1>1, <1>5, <1>8, <1>9
  <1>11. r[m] < q[m] /\ q[m] < r[m]
    BY <1>1, <1>5, <1>6, <1>7, <1>10
  <1> QED
    BY <1>1, <1>5, <1>11

(* An ascending function that reaches a set is its ascending list.          *)
LEMMA IncreasingIsById ==
  ASSUME NEW S \in SUBSET Nat, NEW m \in Nat, NEW q \in [1..m -> S],
         \A i, j \in 1..m : i < j => q[i] < q[j],
         \A x \in S : \E i \in 1..m : q[i] = x
  PROVE  q = ById(S) /\ Cardinality(S) = m /\ IsFiniteSet(S)
  <1>1. \A i, j \in 1..m : q[i] = q[j] => i = j
    <2>1. TAKE i, j \in 1..m
    <2>2. q[i] \in Nat /\ q[j] \in Nat /\ (i < j => q[i] < q[j]) /\ (j < i => q[j] < q[i])
      OBVIOUS
    <2> QED
      BY <2>2
  <1>2. q \in Bijection(1..m, S)
    BY <1>1 DEF Bijection, Injection, Surjection, IsInjective
  <1>3. IsFiniteSet(1..m) /\ Cardinality(1..m) = m
    BY FS_Interval
  <1>4. IsFiniteSet(S) /\ Cardinality(S) = m
    <2>1. \A U, W, f : IsFiniteSet(U) /\ f \in Bijection(U, W)
                         => IsFiniteSet(W) /\ Cardinality(U) = Cardinality(W)
      BY FS_Bijection DEF ExistsBijection
    <2> QED
      BY <1>2, <1>3, <2>1
  <1>5. Ascends(q, S)
    BY <1>4 DEF Ascends
  <1>6. Ascends(ById(S), S)
    BY <1>4, ByIdAscends
  <1> QED
    BY <1>4, <1>5, <1>6, AscendsUnique

(* What Picked returns.                                                     *)
IsPicked(r, q, P) ==
  /\ IsFiniteSet(P) /\ Cardinality(P) \in Nat
  /\ DOMAIN r = 1..Cardinality(P)
  /\ \A i \in 1..Cardinality(P) : ById(P)[i] \in P /\ r[i] = q[ById(P)[i]]
  /\ ToSet(r) = {q[i] : i \in P}

LEMMA PickedElements ==
  ASSUME NEW m \in Nat, NEW P \in SUBSET (1..m), NEW q
  PROVE  IsPicked(Picked(q, P), q, P)
  <1>1. IsFiniteSet(P) /\ Cardinality(P) \in Nat /\ P \in SUBSET Nat
    <2>1. IsFiniteSet(1..m)
      BY FS_Interval
    <2>2. IsFiniteSet(P)
      BY <2>1, FS_Subset
    <2> QED
      BY <2>2, FS_CardinalityType
  <1>2. Ascends(ById(P), P)
    BY <1>1, ByIdAscends
  <1>3. DOMAIN ById(P) = 1..Cardinality(P) /\ \A i \in 1..Cardinality(P) : ById(P)[i] \in P
    BY <1>2 DEF Ascends
  <1>4. /\ DOMAIN Picked(q, P) = 1..Cardinality(P)
        /\ \A i \in 1..Cardinality(P) : Picked(q, P)[i] = q[ById(P)[i]]
    BY <1>3 DEF Picked
  <1>5. ToSet(Picked(q, P)) = {q[i] : i \in P}
    <2>1. ToSet(Picked(q, P)) = {Picked(q, P)[i] : i \in 1..Cardinality(P)}
      BY <1>4 DEF ToSet
    <2>2. \A x \in P : \E i \in 1..Cardinality(P) : ById(P)[i] = x
      BY <1>2 DEF Ascends
    <2>3. \A x \in P : q[x] \in {Picked(q, P)[i] : i \in 1..Cardinality(P)}
      <3>1. TAKE x \in P
      <3>2. PICK i \in 1..Cardinality(P) : ById(P)[i] = x
        BY <2>2
      <3>3. Picked(q, P)[i] = q[x]
        BY <1>4, <3>2
      <3> QED
        BY <3>3
    <2>4. \A i \in 1..Cardinality(P) : Picked(q, P)[i] \in {q[k] : k \in P}
      BY <1>3, <1>4
    <2> QED
      BY <2>1, <2>3, <2>4
  <1> QED
    BY <1>1, <1>3, <1>4, <1>5 DEF IsPicked

(* Picking from an ascending list gives an ascending list.                  *)
LEMMA PickedIsById ==
  ASSUME NEW S \in SUBSET Nat, IsFiniteSet(S), NEW P \in SUBSET (1..Cardinality(S))
  PROVE  Picked(ById(S), P) = ById({ById(S)[i] : i \in P})
  <1> DEFINE q == ById(S)
             r == Picked(q, P)
             T == {q[i] : i \in P}
             n == Cardinality(S)
             m == Cardinality(P)
  <1>1. Ascends(q, S) /\ n \in Nat
    BY ByIdAscends, FS_CardinalityType
  <1>2. /\ \A i \in 1..n : q[i] \in S /\ q[i] \in Nat
        /\ \A i, j \in 1..n : i < j => q[i] < q[j]
    BY <1>1 DEF Ascends
  <1>3. /\ IsFiniteSet(P) /\ m \in Nat /\ DOMAIN r = 1..m
        /\ \A i \in 1..m : ById(P)[i] \in P /\ r[i] = q[ById(P)[i]]
        /\ ToSet(r) = T
    <2>1. n \in Nat /\ P \in SUBSET (1..n)
      BY <1>1
    <2> HIDE DEF q, n
    <2>2. IsPicked(Picked(q, P), q, P)
      BY ONLY <2>1, PickedElements
    <2> QED
      BY <2>2 DEF IsPicked
  <1>4. /\ P \in SUBSET Nat
        /\ \A i, j \in 1..m : i < j => ById(P)[i] < ById(P)[j]
    <2>1. P \in SUBSET Nat
      BY <1>1
    <2> QED
      BY <1>3, <2>1, ByIdAscends DEF Ascends
  <1>5. T \in SUBSET Nat
    BY <1>2
  <1>6. r \in [1..m -> T]
    <2>1. r = [i \in DOMAIN ById(P) |-> q[ById(P)[i]]]
      BY DEF Picked
    <2>2. \A i \in 1..m : r[i] \in T
      BY <1>3
    <2> QED
      BY <1>3, <2>1, <2>2
  <1>7. \A i, j \in 1..m : i < j => r[i] < r[j]
    BY <1>2, <1>3, <1>4
  <1>8. \A x \in T : \E i \in 1..m : r[i] = x
    BY <1>3 DEF ToSet
  <1> HIDE DEF r, T, m, q
  <1>9. r = ById(T)
    BY <1>3, <1>5, <1>6, <1>7, <1>8, IncreasingIsById
  <1> QED
    BY <1>9 DEF r, T, q

-----------------------------------------------------------------------------
(* Sorting in any order that is total on a finite set.                      *)

(* before[x] is what comes before x.                                        *)
TotalOrder(S, before) ==
  /\ before \in [S -> SUBSET S]
  /\ \A x \in S : x \notin before[x]
  /\ \A x, y \in S : y \in before[x] => before[y] \subseteq before[x]
  /\ \A x, y \in S : x # y => x \in before[y] \/ y \in before[x]

(* The number of elements before an element is smaller than the number      *)
(* before any later one, and smaller than that of all elements.             *)
LEMMA RankIncreases ==
  ASSUME NEW S, IsFiniteSet(S), NEW before, TotalOrder(S, before)
  PROVE  /\ \A x \in S : Cardinality(before[x]) \in 0..(Cardinality(S) - 1)
         /\ \A x, y \in S : y \in before[x] => Cardinality(before[y]) < Cardinality(before[x])
  <1>1. ASSUME NEW x \in S
        PROVE  IsFiniteSet(before[x]) /\ Cardinality(before[x]) \in 0..(Cardinality(S) - 1)
    <2>1. before[x] \in SUBSET S /\ before[x] # S
      BY DEF TotalOrder
    <2>2. IsFiniteSet(before[x]) /\ Cardinality(before[x]) < Cardinality(S)
      BY <2>1, FS_Subset, FS_CardinalityType
    <2>3. Cardinality(before[x]) \in Nat /\ Cardinality(S) \in Nat
      BY <2>2, FS_CardinalityType
    <2> QED
      BY <2>2, <2>3
  <1>2. ASSUME NEW x \in S, NEW y \in S, y \in before[x]
        PROVE  Cardinality(before[y]) < Cardinality(before[x])
    <2>1. before[y] \in SUBSET before[x] /\ before[y] # before[x]
      BY <1>2 DEF TotalOrder
    <2> QED
      BY <1>1, <2>1, FS_Subset, FS_CardinalityType
  <1> QED
    BY <1>1, <1>2

LEMMA OrderExists ==
  ASSUME NEW S, IsFiniteSet(S), NEW before, TotalOrder(S, before)
  PROVE  \E q \in [1..Cardinality(S) -> S] :
           \A i, j \in 1..Cardinality(S) : i < j => q[i] \in before[q[j]]
  <1> DEFINE n == Cardinality(S)
             rank == [x \in S |-> Cardinality(before[x])]
             U == {rank[x] : x \in S}
  <1>1. /\ n \in Nat
        /\ \A x \in S : rank[x] \in 0..(n - 1)
        /\ \A x, y \in S : y \in before[x] => rank[y] < rank[x]
    BY RankIncreases, FS_CardinalityType
  <1>2. \A x, y \in S : rank[x] = rank[y] => x = y
    <2>1. TAKE x, y \in S
    <2>2. x # y => rank[x] < rank[y] \/ rank[y] < rank[x]
      BY <1>1 DEF TotalOrder
    <2> HIDE DEF rank
    <2>3. rank[x] \in Int /\ rank[y] \in Int
      BY <1>1
    <2> QED
      BY <2>2, <2>3
  <1>3. U = 0..(n - 1)
    <2>1. Cardinality(U) = n
      <3>1. DOMAIN rank = S
        OBVIOUS
      <3> HIDE DEF rank
      <3>2. Cardinality({rank[k] : k \in DOMAIN rank}) = Cardinality(DOMAIN rank)
        BY <1>2, <3>1, ValuesCardinality
      <3> QED
        BY <3>1, <3>2
    <2>2. U \in SUBSET (0..(n - 1))
      BY <1>1
    <2>3. IsFiniteSet(0..(n - 1)) /\ Cardinality(0..(n - 1)) = n
      <3>1. 0 \in Int /\ n - 1 \in Int
        BY <1>1
      <3>2. IsFiniteSet(0..(n - 1))
            /\ Cardinality(0..(n - 1)) = IF 0 > n - 1 THEN 0 ELSE (n - 1) - 0 + 1
        BY ONLY <3>1, FS_Interval
      <3> QED
        BY <1>1, <3>2
    <2> HIDE DEF U, n
    <2> QED
      BY <2>1, <2>2, <2>3, FS_Subset
  <1>4. \A i \in 1..n : \E x \in S : rank[x] = i - 1
    <2>1. TAKE i \in 1..n
    <2>2. i - 1 \in 0..(n - 1)
      BY <1>1
    <2> QED
      BY <1>3, <2>2
  <1> DEFINE q == [i \in 1..n |-> CHOOSE x \in S : rank[x] = i - 1]
  <1> HIDE DEF rank, n
  <1>5. \A i \in 1..n : q[i] \in S /\ rank[q[i]] = i - 1
    BY <1>4
  <1>6. ASSUME NEW i \in 1..n, NEW j \in 1..n, i < j
        PROVE  q[i] \in before[q[j]]
    <2>1. q[i] \in S /\ q[j] \in S /\ rank[q[i]] = i - 1 /\ rank[q[j]] = j - 1
      BY <1>5
    <2>2. rank[q[i]] < rank[q[j]] /\ ~(rank[q[j]] < rank[q[i]])
      BY <1>1, <1>6, <2>1
    <2>3. q[i] # q[j] /\ q[j] \notin before[q[i]]
      BY <1>1, <2>1, <2>2
    <2> QED
      BY <2>1, <2>3 DEF TotalOrder
  <1>7. q \in [1..n -> S]
    BY <1>5
  <1> HIDE DEF q
  <1> QED
    BY <1>6, <1>7 DEF n

(* A list of a set without repetitions, as long as the set, reaches it.     *)
LEMMA InjectionReaches ==
  ASSUME NEW S, IsFiniteSet(S), NEW q \in [1..Cardinality(S) -> S],
         \A i, j \in 1..Cardinality(S) : i < j => q[i] # q[j]
  PROVE  \A x \in S : \E i \in 1..Cardinality(S) : q[i] = x
  <1> DEFINE n == Cardinality(S)
             U == {q[i] : i \in DOMAIN q}
  <1>1. n \in Nat /\ DOMAIN q = 1..n
    BY FS_CardinalityType
  <1>2. IsFiniteSet(1..n) /\ Cardinality(1..n) = n
    BY <1>1, FS_Interval
  <1>3. \A i, j \in 1..n : q[i] = q[j] => i = j
    BY <1>1
  <1>4. Cardinality(U) = n
    BY <1>1, <1>2, <1>3, ValuesCardinality
  <1>5. U \in SUBSET S
    OBVIOUS
  <1>6. U = S
    BY <1>4, <1>5, FS_Subset
  <1> QED
    BY <1>1, <1>6

-----------------------------------------------------------------------------
(* select_active_at.                                                        *)

(* The views of finitely many elements, with intervals.                     *)
StoredViews(v) ==
  /\ IsFiniteSet(DOMAIN v) /\ DOMAIN v \subseteq Nat
  /\ \A id \in DOMAIN v : IsStored(v[id])

LEMMA EntriesOrdered ==
  ASSUME NEW v, StoredViews(v)
  PROVE  TotalOrder(DOMAIN v, [x \in DOMAIN v |-> {y \in DOMAIN v : EarlierEntry(v, y, x)}])
  <1> DEFINE S == DOMAIN v
             before == [x \in S |-> {y \in S : EarlierEntry(v, y, x)}]
  <1>1. \A x \in S : x \in Nat /\ v[x].start \in Int /\ v[x].end \in Int
    BY DEF StoredViews, IsStored
  <1>2. \A x, y \in S : y \in before[x] <=> EarlierEntry(v, y, x)
    OBVIOUS
  <1>3. before \in [S -> SUBSET S]
    OBVIOUS
  <1> HIDE DEF before, S
  <1>4. \A x \in S : x \notin before[x]
    BY <1>1, <1>2 DEF EarlierEntry
  <1>5. ASSUME NEW x \in S, NEW y \in S, y \in before[x], NEW z \in before[y]
        PROVE  z \in before[x]
    <2>1. z \in S
      BY <1>3, <1>5
    <2>2. EarlierEntry(v, y, x) /\ EarlierEntry(v, z, y)
      BY <1>2, <1>5, <2>1
    <2>3. EarlierEntry(v, z, x)
      BY <1>1, <2>1, <2>2 DEF EarlierEntry
    <2> QED
      BY <1>2, <2>1, <2>3
  <1>6. ASSUME NEW x \in S, NEW y \in S, x # y
        PROVE  x \in before[y] \/ y \in before[x]
    <2>1. EarlierEntry(v, x, y) \/ EarlierEntry(v, y, x)
      BY <1>1, <1>6 DEF EarlierEntry
    <2> QED
      BY <1>2, <2>1
  <1>7. TotalOrder(S, before)
    BY <1>3, <1>4, <1>5, <1>6 DEF TotalOrder
  <1> QED
    BY <1>7 DEF S, before

(* The interval index lists every element once, by start.                   *)
LEMMA IntervalIndexLists ==
  ASSUME NEW v, StoredViews(v)
  PROVE  LET n == Cardinality(DOMAIN v)
             index == IntervalIndex(v)
         IN  /\ n \in Nat /\ index \in [1..n -> DOMAIN v]
             /\ \A i, j \in 1..n : i < j => v[index[i]].start <= v[index[j]].start
             /\ \A x \in DOMAIN v : \E i \in 1..n : index[i] = x
  <1> DEFINE n == Cardinality(DOMAIN v)
             index == IntervalIndex(v)
             before == [x \in DOMAIN v |-> {y \in DOMAIN v : EarlierEntry(v, y, x)}]
  <1>1. n \in Nat
    BY FS_CardinalityType DEF StoredViews
  <1>2. \E q \in [1..n -> DOMAIN v] : \A i, j \in DOMAIN q : i < j => EarlierEntry(v, q[i], q[j])
    <2>1. TotalOrder(DOMAIN v, before) /\ IsFiniteSet(DOMAIN v)
      BY EntriesOrdered DEF StoredViews
    <2> HIDE DEF before
    <2>2. PICK q \in [1..n -> DOMAIN v] : \A i, j \in 1..n : i < j => q[i] \in before[q[j]]
      BY <2>1, OrderExists
    <2>3. \A i, j \in 1..n : i < j => EarlierEntry(v, q[i], q[j])
      BY <2>2 DEF before
    <2> QED
      BY <2>3
  <1>3. /\ index \in [1..n -> DOMAIN v]
        /\ \A i, j \in DOMAIN index : i < j => EarlierEntry(v, index[i], index[j])
    BY <1>2 DEF IntervalIndex, InOrder
  <1>4. ASSUME NEW i \in 1..n, NEW j \in 1..n, i < j
        PROVE  v[index[i]].start <= v[index[j]].start /\ index[i] # index[j]
    <2>1. index[i] \in DOMAIN v /\ index[j] \in DOMAIN v /\ EarlierEntry(v, index[i], index[j])
      BY <1>3, <1>4
    <2> HIDE DEF index
    <2>2. \A x \in DOMAIN v : x \in Nat /\ v[x].start \in Int /\ v[x].end \in Int
      BY DEF StoredViews, IsStored
    <2> QED
      BY <2>1, <2>2 DEF EarlierEntry
  <1>5. \A x \in DOMAIN v : \E i \in 1..n : index[i] = x
    <2> DEFINE S == DOMAIN v
    <2>1. IsFiniteSet(S) /\ n = Cardinality(S)
      BY DEF StoredViews
    <2>2. index \in [1..Cardinality(S) -> S]
      BY <1>3
    <2>3. \A i, j \in 1..Cardinality(S) : i < j => index[i] # index[j]
      BY <1>4
    <2> HIDE DEF index, S
    <2>4. \A x \in S : \E i \in 1..Cardinality(S) : index[i] = x
      BY <2>1, <2>2, <2>3, InjectionReaches
    <2> QED
      BY <2>4 DEF S
  <1> QED
    BY <1>1, <1>3, <1>4, <1>5

(* The scan that stops at the first later start finds what is active.       *)
LEMMA SelectActiveIs ==
  ASSUME NEW v, StoredViews(v), NEW t \in Int
  PROVE  ToSet(SelectActive(v, t)) = {id \in DOMAIN v : Covers(v[id], t)}
  <1> DEFINE n == Cardinality(DOMAIN v)
             index == IntervalIndex(v)
             scanned == {i \in DOMAIN index : \A j \in 1..i : v[index[j]].start <= t}
             P == {i \in scanned : Covers(v[index[i]], t)}
  <1>1. /\ n \in Nat /\ index \in [1..n -> DOMAIN v]
        /\ \A i, j \in 1..n : i < j => v[index[i]].start <= v[index[j]].start
        /\ \A x \in DOMAIN v : \E i \in 1..n : index[i] = x
    BY IntervalIndexLists
  <1>2. SelectActive(v, t) = Picked(index, P)
    BY DEF SelectActive
  <1> HIDE DEF n, index
  <1>3. P \in SUBSET (1..n)
    BY <1>1
  <1>4. ToSet(SelectActive(v, t)) = {index[i] : i \in P}
    <2>1. IsPicked(Picked(index, P), index, P)
      <3> HIDE DEF P
      <3> QED
        BY <1>1, <1>3, PickedElements
    <2> QED
      BY <1>2, <2>1 DEF IsPicked
  <1>5. ASSUME NEW i \in P
        PROVE  index[i] \in DOMAIN v /\ Covers(v[index[i]], t)
    BY <1>1
  <1>6. ASSUME NEW x \in DOMAIN v, Covers(v[x], t)
        PROVE  \E i \in P : index[i] = x
    <2>1. PICK i \in 1..n : index[i] = x
      BY <1>1
    <2>2. v[x].start <= t
      BY <1>6 DEF Covers
    <2>3. \A k \in 1..n : v[index[k]].start \in Int
      BY <1>1 DEF StoredViews, IsStored
    <2>4. \A j \in 1..i : v[index[j]].start <= t
      <3>1. TAKE j \in 1..i
      <3>2. j \in 1..n /\ (j = i \/ j < i)
        BY <1>1
      <3>3. v[index[j]].start <= v[index[i]].start
        BY <1>1, <2>3, <3>2
      <3> QED
        BY <2>1, <2>2, <2>3, <3>2, <3>3
    <2>5. i \in P
      BY <1>1, <1>6, <2>1, <2>4
    <2> QED
      BY <2>1, <2>5
  <1> HIDE DEF P
  <1> QED
    BY <1>4, <1>5, <1>6

-----------------------------------------------------------------------------
(* Snapshots and the replayed graph.                                        *)

(* What latest_at returns, if anything, is a record of the history.         *)
LEMMA LatestIsRecord ==
  ASSUME NEW h, NEW R, Lists(h, R), DOMAIN R \subseteq Nat, NEW c, LiveAt(h, c),
         \A k \in DOMAIN R : R[k].begin = k, c \in Nat
  PROVE  \E i \in DOMAIN h, k \in DOMAIN R :
           LatestAt(h, c) = h[i] /\ h[i] = R[k] /\ k <= c /\ ~R[k].tombstone
  <1> DEFINE seenAt == {i \in DOMAIN h : h[i].begin <= c}
  <1>1. PICK key \in [1..Len(h) -> DOMAIN R] :
          Len(h) \in Nat /\ DOMAIN h = 1..Len(h) /\ \A i \in 1..Len(h) : h[i] = R[key[i]]
    BY ListsElements
  <1>2. seenAt # {}
    BY DEF LiveAt, LatestAt, Tombstone
  <1>3. seenAt \in SUBSET (0..Len(h))
    BY <1>1
  <1>4. PICK m \in seenAt : \A j \in seenAt : j <= m
    <2> HIDE DEF seenAt
    <2> QED
      BY <1>1, <1>2, <1>3, MaxExists
  <1> DEFINE i == CHOOSE j \in seenAt : \A k \in seenAt : k <= j
  <1>5. i \in seenAt
    <2> HIDE DEF seenAt
    <2> QED
      BY <1>4
  <1>6. LatestAt(h, c) = h[i]
    BY <1>2 DEF LatestAt
  <1> HIDE DEF i
  <1>7. i \in DOMAIN h /\ h[i].begin <= c /\ key[i] \in DOMAIN R /\ h[i] = R[key[i]]
    BY <1>1, <1>5
  <1>8. ~h[i].tombstone
    BY <1>6 DEF LiveAt
  <1> QED
    BY <1>6, <1>7, <1>8

LEMMA HeadWithinFile ==
  ASSUME IInv
  PROVE  WellFormed(durable) /\ Len(durable) \in Nat /\ latest \in 0..Len(durable)
  <1>1. WellFormed(durable) /\ Len(durable) \in Nat
    BY DurableWellFormed DEF IInv
  <1>2. CASE up /\ inflight = NoTxn
    BY <1>1, <1>2 DEF IInv, InvHead
  <1>3. CASE inflight # NoTxn
    BY <1>1, <1>3 DEF IInv, InvHead
  <1>4. CASE ~up
    BY <1>1, <1>4 DEF IInv, InvHead
  <1> QED
    BY <1>1, <1>2, <1>3, <1>4

(* A record that is not a tombstone is the version of the group it is from. *)
LEMMA NodeVersionPut ==
  ASSUME IInv, NEW n \in Nodes, NEW k \in DOMAIN NodeRecords(durable, latest, n),
         ~NodeRecords(durable, latest, n)[k].tombstone
  PROVE  NodeRecords(durable, latest, n)[k].view \in NodeViews
  <1> DEFINE R == NodeRecords(durable, latest, n)
  <1>1. WellFormed(durable) /\ latest \in 0..Len(durable) /\ Len(durable) \in Nat /\ latest \in Nat
    BY HeadWithinFile
  <1>2. k \in 1..latest /\ n \in DOMAIN durable[k].putNodes \union durable[k].deleteNodes
    BY DEF NodeRecords
  <1>3. n \notin durable[k].deleteNodes /\ R[k] = Version(durable[k].putNodes[n], k)
    BY <1>2 DEF Tombstone, NodeRecords
  <1>4. k \in 1..Len(durable) /\ durable \in Seq(GroupType)
    BY <1>1, <1>2 DEF WellFormed
  <1>5. durable[k].putNodes[n] \in NodeViews
    BY <1>2, <1>3, <1>4, GroupFields
  <1> QED
    BY <1>3, <1>5 DEF Version

LEMMA EdgeVersionPut ==
  ASSUME IInv, NEW e \in Edges, NEW k \in DOMAIN EdgeRecords(durable, latest, e),
         ~EdgeRecords(durable, latest, e)[k].tombstone
  PROVE  EdgeRecords(durable, latest, e)[k].view \in EdgeViews
  <1> DEFINE R == EdgeRecords(durable, latest, e)
  <1>1. WellFormed(durable) /\ latest \in 0..Len(durable) /\ Len(durable) \in Nat /\ latest \in Nat
    BY HeadWithinFile
  <1>2. k \in 1..latest /\ e \in DOMAIN durable[k].putEdges \union durable[k].deleteEdges
    BY DEF EdgeRecords
  <1>3. e \notin durable[k].deleteEdges /\ R[k] = Version(durable[k].putEdges[e], k)
    BY <1>2 DEF Tombstone, EdgeRecords
  <1>4. k \in 1..Len(durable) /\ durable \in Seq(GroupType)
    BY <1>1, <1>2 DEF WellFormed
  <1>5. durable[k].putEdges[e] \in EdgeViews
    BY <1>2, <1>3, <1>4, GroupFields
  <1> QED
    BY <1>3, <1>5 DEF Version

(* What latest_at returns that is not a tombstone is one of the records.    *)
LEMMA LatestNodeVersion ==
  ASSUME IInv, NEW c \in 0..latest, NEW n \in Nodes, LiveAt(nodes[n], c)
  PROVE  \E i \in DOMAIN nodes[n] :
           /\ LatestAt(nodes[n], c) = nodes[n][i] /\ nodes[n][i].view \in NodeViews
           /\ nodes[n][i].begin \in 1..c /\ ~nodes[n][i].tombstone
  <1> DEFINE R == NodeRecords(durable, latest, n)
  <1>1. WellFormed(durable) /\ latest \in 0..Len(durable) /\ Len(durable) \in Nat /\ latest \in Nat
    BY HeadWithinFile
  <1>2. Lists(nodes[n], R)
    BY DEF IInv, InvMaps
  <1>3. DOMAIN R \in SUBSET (1..latest) /\ \A k \in DOMAIN R : R[k].begin = k
    BY <1>1, RecordsBegin
  <1>4. ASSUME NEW k \in DOMAIN R, ~R[k].tombstone
        PROVE  R[k].view \in NodeViews
    BY <1>4, NodeVersionPut
  <1> HIDE DEF R
  <1>5. PICK i \in DOMAIN nodes[n], k \in DOMAIN R :
          /\ LatestAt(nodes[n], c) = nodes[n][i] /\ nodes[n][i] = R[k]
          /\ k <= c /\ ~R[k].tombstone
    <2>1. c \in Nat /\ DOMAIN R \subseteq Nat
      BY <1>1, <1>3
    <2> QED
      BY <1>2, <1>3, <2>1, LatestIsRecord
  <1> QED
    BY <1>1, <1>3, <1>4, <1>5

LEMMA LatestEdgeVersion ==
  ASSUME IInv, NEW c \in 0..latest, NEW e \in Edges, LiveAt(edges[e], c)
  PROVE  \E i \in DOMAIN edges[e] :
           /\ LatestAt(edges[e], c) = edges[e][i] /\ edges[e][i].view \in EdgeViews
           /\ edges[e][i].begin \in 1..c /\ ~edges[e][i].tombstone
  <1> DEFINE R == EdgeRecords(durable, latest, e)
  <1>1. WellFormed(durable) /\ latest \in 0..Len(durable) /\ Len(durable) \in Nat /\ latest \in Nat
    BY HeadWithinFile
  <1>2. Lists(edges[e], R)
    BY DEF IInv, InvMaps
  <1>3. DOMAIN R \in SUBSET (1..latest) /\ \A k \in DOMAIN R : R[k].begin = k
    BY <1>1, RecordsBegin
  <1>4. ASSUME NEW k \in DOMAIN R, ~R[k].tombstone
        PROVE  R[k].view \in EdgeViews
    BY <1>4, EdgeVersionPut
  <1> HIDE DEF R
  <1>5. PICK i \in DOMAIN edges[e], k \in DOMAIN R :
          /\ LatestAt(edges[e], c) = edges[e][i] /\ edges[e][i] = R[k]
          /\ k <= c /\ ~R[k].tombstone
    <2>1. c \in Nat /\ DOMAIN R \subseteq Nat
      BY <1>1, <1>3
    <2> QED
      BY <1>2, <1>3, <2>1, LatestIsRecord
  <1> QED
    BY <1>1, <1>3, <1>4, <1>5

(* The version maps hold the graph of each commit, of views that were put.  *)
Holds(g, c) ==
  /\ \A n \in Nodes :
       /\ LiveAt(nodes[n], c) <=> g.node[n] # Absent
       /\ g.node[n] # Absent => /\ LatestAt(nodes[n], c).view = g.node[n]
                                /\ g.node[n] \in NodeViews
  /\ \A e \in Edges :
       /\ LiveAt(edges[e], c) <=> g.edge[e] # Absent
       /\ g.edge[e] # Absent => /\ LatestAt(edges[e], c).view = g.edge[e]
                                /\ g.edge[e] \in EdgeViews

LEMMA GraphHeld ==
  ASSUME IInv, NEW c \in 0..latest
  PROVE  Holds(GraphAfter[c], c)
  <1> DEFINE G == Replay(durable)[c]
  <1>1. WellFormed(durable) /\ latest \in 0..Len(durable)
    BY HeadWithinFile
  <1>2. ASSUME NEW n \in Nodes
        PROVE  /\ LiveAt(nodes[n], c) <=> G.node[n] # Absent
               /\ G.node[n] # Absent => /\ LatestAt(nodes[n], c).view = G.node[n]
                                        /\ G.node[n] \in NodeViews
    <2>1. Lists(nodes[n], NodeRecords(durable, latest, n))
      BY DEF IInv, InvMaps
    <2>2. /\ LatestAt(nodes[n], c).view = G.node[n]
          /\ LatestAt(nodes[n], c).tombstone <=> G.node[n] = Absent
      BY <1>1, <2>1, NodeMatchesReplay
    <2> HIDE DEF G
    <2>3. LiveAt(nodes[n], c) <=> G.node[n] # Absent
      BY <2>2 DEF LiveAt
    <2>4. ASSUME LiveAt(nodes[n], c) PROVE LatestAt(nodes[n], c).view \in NodeViews
      BY <2>4, LatestNodeVersion
    <2> QED
      BY <2>2, <2>3, <2>4
  <1>3. ASSUME NEW e \in Edges
        PROVE  /\ LiveAt(edges[e], c) <=> G.edge[e] # Absent
               /\ G.edge[e] # Absent => /\ LatestAt(edges[e], c).view = G.edge[e]
                                        /\ G.edge[e] \in EdgeViews
    <2>1. Lists(edges[e], EdgeRecords(durable, latest, e))
      BY DEF IInv, InvMaps
    <2>2. /\ LatestAt(edges[e], c).view = G.edge[e]
          /\ LatestAt(edges[e], c).tombstone <=> G.edge[e] = Absent
      BY <1>1, <2>1, EdgeMatchesReplay
    <2> HIDE DEF G
    <2>3. LiveAt(edges[e], c) <=> G.edge[e] # Absent
      BY <2>2 DEF LiveAt
    <2>4. ASSUME LiveAt(edges[e], c) PROVE LatestAt(edges[e], c).view \in EdgeViews
      BY <2>4, LatestEdgeVersion
    <2> QED
      BY <2>2, <2>3, <2>4
  <1>4. GraphAfter[c] = G
    BY DEF GraphAfter
  <1> HIDE DEF G
  <1> QED
    BY <1>2, <1>3, <1>4 DEF Holds

(* s is the snapshot that shows the part v of the graph g, with its indexes *)
(* over that part.                                                          *)
IsSnapshot(s, g, v) ==
  /\ v.nodes \in SUBSET Nodes /\ v.edges \in SUBSET Edges
  /\ s.nodes = ById(v.nodes) /\ s.edges = ById(v.edges)
  /\ \A n \in v.nodes : s.nodeView[n] = g.node[n] /\ g.node[n] \in NodeViews
  /\ \A e \in v.edges : /\ s.edgeView[e] = g.edge[e] /\ g.edge[e] \in EdgeViews
                        /\ {g.edge[e].from, g.edge[e].to} \subseteq v.nodes
  /\ s.label = LabelIndex(s.nodes, s.nodeView)
  /\ s.property = PropertyIndex(s.nodes, s.nodeView)
  /\ s.out = OutIndex(s.edges, s.edgeView)
  /\ s.in = InIndex(s.edges, s.edgeView)

LEMMA MaterializeIs ==
  ASSUME IInv, NEW c \in 0..latest, NEW t \in Int
  PROVE  /\ IsSnapshot(Materialize(c, t), GraphAfter[c], Visible(GraphAfter[c], t))
         /\ Materialize(c, t).commit = c
  <1> DEFINE g == GraphAfter[c]
             node == CommitVisible(nodes, c)
             edge == CommitVisible(edges, c)
             A == ToSet(SelectActive(node, t))
             E == Joined(edge, t, A)
  <1>1. Holds(g, c) /\ DOMAIN nodes = Nodes /\ DOMAIN edges = Edges
    BY GraphHeld DEF IInv, InvMaps
  <1> HIDE DEF g
  <1>2. /\ DOMAIN node = {n \in Nodes : g.node[n] # Absent}
        /\ \A n \in DOMAIN node : node[n] = g.node[n] /\ node[n] \in NodeViews
    BY <1>1 DEF CommitVisible, Holds
  <1>3. /\ DOMAIN edge = {e \in Edges : g.edge[e] # Absent}
        /\ \A e \in DOMAIN edge : edge[e] = g.edge[e] /\ edge[e] \in EdgeViews
    BY <1>1 DEF CommitVisible, Holds
  <1>4. StoredViews(node) /\ StoredViews(edge)
    <2>1. IsFiniteSet(DOMAIN node) /\ IsFiniteSet(DOMAIN edge)
      <3>1. DOMAIN node \in SUBSET Nodes /\ DOMAIN edge \in SUBSET Edges
        BY <1>2, <1>3
      <3> HIDE DEF node, edge
      <3> QED
        BY <3>1, SnapshotIndexesAssumption, FS_Subset
    <2> HIDE DEF node, edge
    <2> QED
      BY <1>2, <1>3, <2>1, SnapshotIndexesAssumption DEF StoredViews
  <1> HIDE DEF node, edge
  <1>5. A = {n \in DOMAIN node : Covers(node[n], t)}
    BY <1>4, SelectActiveIs
  <1>6. A = Visible(g, t).nodes
    BY <1>2, <1>5 DEF Visible
  <1>7. ToSet(SelectActive(edge, t)) = {e \in DOMAIN edge : Covers(edge[e], t)}
    BY <1>4, SelectActiveIs
  <1> HIDE DEF A
  <1>8. E = {e \in Edges : /\ g.edge[e] # Absent /\ Covers(g.edge[e], t)
                           /\ {g.edge[e].from, g.edge[e].to} \subseteq A}
    BY <1>3, <1>7 DEF Joined
  <1>9. E = Visible(g, t).edges
    <2>1. A = {n \in Nodes : g.node[n] # Absent /\ Covers(g.node[n], t)}
      BY <1>2, <1>5
    <2> HIDE DEF E
    <2> QED
      BY <1>8, <2>1 DEF Visible
  <1>10. Materialize(c, t) = Indexed(c, node, edge, ById(A), ById(E))
    BY DEF Materialize, node, edge, A
  <1>11. /\ A \in SUBSET Nodes /\ E \in SUBSET Edges
         /\ \A n \in A : node[n] = g.node[n] /\ g.node[n] \in NodeViews
         /\ \A e \in E : /\ edge[e] = g.edge[e] /\ g.edge[e] \in EdgeViews
                         /\ {g.edge[e].from, g.edge[e].to} \subseteq A
    BY <1>2, <1>3, <1>5, <1>8
  <1> HIDE DEF E
  <1> QED
    BY <1>6, <1>9, <1>10, <1>11 DEF IsSnapshot, Indexed, g

-----------------------------------------------------------------------------
(* Lookups through an index.                                                *)
LEMMA ByIdElements ==
  ASSUME NEW S \in SUBSET Nat, IsFiniteSet(S)
  PROVE  /\ Cardinality(S) \in Nat /\ DOMAIN ById(S) = 1..Cardinality(S)
         /\ \A i \in 1..Cardinality(S) : ById(S)[i] \in S
         /\ \A i, j \in 1..Cardinality(S) : i < j => ById(S)[i] < ById(S)[j]
         /\ \A x \in S : \E i \in 1..Cardinality(S) : ById(S)[i] = x
         /\ ToSet(ById(S)) = S
  <1> DEFINE q == ById(S)
  <1>1. Ascends(q, S) /\ Cardinality(S) \in Nat
    BY ByIdAscends, FS_CardinalityType
  <1>2. /\ DOMAIN q = 1..Cardinality(S)
        /\ \A i \in 1..Cardinality(S) : q[i] \in S
        /\ \A i, j \in 1..Cardinality(S) : i < j => q[i] < q[j]
        /\ \A x \in S : \E i \in 1..Cardinality(S) : q[i] = x
    BY <1>1 DEF Ascends
  <1> HIDE DEF q
  <1>3. ToSet(q) = S
    <2>1. \A x \in S : x \in {q[i] : i \in DOMAIN q}
      BY <1>2
    <2>2. {q[i] : i \in DOMAIN q} \subseteq S
      BY <1>2
    <2> QED
      BY <2>1, <2>2 DEF ToSet
  <1> QED
    BY <1>1, <1>2, <1>3 DEF q

(* The list of no element is empty.                                         *)
LEMMA ByIdEmpty == ById({}) = <<>>
  <1>1. {} \in SUBSET Nat /\ 0 \in Nat
    OBVIOUS
  <1>2. <<>> \in [1..0 -> {}]
    OBVIOUS
  <1>3. \A i, j \in 1..0 : i < j => <<>>[i] < <<>>[j]
    OBVIOUS
  <1> DEFINE none == <<>>
  <1>4. none \in [1..0 -> {}] /\ \A i, j \in 1..0 : i < j => none[i] < none[j]
    BY <1>2, <1>3
  <1> HIDE DEF none
  <1>5. none = ById({})
    BY <1>1, <1>4, IncreasingIsById
  <1> QED
    BY <1>5 DEF none

(* A lookup finds, in order, the members of T among those of S, if under    *)
(* the key the index has their places, or nothing if there is none.         *)
LEMMA LookupIs ==
  ASSUME NEW S \in SUBSET Nat, IsFiniteSet(S), NEW T \in SUBSET S, NEW index, NEW key,
         key \in DOMAIN index =>
           index[key] = ById({i \in 1..Cardinality(S) : ById(S)[i] \in T}),
         key \notin DOMAIN index => T = {}
  PROVE  Through(index, key, ById(S)) = ById(T)
  <1> DEFINE q == ById(S)
             P == {i \in 1..Cardinality(S) : q[i] \in T}
  <1>1. /\ \A x \in S : \E i \in 1..Cardinality(S) : q[i] = x
        /\ \A i \in 1..Cardinality(S) : q[i] \in S
    BY ByIdElements
  <1>2. CASE key \in DOMAIN index
    <2>1. Through(index, key, q) = Picked(q, P)
      <3>1. index[key] = ById(P)
        BY <1>2
      <3> HIDE DEF P, q
      <3> QED
        BY <1>2, <3>1 DEF Through, Picked
    <2>2. Picked(q, P) = ById({q[i] : i \in P})
      <3>1. P \in SUBSET (1..Cardinality(S))
        OBVIOUS
      <3> HIDE DEF P
      <3> QED
        BY <3>1, PickedIsById
    <2>3. {q[i] : i \in P} = T
      <3> HIDE DEF q
      <3> QED
        BY <1>1
    <2> QED
      BY <2>1, <2>2, <2>3
  <1>3. CASE key \notin DOMAIN index
    BY <1>3, ByIdEmpty DEF Through
  <1> QED
    BY <1>2, <1>3

(* What a snapshot shows is finite and numbered.                            *)
LEMMA ShownFinite ==
  ASSUME NEW s, NEW g, NEW v, IsSnapshot(s, g, v)
  PROVE  /\ v.nodes \in SUBSET Nat /\ IsFiniteSet(v.nodes)
         /\ v.edges \in SUBSET Nat /\ IsFiniteSet(v.edges)
  <1>1. v.nodes \in SUBSET Nodes /\ v.edges \in SUBSET Edges
    BY DEF IsSnapshot
  <1> QED
    BY <1>1, SnapshotIndexesAssumption, FS_Subset

LEMMA LabelLookup ==
  ASSUME NEW s, NEW g, NEW v, IsSnapshot(s, g, v), NEW l
  PROVE  NodesWithLabel(s, l) = ById({n \in v.nodes : g.node[n].label = l})
  <1> DEFINE S == v.nodes
             T == {n \in S : g.node[n].label = l}
             q == ById(S)
  <1>1. /\ S \in SUBSET Nat /\ IsFiniteSet(S) /\ T \in SUBSET S
        /\ \A n \in S : s.nodeView[n] = g.node[n]
        /\ s.nodes = q /\ s.label = LabelIndex(q, s.nodeView)
    BY ShownFinite DEF IsSnapshot
  <1>2. /\ DOMAIN q = 1..Cardinality(S) /\ \A i \in 1..Cardinality(S) : q[i] \in S
        /\ ToSet(q) = S
    BY <1>1, ByIdElements
  <1> HIDE DEF q, S
  <1>3. DOMAIN s.label = {s.nodeView[n].label : n \in S}
    BY <1>1, <1>2 DEF LabelIndex
  <1>4. l \in DOMAIN s.label => s.label[l] = ById({i \in 1..Cardinality(S) : q[i] \in T})
    <2>1. {i \in DOMAIN q : s.nodeView[q[i]].label = l} = {i \in 1..Cardinality(S) : q[i] \in T}
      BY <1>1, <1>2
    <2>2. l \in DOMAIN s.label =>
            s.label[l] = ById({i \in DOMAIN q : s.nodeView[q[i]].label = l})
      BY <1>1, <1>2, <1>3 DEF LabelIndex
    <2> QED
      BY <2>1, <2>2
  <1>5. l \notin DOMAIN s.label => T = {}
    BY <1>1, <1>3
  <1> HIDE DEF T
  <1>6. Through(s.label, l, q) = ById(T)
    BY <1>1, <1>4, <1>5, LookupIs DEF q
  <1> QED
    BY <1>1, <1>6 DEF NodesWithLabel, T, S

(* An element has a property key if it has the property and its value has   *)
(* that canonical text.                                                     *)
LEMMA PropertyKeyMember ==
  ASSUME NEW view, NEW k, NEW val
  PROVE  PropertyKey(k, val) \in PropertyKeys(view)
           <=> k \in DOMAIN view.props /\ Canonical(view.props[k]) = Canonical(val)
  BY DEF PropertyKey, PropertyKeys

LEMMA PropertyLookup ==
  ASSUME NEW s, NEW g, NEW v, IsSnapshot(s, g, v), NEW k, NEW val
  PROVE  NodesWithProperty(s, k, val) =
           ById({n \in v.nodes : /\ k \in DOMAIN g.node[n].props
                                 /\ Canonical(g.node[n].props[k]) = Canonical(val)})
  <1> DEFINE S == v.nodes
             T == {n \in S : /\ k \in DOMAIN g.node[n].props
                             /\ Canonical(g.node[n].props[k]) = Canonical(val)}
             q == ById(S)
             p == PropertyKey(k, val)
  <1>1. /\ S \in SUBSET Nat /\ IsFiniteSet(S) /\ T \in SUBSET S
        /\ \A n \in S : s.nodeView[n] = g.node[n]
        /\ s.nodes = q /\ s.property = PropertyIndex(q, s.nodeView)
    BY ShownFinite DEF IsSnapshot
  <1>2. /\ DOMAIN q = 1..Cardinality(S) /\ \A i \in 1..Cardinality(S) : q[i] \in S
        /\ ToSet(q) = S
    BY <1>1, ByIdElements
  <1>3. \A n \in S : n \in T <=> p \in PropertyKeys(s.nodeView[n])
    BY <1>1, PropertyKeyMember
  <1> HIDE DEF q, S, T, p
  <1>4. DOMAIN s.property = UNION {PropertyKeys(s.nodeView[n]) : n \in S}
    BY <1>1, <1>2 DEF PropertyIndex
  <1>5. p \in DOMAIN s.property => s.property[p] = ById({i \in 1..Cardinality(S) : q[i] \in T})
    <2>1. {i \in DOMAIN q : p \in PropertyKeys(s.nodeView[q[i]])}
            = {i \in 1..Cardinality(S) : q[i] \in T}
      BY <1>2, <1>3
    <2>2. p \in DOMAIN s.property =>
            s.property[p] = ById({i \in DOMAIN q : p \in PropertyKeys(s.nodeView[q[i]])})
      BY <1>1, <1>2, <1>4 DEF PropertyIndex
    <2> QED
      BY <2>1, <2>2
  <1>6. p \notin DOMAIN s.property => T = {}
    <2>1. T \subseteq S
      BY <1>1
    <2>2. \A n \in T : p \in PropertyKeys(s.nodeView[n])
      BY <1>3, <2>1
    <2> QED
      BY <1>4, <2>1, <2>2
  <1>7. Through(s.property, p, q) = ById(T)
    BY <1>1, <1>5, <1>6, LookupIs DEF q
  <1> QED
    BY <1>1, <1>7 DEF NodesWithProperty, T, S, p

LEMMA OutLookup ==
  ASSUME NEW s, NEW g, NEW v, IsSnapshot(s, g, v), NEW n, NEW y
  PROVE  OutEdges(s, n, y) = ById({e \in v.edges : g.edge[e].from = n /\ g.edge[e].type = y})
  <1> DEFINE S == v.edges
             T == {e \in S : g.edge[e].from = n /\ g.edge[e].type = y}
             q == ById(S)
             p == <<n, y>>
             at(e) == <<s.edgeView[e].from, s.edgeView[e].type>>
  <1>1. /\ S \in SUBSET Nat /\ IsFiniteSet(S) /\ T \in SUBSET S
        /\ \A e \in S : s.edgeView[e] = g.edge[e]
        /\ s.edges = q /\ s.out = OutIndex(q, s.edgeView)
    BY ShownFinite DEF IsSnapshot
  <1>2. /\ DOMAIN q = 1..Cardinality(S) /\ \A i \in 1..Cardinality(S) : q[i] \in S
        /\ ToSet(q) = S
    BY <1>1, ByIdElements
  <1>3. \A e \in S : e \in T <=> at(e) = p
    BY <1>1
  <1>4. /\ DOMAIN s.out = {at(e) : e \in ToSet(q)}
        /\ p \in DOMAIN s.out => s.out[p] = ById({i \in DOMAIN q : at(q[i]) = p})
    BY <1>1 DEF OutIndex
  <1> HIDE DEF q, S, T, p, at
  <1>5. p \in DOMAIN s.out => s.out[p] = ById({i \in 1..Cardinality(S) : q[i] \in T})
    <2>1. {i \in DOMAIN q : at(q[i]) = p} = {i \in 1..Cardinality(S) : q[i] \in T}
      BY <1>2, <1>3
    <2> QED
      BY <1>4, <2>1
  <1>6. p \notin DOMAIN s.out => T = {}
    BY <1>1, <1>2, <1>3, <1>4
  <1>7. Through(s.out, p, q) = ById(T)
    BY <1>1, <1>5, <1>6, LookupIs DEF q
  <1> QED
    BY <1>1, <1>7 DEF OutEdges, T, S, p

LEMMA InLookup ==
  ASSUME NEW s, NEW g, NEW v, IsSnapshot(s, g, v), NEW n, NEW y
  PROVE  InEdges(s, n, y) = ById({e \in v.edges : g.edge[e].to = n /\ g.edge[e].type = y})
  <1> DEFINE S == v.edges
             T == {e \in S : g.edge[e].to = n /\ g.edge[e].type = y}
             q == ById(S)
             p == <<n, y>>
             at(e) == <<s.edgeView[e].to, s.edgeView[e].type>>
  <1>1. /\ S \in SUBSET Nat /\ IsFiniteSet(S) /\ T \in SUBSET S
        /\ \A e \in S : s.edgeView[e] = g.edge[e]
        /\ s.edges = q /\ s.in = InIndex(q, s.edgeView)
    BY ShownFinite DEF IsSnapshot
  <1>2. /\ DOMAIN q = 1..Cardinality(S) /\ \A i \in 1..Cardinality(S) : q[i] \in S
        /\ ToSet(q) = S
    BY <1>1, ByIdElements
  <1>3. \A e \in S : e \in T <=> at(e) = p
    BY <1>1
  <1>4. /\ DOMAIN s.in = {at(e) : e \in ToSet(q)}
        /\ p \in DOMAIN s.in => s.in[p] = ById({i \in DOMAIN q : at(q[i]) = p})
    BY <1>1 DEF InIndex
  <1> HIDE DEF q, S, T, p, at
  <1>5. p \in DOMAIN s.in => s.in[p] = ById({i \in 1..Cardinality(S) : q[i] \in T})
    <2>1. {i \in DOMAIN q : at(q[i]) = p} = {i \in 1..Cardinality(S) : q[i] \in T}
      BY <1>2, <1>3
    <2> QED
      BY <1>4, <2>1
  <1>6. p \notin DOMAIN s.in => T = {}
    BY <1>1, <1>2, <1>3, <1>4
  <1>7. Through(s.in, p, q) = ById(T)
    BY <1>1, <1>5, <1>6, LookupIs DEF q
  <1> QED
    BY <1>1, <1>7 DEF InEdges, T, S, p

-----------------------------------------------------------------------------
(* The binary search.                                                       *)

(* What LowerBound answers for n ids, if f answers for fewer.               *)
SearchRow(ids, id, f, n) ==
  [lo \in 1..(Len(ids) + 1 - n) |->
     IF n = 0 THEN lo
     ELSE LET half == n \div 2
          IN  IF ids[lo + half] < id THEN f[n - half - 1][lo + half + 1] ELSE f[half][lo]]

LEMMA Halves ==
  ASSUME NEW n \in Nat \ {0}
  PROVE  n \div 2 \in 0..(n - 1) /\ n - (n \div 2) - 1 \in 0..(n - 1)
  OBVIOUS

(* Only the answers for fewer ids matter.                                   *)
LEMMA SearchRowDepends ==
  ASSUME NEW ids, NEW id, NEW f, NEW h, NEW n \in Nat,
         \A m \in 0..(n - 1) : f[m] = h[m]
  PROVE  SearchRow(ids, id, f, n) = SearchRow(ids, id, h, n)
  <1>1. CASE n = 0
    BY <1>1 DEF SearchRow
  <1>2. CASE n # 0
    <2>1. n \div 2 \in 0..(n - 1) /\ n - (n \div 2) - 1 \in 0..(n - 1)
      BY <1>2, Halves
    <2>2. f[n \div 2] = h[n \div 2] /\ f[n - (n \div 2) - 1] = h[n - (n \div 2) - 1]
      BY <2>1
    <2> QED
      BY <2>2 DEF SearchRow
  <1> QED
    BY <1>1, <1>2

(* The recursive function of LowerBound exists.                             *)
LEMMA LowerBoundUnfolds ==
  ASSUME NEW ids, Len(ids) \in Nat, NEW id
  PROVE  \E f : /\ LowerBound(ids, id) = f[Len(ids)][1]
                /\ \A n \in 0..Len(ids) : f[n] = SearchRow(ids, id, f, n)
  <1> DEFINE L == Len(ids)
             Row(f, n) == SearchRow(ids, id, f, n)
             Solves(f, m) == f = [n \in 0..m |-> Row(f, n)]
             Bad == {m \in 0..L : \A f : ~Solves(f, m)}
  <1>1. \A f, m : Solves(f, m) => \A n \in 0..m : f[n] = Row(f, n)
    <2>1. TAKE f, m
    <2>2. \A n \in 0..m : [x \in 0..m |-> Row(f, x)][n] = Row(f, n)
      OBVIOUS
    <2> HIDE DEF Row
    <2> QED
      BY <2>2
  <1>2. Bad = {}
    <2>1. SUFFICES ASSUME Bad # {} PROVE FALSE
      OBVIOUS
    <2>2. PICK m \in Bad : \A x \in Bad : m <= x
      <3>1. Bad \in SUBSET Nat
        OBVIOUS
      <3> HIDE DEF Bad
      <3> QED
        BY <2>1, <3>1, MinExists
    <2>3. CASE m = 0
      <3> DEFINE none == [n \in {} |-> 0]
                 f == [n \in 0..0 |-> Row(none, 0)]
      <3>1. f[0] = Row(f, 0)
        <4>1. \A k \in 0..(0 - 1) : none[k] = f[k]
          OBVIOUS
        <4>2. f[0] = Row(none, 0)
          OBVIOUS
        <4> HIDE DEF none, f
        <4> QED
          BY <4>1, <4>2, SearchRowDepends
      <3>2. f = [n \in 0..0 |-> Row(f, n)]
        <4>1. f = [n \in 0..0 |-> f[n]] /\ \A n \in 0..0 : n = 0
          OBVIOUS
        <4> HIDE DEF f, Row
        <4> QED
          BY <3>1, <4>1
      <3> HIDE DEF f, Row
      <3> QED
        BY <2>2, <2>3, <3>2
    <2>4. CASE m # 0
      <3>1. m - 1 \in 0..L /\ m - 1 \notin Bad /\ m \in Nat /\ m \in 0..L
        BY <2>2, <2>4
      <3>2. PICK f : Solves(f, m - 1)
        BY <3>1
      <3> DEFINE h == [n \in 0..m |-> IF n = m THEN Row(f, m) ELSE f[n]]
      <3>3. \A n \in 0..(m-1) : h[n] = f[n] /\ f[n] = Row(f, n)
        <4>1. \A n \in 0..(m-1) : h[n] = f[n]
          BY <3>1
        <4> HIDE DEF h, Row
        <4> QED
          BY <1>1, <3>2, <4>1
      <3>4. \A n \in 0..m : h[n] = Row(f, n)
        <4>1. h[m] = Row(f, m)
          BY <3>1
        <4>2. \A n \in 0..m : n # m => n \in 0..(m-1)
          BY <3>1
        <4> HIDE DEF h, Row
        <4> QED
          BY <3>3, <4>1, <4>2
      <3> HIDE DEF h
      <3>5. \A n \in 0..m : Row(f, n) = Row(h, n)
        <4>1. TAKE n \in 0..m
        <4>2. n \in Nat /\ \A k \in 0..(n - 1) : f[k] = h[k]
          BY <3>1, <3>3
        <4> QED
          BY <4>2, SearchRowDepends
      <3>6. Solves(h, m)
        <4>1. h = [n \in 0..m |-> h[n]]
          BY DEF h
        <4> HIDE DEF Row
        <4> QED
          BY <3>4, <3>5, <4>1
      <3> HIDE DEF Solves
      <3> QED
        BY <3>6, <2>2
    <2> QED
      BY <2>3, <2>4
  <1>3. L \in 0..L
    OBVIOUS
  <1>4. \E f : Solves(f, L)
    BY <1>2, <1>3
  <1> DEFINE among == CHOOSE f : Solves(f, L)
  <1>5. LowerBound(ids, id) = among[L][1]
    BY DEF LowerBound, SearchRow
  <1>6. Solves(among, L)
    <2> HIDE DEF Solves
    <2> QED
      BY <1>4
  <1>7. \A n \in 0..L : among[n] = Row(among, n)
    <2> HIDE DEF among, Row
    <2> QED
      BY <1>1, <1>6
  <1> HIDE DEF among
  <1> QED
    BY <1>5, <1>7

(* On ascending ids the search finds where the ids that are not smaller     *)
(* begin.                                                                   *)
LEMMA LowerBoundSplits ==
  ASSUME NEW ids, NEW L \in Nat, Len(ids) = L, NEW id \in Int,
         \A p \in 1..L : ids[p] \in Int,
         \A i, j \in 1..L : i < j => ids[i] < ids[j]
  PROVE  /\ LowerBound(ids, id) \in 1..(L + 1)
         /\ \A p \in 1..L : p < LowerBound(ids, id) <=> ids[p] < id
  <1> DEFINE Bounds(lo, n) ==
               \A p \in 1..L : (p < lo => ids[p] < id) /\ (lo + n <= p => ~(ids[p] < id))
             Found(r) == r \in 1..(L + 1) /\ \A p \in 1..L : p < r <=> ids[p] < id
  <1>1. PICK f : /\ LowerBound(ids, id) = f[L][1]
                 /\ \A n \in 0..L : f[n] = SearchRow(ids, id, f, n)
    <2>1. Len(ids) \in Nat
      OBVIOUS
    <2> QED
      BY <2>1, LowerBoundUnfolds
  <1> DEFINE Bad == {n \in 0..L : \E lo \in 1..(L + 1 - n) : Bounds(lo, n) /\ ~Found(f[n][lo])}
  <1>2. ASSUME NEW n \in 0..L, NEW lo \in 1..(L + 1 - n), Bounds(lo, n),
               \A k \in 0..(n - 1) : k \notin Bad
        PROVE  Found(f[n][lo])
    <2>1. CASE n = 0
      <3>1. f[n] = SearchRow(ids, id, f, n)
        BY <1>1
      <3>2. f[n][lo] = lo
        BY ONLY <1>2, <2>1, <3>1, Len(ids) = L DEF SearchRow
      <3>3. lo \in 1..(L + 1) /\ \A p \in 1..L : (p < lo => ids[p] < id) /\ (lo <= p => ~(ids[p] < id))
        <4>1. lo \in 1..(L + 1) /\ lo + n = lo
          BY <2>1
        <4> QED
          BY <1>2, <4>1
      <3>4. Found(lo)
        BY <3>3
      <3> HIDE DEF Found
      <3> QED
        BY <3>2, <3>4
    <2>2. CASE n # 0
      <3> DEFINE half == n \div 2
                 k == n - half - 1
      <3>1. half \in 0..(n - 1) /\ k \in 0..(n - 1)
        BY <2>2, Halves
      <3>2. f[n][lo] = IF ids[lo + half] < id THEN f[k][lo + half + 1] ELSE f[half][lo]
        <4>1. f[n] = SearchRow(ids, id, f, n)
          BY <1>1
        <4> QED
          BY ONLY <1>2, <2>2, <4>1, Len(ids) = L DEF SearchRow
      <3>3. lo + half \in 1..L /\ k = n - half - 1 /\ half \in Int /\ k \in Int
        BY <3>1
      <3> HIDE DEF half, k
      <3>4. CASE ids[lo + half] < id
        <4>1. Bounds(lo + half + 1, k)
          <5>1. TAKE p \in 1..L
          <5>2. p < lo + half + 1 => ids[p] < id
            <6>1. p < lo + half + 1 => p < lo + half \/ p = lo + half
              BY <3>3
            <6>2. p < lo + half => ids[p] < ids[lo + half]
              BY <3>3
            <6> QED
              BY <3>3, <3>4, <6>1, <6>2
          <5>3. lo + half + 1 + k <= p => lo + n <= p
            BY <3>3
          <5> QED
            BY <1>2, <5>2, <5>3
        <4>2. lo + half + 1 \in 1..(L + 1 - k) /\ k \in 0..L
          BY <3>1, <3>3
        <4>3. k \notin Bad
          BY <1>2, <3>1
        <4> HIDE DEF Bounds, Found
        <4> QED
          BY <3>2, <3>4, <4>1, <4>2, <4>3
      <3>5. CASE ~(ids[lo + half] < id)
        <4>1. Bounds(lo, half)
          <5>1. TAKE p \in 1..L
          <5>2. lo + half <= p => ~(ids[p] < id)
            <6>1. lo + half <= p => lo + half < p \/ p = lo + half
              BY <3>3
            <6>2. lo + half < p => ids[lo + half] < ids[p]
              BY <3>3
            <6> QED
              BY <3>3, <3>5, <6>1, <6>2
          <5> QED
            BY <1>2, <5>2
        <4>2. lo \in 1..(L + 1 - half) /\ half \in 0..L
          BY <3>1, <3>3
        <4>3. half \notin Bad
          BY <1>2, <3>1
        <4> HIDE DEF Bounds, Found
        <4> QED
          BY <3>2, <3>5, <4>1, <4>2, <4>3
      <3> QED
        BY <3>4, <3>5
    <2> QED
      BY <2>1, <2>2
  <1>3. Bad = {}
    <2>1. SUFFICES ASSUME Bad # {} PROVE FALSE
      OBVIOUS
    <2>2. Bad \in SUBSET Nat
      OBVIOUS
    <2>3. PICK m \in Bad : \A x \in Bad : m <= x
      <3> HIDE DEF Bad
      <3> QED
        BY <2>1, <2>2, MinExists
    <2>4. m \in 0..L /\ \A k \in 0..(m - 1) : k \notin Bad
      <3>1. m \in 0..L
        OBVIOUS
      <3> HIDE DEF Bad
      <3> QED
        BY <2>2, <2>3, <3>1
    <2>5. PICK lo \in 1..(L + 1 - m) : Bounds(lo, m) /\ ~Found(f[m][lo])
      BY <2>3
    <2> HIDE DEF Bounds, Found, Bad
    <2> QED
      BY <1>2, <2>4, <2>5
  <1>4. Bounds(1, L) /\ 1 \in 1..(L + 1 - L) /\ L \in 0..L
    OBVIOUS
  <1>5. Found(f[L][1])
    <2> HIDE DEF Bounds, Found
    <2> QED
      BY <1>3, <1>4
  <1> QED
    BY <1>1, <1>5

LEMMA ByIdLength ==
  ASSUME NEW S \in SUBSET Nat, IsFiniteSet(S)
  PROVE  Len(ById(S)) = Cardinality(S)
  <1> DEFINE q == ById(S)
             L == Cardinality(S)
  <1>1. L \in Nat /\ DOMAIN q = 1..L
    BY ByIdElements
  <1>2. q \in [1..L -> S]
    BY ByIdAscends DEF Ascends
  <1> HIDE DEF q, L
  <1>3. Len(q) = L
    BY <1>1, <1>2, LenProperties, SeqDef
  <1> QED
    BY <1>3 DEF q, L

(* A node is found by its id if the snapshot shows it.                      *)
LEMMA FindNodeIs ==
  ASSUME NEW s, NEW g, NEW v, IsSnapshot(s, g, v), NEW id \in Nat
  PROVE  FindNode(s, id) = v.nodes \intersect {id}
  <1> DEFINE S == v.nodes
             q == ById(S)
             L == Cardinality(S)
             r == LowerBound(q, id)
  <1>1. S \in SUBSET Nat /\ IsFiniteSet(S) /\ s.nodes = q
    <2>1. S \in SUBSET Nat /\ IsFiniteSet(S)
      BY ShownFinite
    <2>2. s.nodes = q
      BY DEF IsSnapshot
    <2> QED
      BY <2>1, <2>2
  <1>2. /\ L \in Nat /\ DOMAIN q = 1..L
        /\ \A i \in 1..L : q[i] \in S
        /\ \A i, j \in 1..L : i < j => q[i] < q[j]
        /\ \A x \in S : \E i \in 1..L : q[i] = x
    BY <1>1, ByIdElements
  <1>3. Len(q) = L
    BY <1>1, ByIdLength
  <1> HIDE DEF q, L, S
  <1>4. \A p \in 1..L : q[p] \in Int /\ q[p] \in Nat
    <2>1. \A x \in S : x \in Nat /\ x \in Int
      BY <1>1
    <2> QED
      BY <1>2, <2>1
  <1>5. r \in 1..(L + 1) /\ \A p \in 1..L : p < r <=> q[p] < id
    <2>1. \A p \in 1..L : q[p] \in Int
      BY <1>4
    <2>2. id \in Int
      OBVIOUS
    <2> QED
      BY ONLY <1>2, <1>3, <2>1, <2>2, LowerBoundSplits
  <1> HIDE DEF r
  <1>6. CASE id \in S
    <2>1. PICK i \in 1..L : q[i] = id
      BY <1>2, <1>6
    <2>2. ~(i < r)
      BY <1>4, <1>5, <2>1
    <2>3. ~(r < i)
      <3>1. SUFFICES ASSUME r < i PROVE FALSE
        OBVIOUS
      <3>2. r \in 1..L /\ q[r] < q[i]
        BY <1>2, <1>5, <3>1
      <3> QED
        BY <1>5, <2>1, <3>2
    <2>4. r = i
      BY <1>2, <1>5, <2>2, <2>3
    <2> QED
      BY <1>1, <1>2, <1>3, <1>6, <2>1, <2>4 DEF FindNode, r, S
  <1>7. CASE id \notin S
    <2>1. ~(r <= L /\ q[r] = id)
      BY <1>2, <1>5, <1>7
    <2> QED
      BY <1>1, <1>3, <1>7, <2>1 DEF FindNode, r, S
  <1> QED
    BY <1>6, <1>7
(* Lookups through the indexes equal scans of the replayed graph.           *)
LEMMA LookupsHold == IInv => LookupsEqualScans
  <1> SUFFICES ASSUME IInv, NEW c \in 0..latest, NEW t \in Times
               PROVE  LET s       == Materialize(c, t)
                          g       == GraphAfter[c]
                          visible == Visible(g, t)
                      IN  /\ \A n \in Nodes : FindNode(s, n) = visible.nodes \intersect {n}
                          /\ \A l \in Labels :
                               NodesWithLabel(s, l) = ById({n \in visible.nodes : g.node[n].label = l})
                          /\ \A k \in Keys, v \in Values :
                               NodesWithProperty(s, k, v) =
                                 ById({n \in visible.nodes :
                                         /\ k \in DOMAIN g.node[n].props
                                         /\ Canonical(g.node[n].props[k]) = Canonical(v)})
                          /\ \A n \in Nodes, y \in Types :
                               /\ OutEdges(s, n, y) =
                                    ById({e \in visible.edges :
                                            g.edge[e].from = n /\ g.edge[e].type = y})
                               /\ InEdges(s, n, y) =
                                    ById({e \in visible.edges :
                                            g.edge[e].to = n /\ g.edge[e].type = y})
    BY DEF LookupsEqualScans
  <1> DEFINE s == Materialize(c, t)
             g == GraphAfter[c]
             visible == Visible(g, t)
  <1>1. IsSnapshot(s, g, visible)
    <2>1. t \in Int
      BY SnapshotIndexesAssumption
    <2> QED
      BY <2>1, MaterializeIs
  <1>2. \A n \in Nodes : n \in Nat
    BY SnapshotIndexesAssumption
  <1> HIDE DEF s, g, visible
  <1>3. \A n \in Nodes : FindNode(s, n) = visible.nodes \intersect {n}
    BY <1>1, <1>2, FindNodeIs
  <1>4. \A l \in Labels : NodesWithLabel(s, l) = ById({n \in visible.nodes : g.node[n].label = l})
    BY ONLY <1>1, LabelLookup
  <1>5. \A k \in Keys, v \in Values :
          NodesWithProperty(s, k, v) =
            ById({n \in visible.nodes : /\ k \in DOMAIN g.node[n].props
                                        /\ Canonical(g.node[n].props[k]) = Canonical(v)})
    BY ONLY <1>1, PropertyLookup
  <1>6. \A n \in Nodes, y \in Types :
          OutEdges(s, n, y) = ById({e \in visible.edges : g.edge[e].from = n /\ g.edge[e].type = y})
    BY ONLY <1>1, OutLookup
  <1>7. \A n \in Nodes, y \in Types :
          InEdges(s, n, y) = ById({e \in visible.edges : g.edge[e].to = n /\ g.edge[e].type = y})
    BY ONLY <1>1, InLookup
  <1> QED
    BY <1>3, <1>4, <1>5, <1>6, <1>7 DEF s, g, visible

-----------------------------------------------------------------------------
(* Equality.                                                                *)

(* Picking from a list of a set those that a predicate accepts.             *)
LEMMA PickedAccepted ==
  ASSUME NEW T \in SUBSET Nat, IsFiniteSet(T), NEW P \in SUBSET (DOMAIN ById(T))
  PROVE  \A n \in ToSet(Picked(ById(T), P)) : \E i \in P : n = ById(T)[i] /\ n \in T
  <1> DEFINE q == ById(T)
             m == Cardinality(T)
  <1>1. m \in Nat /\ DOMAIN q = 1..m /\ \A i \in 1..m : q[i] \in T
    BY ByIdElements
  <1> HIDE DEF q, m
  <1>2. P \in SUBSET (1..m)
    BY <1>1 DEF q
  <1>3. IsPicked(Picked(q, P), q, P)
    BY ONLY <1>1, <1>2, PickedElements
  <1>4. \A n \in ToSet(Picked(q, P)) : \E i \in P : n = q[i] /\ n \in T
    BY <1>1, <1>2, <1>3 DEF IsPicked
  <1> QED
    BY <1>4 DEF q

(* A node found by equality compares equal and is not found by inequality.  *)
LEMMA EqualityHolds == IInv => EqualityIsSound
  <1> SUFFICES ASSUME IInv, NEW t \in Times, NEW l \in Labels, NEW k \in Keys, NEW v \in Values,
                      NEW n \in ToSet(Seeds(Materialize(latest, t), l, k, "=", v))
               PROVE  /\ Matches(Materialize(latest, t), n, k, "=", v) = "yes"
                      /\ n \notin ToSet(Seeds(Materialize(latest, t), l, k, "!=", v))
    BY DEF EqualityIsSound
  <1> DEFINE s == Materialize(latest, t)
             g == GraphAfter[latest]
             visible == Visible(g, t)
             T == {x \in visible.nodes : /\ k \in DOMAIN g.node[x].props
                                         /\ Canonical(g.node[x].props[k]) = Canonical(v)}
             U == {x \in visible.nodes : g.node[x].label = l}
  <1>1. IsSnapshot(s, g, visible)
    <2>1. t \in Int /\ latest \in 0..latest
      BY HeadWithinFile, SnapshotIndexesAssumption
    <2> QED
      BY <2>1, MaterializeIs
  <1>2. n \in ToSet(Seeds(s, l, k, "=", v))
    OBVIOUS
  <1> HIDE DEF s, g, visible
  <1>3. visible.nodes \in SUBSET Nat /\ IsFiniteSet(visible.nodes)
    BY <1>1, ShownFinite
  <1>4. T \in SUBSET Nat /\ IsFiniteSet(T) /\ U \in SUBSET Nat /\ IsFiniteSet(U)
    <2>1. T \in SUBSET visible.nodes /\ U \in SUBSET visible.nodes
      OBVIOUS
    <2> HIDE DEF T, U
    <2> QED
      BY <1>3, <2>1, FS_Subset
  <1>5. NodesWithProperty(s, k, v) = ById(T) /\ NodesWithLabel(s, l) = ById(U)
    BY ONLY <1>1, PropertyLookup, LabelLookup
  <1>6. n \in T
    <2> DEFINE P == {i \in DOMAIN ById(T) : s.nodeView[ById(T)[i]].label = l}
    <2>1. Seeds(s, l, k, "=", v) = Picked(ById(T), P)
      BY <1>5 DEF Seeds
    <2>2. P \in SUBSET (DOMAIN ById(T))
      OBVIOUS
    <2> HIDE DEF P, T
    <2>3. \A x \in ToSet(Picked(ById(T), P)) : x \in T
      BY ONLY <1>4, <2>2, PickedAccepted
    <2> QED
      BY <1>2, <2>1, <2>3
  <1> DEFINE w == g.node[n].props[k]
  <1>7. /\ s.nodeView[n] = g.node[n] /\ k \in DOMAIN g.node[n].props
        /\ Canonical(w) = Canonical(v) /\ g.node[n] \in NodeViews
    BY <1>1, <1>6 DEF IsSnapshot
  <1>8. IsPropertyValue(w) /\ w # NotFinite /\ IsPropertyValue(v)
    BY <1>7, SnapshotIndexesAssumption
  <1>9. Compare(w, "=", v) = "yes" /\ Compare(w, "!=", v) = "no"
    <2> HIDE DEF w
    <2> QED
      BY <1>7, <1>8, CanonicalComparesEqual
  <1>10. Matches(s, n, k, "=", v) = "yes" /\ Matches(s, n, k, "!=", v) = "no"
    BY <1>7, <1>9 DEF Matches
  <1>11. n \notin ToSet(Seeds(s, l, k, "!=", v))
    <2> DEFINE P == {i \in DOMAIN ById(U) : Matches(s, ById(U)[i], k, "!=", v) = "yes"}
    <2>1. Seeds(s, l, k, "!=", v) = Picked(ById(U), P)
      BY <1>5 DEF Seeds, Filtered
    <2>2. P \in SUBSET (DOMAIN ById(U)) /\ \A i \in P : Matches(s, ById(U)[i], k, "!=", v) = "yes"
      OBVIOUS
    <2> HIDE DEF P, U
    <2>3. \A x \in ToSet(Picked(ById(U), P)) : \E i \in P : x = ById(U)[i]
      BY ONLY <1>4, <2>2, PickedAccepted
    <2> QED
      BY <1>10, <2>1, <2>2, <2>3
  <1> QED
    BY <1>10, <1>11 DEF s

-----------------------------------------------------------------------------
(* The verification of compaction.                                          *)
LEMMA ByIdIncreasing ==
  ASSUME NEW S \in SUBSET Nat, IsFiniteSet(S)
  PROVE  Increasing(ById(S))
  <1> DEFINE q == ById(S)
             L == Cardinality(S)
  <1>1. L \in Nat /\ Len(q) = L /\ \A i, j \in 1..L : i < j => q[i] < q[j]
    BY ByIdElements, ByIdLength
  <1> HIDE DEF q, L
  <1>2. Increasing(q)
    <2>1. \A i \in 2..L : i - 1 \in 1..L /\ i \in 1..L /\ i - 1 < i
      BY <1>1
    <2> QED
      BY <1>1, <2>1 DEF Increasing
  <1> QED
    BY <1>2 DEF q

LEMMA SnapshotVerifies ==
  ASSUME NEW s, NEW g, NEW v, IsSnapshot(s, g, v)
  PROVE  IndexesVerified(s)
  <1>1. /\ v.nodes \in SUBSET Nat /\ IsFiniteSet(v.nodes)
        /\ v.edges \in SUBSET Nat /\ IsFiniteSet(v.edges)
    BY ShownFinite
  <1>2. /\ s.nodes = ById(v.nodes) /\ s.edges = ById(v.edges)
        /\ \A n \in v.nodes : s.nodeView[n] = g.node[n]
        /\ \A e \in v.edges : s.edgeView[e] = g.edge[e]
                              /\ {g.edge[e].from, g.edge[e].to} \subseteq v.nodes
    BY DEF IsSnapshot
  <1>3. ToSet(s.nodes) = v.nodes /\ ToSet(s.edges) = v.edges
    BY <1>1, <1>2, ByIdElements
  <1>4. Increasing(s.nodes) /\ Increasing(s.edges)
    BY <1>1, <1>2, ByIdIncreasing
  <1>5. \A T \in SUBSET v.nodes : ToSet(ById(T)) = T
    <2>1. TAKE T \in SUBSET v.nodes
    <2>2. T \in SUBSET Nat /\ IsFiniteSet(T)
      BY <1>1, FS_Subset
    <2> QED
      BY <2>2, ByIdElements
  <1>6. \A T \in SUBSET v.edges : ToSet(ById(T)) = T
    <2>1. TAKE T \in SUBSET v.edges
    <2>2. T \in SUBSET Nat /\ IsFiniteSet(T)
      BY <1>1, FS_Subset
    <2> QED
      BY <2>2, ByIdElements
  <1>7. ASSUME NEW n \in v.nodes
        PROVE  /\ FindNode(s, n) = {n}
               /\ n \in ToSet(NodesWithLabel(s, s.nodeView[n].label))
               /\ \A k \in DOMAIN s.nodeView[n].props :
                    n \in ToSet(NodesWithProperty(s, k, s.nodeView[n].props[k]))
    <2>1. FindNode(s, n) = {n}
      <3>1. n \in Nat
        BY <1>1
      <3>2. FindNode(s, n) = v.nodes \intersect {n}
        BY <3>1, FindNodeIs
      <3> QED
        BY <3>2
    <2>2. n \in ToSet(NodesWithLabel(s, s.nodeView[n].label))
      <3> DEFINE T == {x \in v.nodes : g.node[x].label = g.node[n].label}
      <3>1. NodesWithLabel(s, g.node[n].label) = ById(T)
        BY LabelLookup
      <3>2. T \in SUBSET v.nodes /\ n \in T
        OBVIOUS
      <3> HIDE DEF T
      <3> QED
        BY <1>2, <1>5, <3>1, <3>2
    <2>3. ASSUME NEW k \in DOMAIN s.nodeView[n].props
          PROVE  n \in ToSet(NodesWithProperty(s, k, s.nodeView[n].props[k]))
      <3> DEFINE val == g.node[n].props[k]
                 T == {x \in v.nodes : /\ k \in DOMAIN g.node[x].props
                                       /\ Canonical(g.node[x].props[k]) = Canonical(val)}
      <3>1. NodesWithProperty(s, k, val) = ById(T)
        BY PropertyLookup
      <3>2. T \in SUBSET v.nodes /\ n \in T
        BY <1>2
      <3> HIDE DEF T
      <3> QED
        BY <1>2, <1>5, <3>1, <3>2
    <2> QED
      BY <2>1, <2>2, <2>3
  <1>8. ASSUME NEW e \in v.edges
        PROVE  /\ {s.edgeView[e].from, s.edgeView[e].to} \subseteq ToSet(s.nodes)
               /\ e \in ToSet(OutEdges(s, s.edgeView[e].from, s.edgeView[e].type))
               /\ e \in ToSet(InEdges(s, s.edgeView[e].to, s.edgeView[e].type))
    <2> DEFINE x == g.edge[e]
               O == {f \in v.edges : g.edge[f].from = x.from /\ g.edge[f].type = x.type}
               I == {f \in v.edges : g.edge[f].to = x.to /\ g.edge[f].type = x.type}
    <2>1. OutEdges(s, x.from, x.type) = ById(O) /\ InEdges(s, x.to, x.type) = ById(I)
      BY OutLookup, InLookup
    <2>2. O \in SUBSET v.edges /\ e \in O /\ I \in SUBSET v.edges /\ e \in I
      OBVIOUS
    <2>3. s.edgeView[e] = x /\ {x.from, x.to} \subseteq v.nodes
      BY <1>2
    <2> HIDE DEF O, I, x
    <2> QED
      BY <1>3, <1>6, <2>1, <2>2, <2>3
  <1> QED
    BY <1>3, <1>4, <1>7, <1>8 DEF IndexesVerified

(* What is probed is a valid time.                                          *)
LEMMA ProbeTimesAreTimes ==
  ASSUME IInv, NEW from, NEW through
  PROVE  ProbeTimes(from, through) \subseteq Int
  <1>1. ASSUME NEW n \in Nodes, NEW i \in DOMAIN nodes[n], ~nodes[n][i].tombstone
        PROVE  IsStored(nodes[n][i].view)
    <2> DEFINE R == NodeRecords(durable, latest, n)
    <2>1. Lists(nodes[n], R)
      BY DEF IInv, InvMaps
    <2>2. PICK k \in DOMAIN R : nodes[n][i] = R[k]
      <3> HIDE DEF R
      <3> QED
        BY <2>1, ListsElements
    <2>3. R[k].view \in NodeViews
      BY <1>1, <2>2, NodeVersionPut
    <2> QED
      BY <2>2, <2>3, SnapshotIndexesAssumption
  <1>2. ASSUME NEW e \in Edges, NEW i \in DOMAIN edges[e], ~edges[e][i].tombstone
        PROVE  IsStored(edges[e][i].view)
    <2> DEFINE R == EdgeRecords(durable, latest, e)
    <2>1. Lists(edges[e], R)
      BY DEF IInv, InvMaps
    <2>2. PICK k \in DOMAIN R : edges[e][i] = R[k]
      <3> HIDE DEF R
      <3> QED
        BY <2>1, ListsElements, SMTT(30)
    <2>3. R[k].view \in EdgeViews
      BY <1>2, <2>2, EdgeVersionPut
    <2> QED
      BY <2>2, <2>3, SnapshotIndexesAssumption
  <1>3. DOMAIN nodes = Nodes /\ DOMAIN edges = Edges
    BY DEF IInv, InvMaps
  <1> DEFINE views(histories) ==
        UNION {{histories[id][i].view : i \in
                  {j \in DOMAIN histories[id] : InWindow(histories[id][j], from, through)}} :
               id \in DOMAIN histories}
  <1>4. \A x \in views(nodes) \union views(edges) : IsStored(x)
    BY <1>1, <1>2, <1>3 DEF InWindow
  <1>5. ProbeTimes(from, through)
          = {0} \union UNION {{x.start, x.end - 1} : x \in views(nodes) \union views(edges)}
    BY DEF ProbeTimes
  <1> HIDE DEF views
  <1>6. \A x \in views(nodes) \union views(edges) : x.start \in Int /\ x.end - 1 \in Int
    BY <1>4 DEF IsStored
  <1> QED
    BY <1>5, <1>6

LEMMA RetainedWithin ==
  ASSUME IInv, NEW keep \in Nat \ {0}
  PROVE  /\ latest \in Nat /\ RetainedFrom(keep) \in 0..latest
         /\ latest > 0 => RetainedFrom(keep) \in 1..latest
  <1>1. latest \in Nat
    BY HeadWithinFile
  <1> QED
    BY <1>1 DEF RetainedFrom

LEMMA AcceptsHold == IInv => VerificationAccepts
  <1> SUFFICES ASSUME IInv, NEW keep \in 1..(latest + 1), NEW s \in Probed(keep)
               PROVE  IndexesVerified(s)
    BY DEF VerificationAccepts
  <1>1. latest \in Nat /\ RetainedFrom(keep) \in 0..latest
    <2>1. latest \in Nat
      BY HeadWithinFile
    <2> QED
      BY <2>1, RetainedWithin
  <1>2. PICK c \in RetainedFrom(keep)..latest, t \in ProbeTimes(RetainedFrom(keep), latest) :
          s = Materialize(c, t)
    BY DEF Probed
  <1>3. c \in 0..latest /\ t \in Int
    BY <1>1, <1>2, ProbeTimesAreTimes
  <1>4. IsSnapshot(s, GraphAfter[c], Visible(GraphAfter[c], t))
    BY <1>2, <1>3, MaterializeIs
  <1> QED
    BY <1>4, SnapshotVerifies

(* A version that is the latest at a commit of the window is probed at its  *)
(* start.                                                                   *)
LEMMA NodeStartProbed ==
  ASSUME IInv, NEW from, NEW c \in 0..latest, NEW n \in Nodes,
         LiveAt(nodes[n], c), LatestAt(nodes[n], c).begin >= from
  PROVE  /\ LatestAt(nodes[n], c).view \in NodeViews
         /\ LatestAt(nodes[n], c).view.start \in ProbeTimes(from, latest)
  <1>1. PICK i \in DOMAIN nodes[n] :
          /\ LatestAt(nodes[n], c) = nodes[n][i] /\ nodes[n][i].view \in NodeViews
          /\ nodes[n][i].begin \in 1..c /\ ~nodes[n][i].tombstone
    BY LatestNodeVersion
  <1>2. InWindow(nodes[n][i], from, latest)
    <2>1. latest \in Nat /\ nodes[n][i].begin <= latest
      <3>1. latest \in Nat
        BY HeadWithinFile
      <3> QED
        BY <1>1, <3>1
    <2>2. from <= nodes[n][i].begin
      BY <1>1
    <2> QED
      BY <1>1, <2>1, <2>2 DEF InWindow
  <1>3. DOMAIN nodes = Nodes
    BY DEF IInv, InvMaps
  <1> DEFINE views(histories) ==
        UNION {{histories[id][k].view : k \in
                  {j \in DOMAIN histories[id] : InWindow(histories[id][j], from, latest)}} :
               id \in DOMAIN histories}
  <1>4. nodes[n][i].view \in views(nodes)
    BY <1>2, <1>3
  <1>5. ProbeTimes(from, latest)
          = {0} \union UNION {{x.start, x.end - 1} : x \in views(nodes) \union views(edges)}
    BY DEF ProbeTimes
  <1> HIDE DEF views
  <1> QED
    BY <1>1, <1>4, <1>5

LEMMA EdgeStartProbed ==
  ASSUME IInv, NEW from, NEW c \in 0..latest, NEW e \in Edges,
         LiveAt(edges[e], c), LatestAt(edges[e], c).begin >= from
  PROVE  /\ LatestAt(edges[e], c).view \in EdgeViews
         /\ LatestAt(edges[e], c).view.start \in ProbeTimes(from, latest)
  <1>1. PICK i \in DOMAIN edges[e] :
          /\ LatestAt(edges[e], c) = edges[e][i] /\ edges[e][i].view \in EdgeViews
          /\ edges[e][i].begin \in 1..c /\ ~edges[e][i].tombstone
    BY LatestEdgeVersion
  <1>2. InWindow(edges[e][i], from, latest)
    <2>1. latest \in Nat /\ edges[e][i].begin <= latest
      <3>1. latest \in Nat
        BY HeadWithinFile
      <3> QED
        BY <1>1, <3>1
    <2>2. from <= edges[e][i].begin
      BY <1>1
    <2> QED
      BY <1>1, <2>1, <2>2 DEF InWindow
  <1>3. DOMAIN edges = Edges
    BY DEF IInv, InvMaps
  <1> DEFINE views(histories) ==
        UNION {{histories[id][k].view : k \in
                  {j \in DOMAIN histories[id] : InWindow(histories[id][j], from, latest)}} :
               id \in DOMAIN histories}
  <1>4. edges[e][i].view \in views(edges)
    BY <1>2, <1>3
  <1>5. ProbeTimes(from, latest)
          = {0} \union UNION {{x.start, x.end - 1} : x \in views(nodes) \union views(edges)}
    BY DEF ProbeTimes
  <1> HIDE DEF views
  <1> QED
    BY <1>1, <1>4, <1>5

(* What a materialized snapshot shows is what is active at its commit.      *)
LEMMA MaterializeShows ==
  ASSUME IInv, NEW c \in 0..latest, NEW t \in Int
  PROVE  LET s == Materialize(c, t)
         IN  /\ s.commit = c
             /\ \A n \in Nodes : ActiveAt(nodes[n], c, t) => n \in ToSet(s.nodes)
             /\ \A e \in Edges :
                  LET v == LatestAt(edges[e], c).view
                  IN  ActiveAt(edges[e], c, t) /\ ActiveAt(nodes[v.from], c, t)
                      /\ ActiveAt(nodes[v.to], c, t) => e \in ToSet(s.edges)
  <1> DEFINE s == Materialize(c, t)
             g == GraphAfter[c]
             v == Visible(g, t)
  <1>1. IsSnapshot(s, g, v) /\ s.commit = c
    BY MaterializeIs
  <1>2. Holds(g, c)
    BY GraphHeld
  <1> HIDE DEF s, g
  <1>3. ToSet(s.nodes) = v.nodes /\ ToSet(s.edges) = v.edges
    <2>1. /\ v.nodes \in SUBSET Nat /\ IsFiniteSet(v.nodes)
          /\ v.edges \in SUBSET Nat /\ IsFiniteSet(v.edges)
      BY ONLY <1>1, ShownFinite
    <2>2. s.nodes = ById(v.nodes) /\ s.edges = ById(v.edges)
      BY <1>1 DEF IsSnapshot
    <2> HIDE DEF v
    <2> QED
      BY <2>1, <2>2, ByIdElements
  <1>4. ASSUME NEW n \in Nodes, ActiveAt(nodes[n], c, t)
        PROVE  n \in v.nodes
    BY <1>2, <1>4 DEF Holds, ActiveAt, Visible
  <1>5. ASSUME NEW e \in Edges,
               LET w == LatestAt(edges[e], c).view
               IN  ActiveAt(edges[e], c, t) /\ ActiveAt(nodes[w.from], c, t)
                   /\ ActiveAt(nodes[w.to], c, t)
        PROVE  e \in v.edges
    <2>1. /\ g.edge[e] # Absent /\ Covers(g.edge[e], t) /\ g.edge[e] \in EdgeViews
          /\ g.edge[e] = LatestAt(edges[e], c).view
      BY <1>2, <1>5 DEF Holds, ActiveAt
    <2>2. g.edge[e].from \in Nodes /\ g.edge[e].to \in Nodes
      BY <2>1, GraphStoreAssumption
    <2>3. {g.edge[e].from, g.edge[e].to} \subseteq v.nodes
      <3>1. ActiveAt(nodes[g.edge[e].from], c, t) /\ ActiveAt(nodes[g.edge[e].to], c, t)
        BY <1>5, <2>1
      <3> HIDE DEF v
      <3> QED
        BY <1>4, <2>2, <3>1
    <2> QED
      BY <2>1, <2>3 DEF Visible
  <1> QED
    BY <1>1, <1>3, <1>4, <1>5 DEF s

(* Each version of a retained commit is in a probed snapshot, at the latest *)
(* start of those it needs.                                                 *)
LEMMA ReachesHold == IInv => VerificationReachesRetained
  <1> SUFFICES ASSUME IInv, NEW keep \in 1..latest, NEW c \in RetainedFrom(keep)..latest
               PROVE  LET from   == RetainedFrom(keep)
                          probed == Probed(keep)
                          begun(histories, id) == LatestAt(histories[id], c).begin
                          retained(histories, id) ==
                            LiveAt(histories[id], c) /\ begun(histories, id) >= from
                      IN  /\ \A n \in Nodes : retained(nodes, n) =>
                               \E s \in probed : n \in ToSet(s.nodes) /\ s.commit = c
                          /\ \A t \in Times : \A e \in Snapshot(c, t).edges :
                               LET v == LatestAt(edges[e], c).view
                               IN  retained(edges, e) /\ retained(nodes, v.from)
                                     /\ retained(nodes, v.to) =>
                                     \E s \in probed : e \in ToSet(s.edges) /\ s.commit = c
    BY DEF VerificationReachesRetained
  <1> DEFINE from == RetainedFrom(keep)
             probed == Probed(keep)
             retained(histories, id) ==
               LiveAt(histories[id], c) /\ LatestAt(histories[id], c).begin >= from
  <1>1. c \in 0..latest /\ c \in from..latest
    <2>1. latest \in Nat
      BY HeadWithinFile
    <2>2. from \in 0..latest
      BY <2>1, RetainedWithin
    <2> HIDE DEF from
    <2>3. c \in from..latest
      BY DEF from
    <2> QED
      BY <2>1, <2>2, <2>3
  <1>2. ASSUME NEW t \in ProbeTimes(from, latest)
        PROVE  t \in Int /\ Materialize(c, t) \in probed
    <2>1. t \in Int
      BY ProbeTimesAreTimes
    <2> QED
      BY <1>1, <2>1 DEF Probed
  <1>3. \A x \in NodeViews \union EdgeViews : x.start \in Int /\ x.end \in Int /\ x.start < x.end
    BY SnapshotIndexesAssumption DEF IsStored
  <1> HIDE DEF probed, from
  <1>4. ASSUME NEW n \in Nodes, retained(nodes, n)
        PROVE  \E s \in probed : n \in ToSet(s.nodes) /\ s.commit = c
    <2> DEFINE t == LatestAt(nodes[n], c).view.start
               s == Materialize(c, t)
    <2>1. LatestAt(nodes[n], c).view \in NodeViews /\ t \in ProbeTimes(from, latest)
      BY <1>1, <1>4, NodeStartProbed
    <2>2. t \in Int /\ s \in probed
      BY <1>2, <2>1
    <2>3. ActiveAt(nodes[n], c, t)
      BY <1>3, <1>4, <2>1 DEF ActiveAt, Covers
    <2> HIDE DEF t
    <2>4. n \in ToSet(s.nodes) /\ s.commit = c
      BY <1>1, <2>2, <2>3, MaterializeShows
    <2> QED
      BY <2>2, <2>4
  <1>5. ASSUME NEW u \in Times, NEW e \in Snapshot(c, u).edges,
               LET v == LatestAt(edges[e], c).view
               IN  retained(edges, e) /\ retained(nodes, v.from) /\ retained(nodes, v.to)
        PROVE  \E s \in probed : e \in ToSet(s.edges) /\ s.commit = c
    <2> DEFINE v == LatestAt(edges[e], c).view
               a == LatestAt(nodes[v.from], c).view
               b == LatestAt(nodes[v.to], c).view
    <2>1. e \in Edges /\ ActiveAt(edges[e], c, u)
      BY DEF Snapshot
    <2>2. v \in EdgeViews /\ v.start \in ProbeTimes(from, latest)
      BY <1>1, <1>5, <2>1, EdgeStartProbed
    <2>3. v.from \in Nodes /\ v.to \in Nodes
      BY <2>2, GraphStoreAssumption
    <2>4. ActiveAt(nodes[v.from], c, u) /\ ActiveAt(nodes[v.to], c, u)
      BY DEF Snapshot
    <2>5. /\ a \in NodeViews /\ a.start \in ProbeTimes(from, latest)
          /\ b \in NodeViews /\ b.start \in ProbeTimes(from, latest)
      BY <1>1, <1>5, <2>3, NodeStartProbed
    <2>6. u \in Int
      BY SnapshotIndexesAssumption
    <2>7. Covers(v, u) /\ Covers(a, u) /\ Covers(b, u)
      BY <2>1, <2>4 DEF ActiveAt
    <2>8. LiveAt(edges[e], c) /\ LiveAt(nodes[v.from], c) /\ LiveAt(nodes[v.to], c)
      BY <1>5
    <2>9. ASSUME NEW t \in ProbeTimes(from, latest), Covers(v, t), Covers(a, t), Covers(b, t)
          PROVE  \E s \in probed : e \in ToSet(s.edges) /\ s.commit = c
      <3>1. t \in Int /\ Materialize(c, t) \in probed
        BY <1>2
      <3>2. ActiveAt(edges[e], c, t) /\ ActiveAt(nodes[v.from], c, t) /\ ActiveAt(nodes[v.to], c, t)
        BY <2>8, <2>9 DEF ActiveAt
      <3>3. e \in ToSet(Materialize(c, t).edges) /\ Materialize(c, t).commit = c
        BY <1>1, <2>1, <3>1, <3>2, MaterializeShows
      <3> QED
        BY <3>1, <3>3
    <2> HIDE DEF v, a, b
    <2>10. /\ v.start \in Int /\ v.end \in Int /\ a.start \in Int /\ a.end \in Int
           /\ b.start \in Int /\ b.end \in Int
      BY <1>3, <2>2, <2>5
    <2>11. \E t \in {v.start, a.start, b.start} : Covers(v, t) /\ Covers(a, t) /\ Covers(b, t)
      <3>1. CASE a.start <= v.start /\ b.start <= v.start
        BY <2>6, <2>7, <2>10, <3>1 DEF Covers
      <3>2. CASE v.start <= a.start /\ b.start <= a.start
        BY <2>6, <2>7, <2>10, <3>2 DEF Covers
      <3>3. CASE v.start <= b.start /\ a.start <= b.start
        BY <2>6, <2>7, <2>10, <3>3 DEF Covers
      <3> QED
        BY <2>10, <3>1, <3>2, <3>3
    <2> QED
      BY <2>2, <2>5, <2>9, <2>11
  <1> QED
    BY <1>4, <1>5 DEF probed, from

-----------------------------------------------------------------------------
(* A store over a file that an earlier process left.                        *)
LEMMA ExistingGroups ==
  /\ ExistingFile \in Seq(GroupType) /\ Len(ExistingFile) \in Nat
  /\ \A i \in 1..Len(ExistingFile) :
       /\ ExistingFile[i].commit = i /\ NotBoth(ExistingFile[i])
       /\ ExistingFile[i].txn \in ExistingTxns
  <1>1. Len(ExistingFile) \in Nat /\ ExistingFile \in [1..Len(ExistingFile) -> ToSet(ExistingFile)]
    BY ExistingFileAssumption, LenProperties
  <1>2. ASSUME NEW i \in 1..Len(ExistingFile)
        PROVE  /\ ExistingFile[i] \in GroupType
               /\ ExistingFile[i].commit = i /\ NotBoth(ExistingFile[i])
               /\ ExistingFile[i].txn \in ExistingTxns
    <2> DEFINE g == ExistingFile[i]
    <2>1. IsGroup(g, i)
      BY ExistingFileAssumption
    <2> HIDE DEF g
    <2>2. IsStaged(g) /\ g.txn \in ExistingTxns /\ g.txn \in Txns
      BY <2>1, ExistingFileAssumption DEF IsGroup
    <2>3. /\ g.putNodes \in [DOMAIN g.putNodes -> NodeViews]
          /\ g.putEdges \in [DOMAIN g.putEdges -> EdgeViews]
      BY <2>1 DEF IsGroup
    <2>4. g.putNodes \in Partial(Nodes, NodeViews) /\ g.putEdges \in Partial(Edges, EdgeViews)
      BY <2>2, <2>3 DEF Partial, IsStaged
    <2>5. g = [commit |-> i, txn |-> g.txn, putNodes |-> g.putNodes, putEdges |-> g.putEdges,
               deleteNodes |-> g.deleteNodes, deleteEdges |-> g.deleteEdges]
      BY <2>1 DEF IsGroup
    <2>6. g.commit = i
      BY <2>5
    <2>7. NotBoth(g) /\ g.deleteNodes \in SUBSET Nodes /\ g.deleteEdges \in SUBSET Edges
      BY <2>2 DEF IsStaged, NotBoth
    <2>8. g \in GroupType
      BY <2>2, <2>4, <2>5, <2>7 DEF GroupType
    <2> QED
      BY <2>2, <2>6, <2>7, <2>8 DEF g
  <1>3. ExistingFile \in [1..Len(ExistingFile) -> GroupType]
    BY <1>1, <1>2
  <1>4. ExistingFile \in Seq(GroupType)
    BY <1>1, <1>3, SeqDef
  <1> QED
    BY <1>1, <1>2, <1>4

LEMMA InitExistingInv == InitExisting => IInv
  <1> SUFFICES ASSUME InitExisting PROVE IInv
    OBVIOUS
  <1>0. MaxCommit \in Nat /\ NoTxn \notin Txns
    BY GraphStoreAssumption
  <1>1. durable = ExistingFile /\ latest = 0 /\ 1..0 = {}
    BY DEF InitExisting
  <1>2. \A st \in {"none", "closed"} : Fresh(st) \in TxnType /\ NotBoth(Fresh(st))
                                       /\ Fresh(st).status = st
    BY FreshType DEF Fresh
  <1>3. InvDurable
    <2>1. \A t \in ExistingTxns : t \in Txns /\ txn[t].status = "closed"
      BY <1>2, ExistingFileAssumption DEF InitExisting
    <2> QED
      BY <1>1, <2>1, ExistingGroups, ExistingFileAssumption DEF InvDurable
  <1>4. InvTxn
    <2>1. \A t \in Txns : txn[t] = Fresh("closed") \/ txn[t] = Fresh("none")
      BY DEF InitExisting
    <2>2. txn = [t \in Txns |-> Fresh(IF t \in ExistingTxns THEN "closed" ELSE "none")]
      BY DEF InitExisting
    <2>3. \A t \in Txns : txn[t] \in TxnType /\ NotBoth(txn[t])
      BY <1>2, <2>1
    <2> QED
      BY <2>2, <2>3 DEF InvTxn
  <1>5. InvHead
    <2>1. up = FALSE /\ shuttingDown = FALSE /\ inflight = NoTxn /\ acked = 1..Len(durable)
      BY DEF InitExisting
    <2> QED
      BY <1>1, <2>1 DEF InvHead
  <1>6. InvMaps
    <2>1. \A x : DOMAIN NodeRecords(durable, latest, x) = {} /\ DOMAIN EdgeRecords(durable, latest, x) = {}
      BY <1>1 DEF NodeRecords, EdgeRecords
    <2> QED
      BY <2>1, ListsNothing DEF InitExisting, InvMaps
  <1>7. InvChangeLog
    <2>1. DOMAIN Changes(durable, {}) = {} /\ Mutating(durable, latest) = {}
      BY <1>1 DEF Changes, Mutating
    <2>2. Lists(changeLog, Changes(durable, {}))
      BY <2>1, ListsNothing DEF InitExisting
    <2> QED
      BY <2>1, <2>2 DEF InvChangeLog
  <1>8. InvSeen
    BY <1>0, EmptySeq DEF InitExisting, InvSeen, NoSub
  <1>9. ConsumersExactlyOnce
    <2>1. ASSUME NEW k \in DOMAIN durable, NEW s \in Subscribers
          PROVE  durable[k].commit > LastSeen(s)
      <3>1. k \in 1..Len(ExistingFile) /\ durable[k].commit = k /\ LastSeen(s) = 0
        BY <1>1, ExistingGroups, LenProperties DEF InitExisting, LastSeen
      <3> QED
        BY <3>1, ExistingGroups
    <2>2. \A s \in Subscribers : DOMAIN seen[s] = {}
      BY DEF InitExisting
    <2> QED
      BY <2>1, <2>2 DEF ConsumersExactlyOnce
  <1> QED
    BY <1>3, <1>4, <1>5, <1>6, <1>7, <1>8, <1>9 DEF IInv

(* The invariant of the store holds over any file it may be opened with.    *)
THEOREM ExistingInvariance == SpecExisting => []IInv
  BY InitExistingInv, StepInv, PTL DEF SpecExisting

(* Every lookup of every snapshot of every commit answers what a scan of    *)
(* the graph replayed from the file would, for any file, entities, labels,  *)
(* properties and valid times.                                              *)
THEOREM LookupsAreScans == SpecExisting => []LookupsEqualScans
  BY ExistingInvariance, LookupsHold, PTL

(* compact() never fails its own verification, whatever the file holds.     *)
THEOREM CompactionAccepts == SpecExisting => []VerificationAccepts
  BY ExistingInvariance, AcceptsHold, PTL

(* What compaction retains and a snapshot can show is in a snapshot it      *)
(* verified.                                                                *)
THEOREM CompactionReachesRetained == SpecExisting => []VerificationReachesRetained
  BY ExistingInvariance, ReachesHold, PTL

(* The nodes an equality selects through the property index compare equal,  *)
(* and no node satisfies both = and != for one value.                       *)
THEOREM EqualitySound == SpecExisting => []EqualityIsSound
  BY ExistingInvariance, EqualityHolds, PTL
=============================================================================
