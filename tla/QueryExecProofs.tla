-------------------------- MODULE QueryExecProofs --------------------------
(***************************************************************************)
(* The executor returns what the query means, for every query, budget and  *)
(* number of workers: the queue of a breadth first search lists the paths  *)
(* that are found and not expanded yet, so the rows come in the order of   *)
(* the reference, the work done is the number of things looked at, and a   *)
(* limit is exceeded only where the whole query exceeds it.                *)
(*                                                                         *)
(* First the search, in terms of the reference: sequences that list a set  *)
(* in an order, sums, the paths of a query, what is expanded, looked at    *)
(* and found up to a path, the chunks of the seeds and the order of the    *)
(* rows.  What a search has found when it is at a path is a set (FoundTo), *)
(* so its steps are facts about sets, and its queue lists those ahead of   *)
(* the path (Ahead).  Then the steps of the executor.                      *)
(***************************************************************************)
EXTENDS QueryExec, SequenceTheorems, FiniteSetTheorems, FunctionTheorems,
        WellFoundedInduction, TLAPS

\* s lists the elements of S in the order R, a set of pairs.
Lists(s, S, R) ==
  /\ s \in Seq(S)
  /\ \A i, j \in 1..Len(s) : i < j => <<s[i], s[j]>> \in R
  /\ \A x \in S : \E i \in 1..Len(s) : s[i] = x

NumberOrder == {l \in Nat \X Nat : l[1] < l[2]}

-----------------------------------------------------------------------------
(* The order of the naturals is well founded, as a set of pairs.            *)
LEMMA LessThanWellFounded ==
  IsWellFoundedOn({p \in Nat \X Nat : p[1] < p[2]}, Nat)
  <1>1. IsWellFoundedOn(OpToRel(<, Nat), Nat)
    BY NatLessThanWellFounded
  <1> QED
    BY <1>1 DEF OpToRel

(* A non-empty set of naturals has a smallest element.                      *)
LEMMA MinExists ==
  ASSUME NEW T \in SUBSET Nat, T # {}
  PROVE  \E x \in T : \A y \in T : x <= y
  <1> DEFINE R == {p \in Nat \X Nat : p[1] < p[2]}
  <1>1. IsWellFoundedOn(R, Nat)
    BY LessThanWellFounded
  <1> HIDE DEF R
  <1>2. PICK x \in T : \A y \in T : ~(<<y, x>> \in R)
    BY <1>1, WFMin
  <1>3. \A y \in T : x <= y
    <2>1. SUFFICES ASSUME NEW y \in T, y < x PROVE FALSE
      OBVIOUS
    <2>2. <<y, x>> \in R
      BY <2>1 DEF R
    <2> QED
      BY <1>2, <2>2
  <1> QED
    BY <1>3

(* A non-empty bounded set of naturals has a largest element.               *)
LEMMA MaxExists ==
  ASSUME NEW n \in Nat, NEW T \in SUBSET (0..n), T # {}
  PROVE  \E x \in T : \A y \in T : y <= x
  <1> DEFINE U == {n - x : x \in T}
  <1>1. U \in SUBSET Nat /\ U # {}
    OBVIOUS
  <1>2. PICK u \in U : \A v \in U : u <= v
    BY <1>1, MinExists
  <1>3. PICK x \in T : u = n - x
    OBVIOUS
  <1>4. \A y \in T : y <= x
    <2>1. TAKE y \in T
    <2>2. n - y \in U
      OBVIOUS
    <2> QED
      BY <1>2, <1>3, <2>2
  <1> QED
    BY <1>4

-----------------------------------------------------------------------------
(* A finite set of naturals can be listed in ascending order.               *)

(* What holds of 0 and of the successor of what it holds of holds of every  *)
(* number up to n.                                                          *)
LEMMA CountUp ==
  ASSUME NEW n \in Nat, NEW T, 0 \in T, \A i \in 0..(n-1) : i \in T => i + 1 \in T
  PROVE  \A i \in 0..n : i \in T
  <1> DEFINE U == {i \in 0..n : i \notin T}
  <1>1. SUFFICES ASSUME U # {} PROVE FALSE
    OBVIOUS
  <1>2. PICK m \in U : \A i \in U : m <= i
    <2>1. U \in SUBSET Nat
      OBVIOUS
    <2> HIDE DEF U
    <2> QED
      BY <1>1, <2>1, MinExists
  <1>3. m # 0 /\ m - 1 \in 0..(n-1) /\ m - 1 \notin U
    BY <1>2
  <1>4. m - 1 \in T /\ (m - 1) + 1 = m
    BY <1>3
  <1> QED
    BY <1>2, <1>3, <1>4

(* Total: its recursive definition has a solution, so it satisfies it.      *)
LEMMA TotalUnfolds ==
  ASSUME NEW s, Len(s) \in Nat
  PROVE  \E sum : /\ Total(s) = sum[Len(s)] /\ sum[0] = 0
                  /\ \A n \in 1..Len(s) : sum[n] = sum[n - 1] + s[n]
  <1> DEFINE L == Len(s)
             Row(f, n) == IF n = 0 THEN 0 ELSE f[n - 1] + s[n]
             Solves(f, m) == f = [n \in 0..m |-> Row(f, n)]
             T == {m \in 0..L : \E f : Solves(f, m)}
  <1>1. 0 \in T
    <2> DEFINE f == [n \in 0..0 |-> 0]
    <2>1. Solves(f, 0)
      OBVIOUS
    <2> HIDE DEF f, Solves
    <2> QED
      BY <2>1
  <1>2. ASSUME NEW i \in 0..(L-1), i \in T PROVE i + 1 \in T
    <2>1. PICK f : Solves(f, i)
      BY <1>2
    <2> DEFINE h == [n \in 0..(i+1) |-> IF n = i + 1 THEN f[i] + s[i + 1] ELSE f[n]]
    <2>2. \A n \in 0..i : h[n] = f[n] /\ f[n] = Row(f, n)
      <3>1. \A n \in 0..i : h[n] = f[n]
        OBVIOUS
      <3>2. \A n \in 0..i : [x \in 0..i |-> Row(f, x)][n] = Row(f, n)
        OBVIOUS
      <3> HIDE DEF h, Row
      <3> QED
        BY <2>1, <3>1, <3>2
    <2>3. \A n \in 0..(i+1) : h[n] = Row(h, n)
      <3>1. TAKE n \in 0..(i+1)
      <3>2. CASE n = i + 1
        <4>1. h[n] = f[i] + s[i+1] /\ n - 1 = i /\ h[i] = f[i] /\ n # 0
          BY <3>2, <2>2
        <4> HIDE DEF h
        <4> QED
          BY <3>2, <4>1
      <3>3. CASE n # i + 1 /\ n # 0
        <4>1. n \in 0..i /\ n - 1 \in 0..i
          BY <3>3
        <4>2. h[n] = f[n] /\ h[n-1] = f[n-1] /\ f[n] = Row(f, n)
          BY <4>1, <2>2
        <4> HIDE DEF h
        <4> QED
          BY <3>3, <4>2
      <3>4. CASE n = 0
        <4>1. h[0] = f[0] /\ f[0] = Row(f, 0)
          BY <2>2
        <4> HIDE DEF h
        <4> QED
          BY <3>4, <4>1
      <3> QED
        BY <3>2, <3>3, <3>4
    <2>4. Solves(h, i + 1)
      <3>1. h = [n \in 0..(i+1) |-> h[n]]
        OBVIOUS
      <3> HIDE DEF h, Row
      <3> QED
        BY <2>3, <3>1
    <2> HIDE DEF Solves
    <2> QED
      BY <2>4
  <1>3. \E f : Solves(f, L)
    <2>1. L \in 0..L /\ \A i \in 0..L : i \in T
      <3> HIDE DEF T
      <3> QED
        BY <1>1, <1>2, CountUp, SMTT(20)
    <2> QED
      BY <2>1
  <1> DEFINE sum == CHOOSE f : Solves(f, L)
  <1>4. Solves(sum, L)
    <2> HIDE DEF Solves
    <2> QED
      BY <1>3
  <1>5. Total(s) = sum[L]
    BY DEF Total
  <1>6. \A n \in 0..L : sum[n] = Row(sum, n)
    <2>1. sum = [n \in 0..L |-> Row(sum, n)]
      BY <1>4
    <2>2. \A n \in 0..L : [x \in 0..L |-> Row(sum, x)][n] = Row(sum, n)
      OBVIOUS
    <2> HIDE DEF sum, Row
    <2> QED
      BY <2>1, <2>2
  <1>7. \A n \in 1..L : n \in 0..L /\ n # 0
    OBVIOUS
  <1> HIDE DEF sum
  <1> QED
    BY <1>5, <1>6, <1>7

(* The sum of integers is an integer.                                       *)
LEMMA TotalInt ==
  ASSUME NEW s, Len(s) \in Nat, \A i \in 1..Len(s) : s[i] \in Int
  PROVE  Total(s) \in Int
  <1>1. PICK sum : /\ Total(s) = sum[Len(s)] /\ sum[0] = 0
                   /\ \A n \in 1..Len(s) : sum[n] = sum[n - 1] + s[n]
    BY TotalUnfolds
  <1> DEFINE T == {n \in 0..Len(s) : sum[n] \in Int}
  <1>2. 0 \in T
    BY <1>1
  <1>3. ASSUME NEW i \in 0..(Len(s)-1), i \in T PROVE i + 1 \in T
    <2>1. i + 1 \in 1..Len(s) /\ (i + 1) - 1 = i /\ s[i + 1] \in Int /\ sum[i] \in Int
      BY <1>3
    <2>2. sum[i + 1] = sum[i] + s[i + 1]
      BY <1>1, <2>1
    <2> QED
      BY <2>1, <2>2
  <1>4. Len(s) \in T
    <2>1. Len(s) \in 0..Len(s)
      OBVIOUS
    <2> HIDE DEF T
    <2>2. \A i \in 0..Len(s) : i \in T
      BY <1>2, <1>3, CountUp
    <2> QED
      BY <2>1, <2>2
  <1> QED
    BY <1>1, <1>4

-----------------------------------------------------------------------------
(* Sequences that list a set in an order.                                   *)

(* The empty sequence lists the empty set.                                  *)
LEMMA ListsNothing ==
  ASSUME NEW R
  PROVE  Lists(<<>>, {}, R)
  BY EmptySeq DEF Lists

(* The elements of the sequence are those of the set.                       *)
LEMMA ListsElements ==
  ASSUME NEW s, NEW S, NEW R, Lists(s, S, R)
  PROVE  /\ s \in Seq(S) /\ Len(s) \in Nat /\ DOMAIN s = 1..Len(s) /\ s \in [1..Len(s) -> S]
         /\ ToSet(s) = S
         /\ s = <<>> <=> S = {}
  <1>1. s \in Seq(S) /\ Len(s) \in Nat /\ DOMAIN s = 1..Len(s) /\ s \in [1..Len(s) -> S]
    BY LenProperties DEF Lists
  <1>2. ToSet(s) = {s[i] : i \in 1..Len(s)}
    BY <1>1 DEF ToSet
  <1>3. \A i \in 1..Len(s) : s[i] \in S
    BY <1>1
  <1>4. ToSet(s) = S
    BY <1>2, <1>3 DEF Lists
  <1>5. s = <<>> => S = {}
    <2>1. s = <<>> => Len(s) = 0
      OBVIOUS
    <2> QED
      BY <1>1, <2>1 DEF Lists
  <1>6. S = {} => s = <<>>
    <2>1. S = {} => Len(s) = 0
      BY <1>1, <1>3
    <2>2. Len(s) = 0 => s = <<>>
      BY <1>1, EmptySeq
    <2> QED
      BY <2>1, <2>2
  <1> QED
    BY <1>1, <1>4, <1>5, <1>6

(* An element after all others is appended.                                 *)
LEMMA ListsAppend ==
  ASSUME NEW s, NEW S, NEW R, Lists(s, S, R), NEW y, \A x \in S : <<x, y>> \in R
  PROVE  Lists(Append(s, y), S \union {y}, R)
  <1> DEFINE T == S \union {y}
             L == Len(s)
             t == Append(s, y)
  <1>1. s \in Seq(T) /\ L \in Nat /\ y \in T /\ \A i \in 1..L : s[i] \in S
    <2>1. s \in Seq(S) /\ S \subseteq T
      BY DEF Lists
    <2>2. s \in Seq(T)
      BY <2>1, SeqMonotonic
    <2> QED
      BY <2>2, ListsElements
  <1>2. /\ t \in Seq(T) /\ Len(t) = L + 1
        /\ \A i \in 1..L : t[i] = s[i]
        /\ t[L + 1] = y
    BY <1>1, AppendProperties
  <1>3. ASSUME NEW i \in 1..Len(t), NEW j \in 1..Len(t), i < j
        PROVE  <<t[i], t[j]>> \in R
    <2>1. i \in 1..L /\ t[i] = s[i] /\ s[i] \in S
      BY <1>1, <1>2, <1>3
    <2>2. CASE j \in 1..L
      <3>1. <<s[i], s[j]>> \in R
        BY <1>3, <2>1, <2>2 DEF Lists
      <3> QED
        BY <1>2, <2>1, <2>2, <3>1
    <2>3. CASE j = L + 1
      BY <1>2, <2>1, <2>3
    <2> QED
      BY <1>1, <1>2, <2>2, <2>3
  <1>4. ASSUME NEW x \in T PROVE \E i \in 1..Len(t) : t[i] = x
    <2>1. CASE x \in S
      <3>1. PICK i \in 1..L : s[i] = x
        BY <2>1 DEF Lists
      <3>2. i \in 1..Len(t) /\ t[i] = x
        BY <1>1, <1>2, <3>1
      <3> QED
        BY <3>2
    <2>2. CASE x = y
      <3>1. L + 1 \in 1..Len(t) /\ t[L + 1] = x
        BY <1>1, <1>2, <2>2
      <3> QED
        BY <3>1
    <2> QED
      BY <2>1, <2>2
  <1> HIDE DEF t, L, T
  <1>5. Lists(t, T, R)
    BY <1>2, <1>3, <1>4 DEF Lists
  <1> QED
    BY <1>5 DEF t, T

(* Without its first element the sequence lists the rest, all after it.     *)
LEMMA ListsTail ==
  ASSUME NEW s, NEW S, NEW R, Lists(s, S, R), s # <<>>, \A x : <<x, x>> \notin R
  PROVE  /\ Head(s) \in S /\ Head(s) = s[1]
         /\ Lists(Tail(s), S \ {Head(s)}, R)
         /\ \A x \in S \ {Head(s)} : <<Head(s), x>> \in R
  <1> DEFINE L == Len(s)
             t == Tail(s)
             h == Head(s)
  <1>1. s \in Seq(S) /\ L \in Nat /\ L # 0 /\ h = s[1] /\ h \in S
    <2>1. s \in Seq(S) /\ L \in Nat \ {0}
      BY EmptySeq DEF Lists
    <2> QED
      BY <2>1, HeadTailProperties
  <1>2. t \in Seq(S) /\ Len(t) = L - 1 /\ \A i \in 1..Len(t) : t[i] = s[i + 1]
    BY <1>1, HeadTailProperties
  <1>3. ASSUME NEW i \in 1..Len(t)
        PROVE  <<h, t[i]>> \in R /\ t[i] \in S \ {h}
    <2>1. i + 1 \in 1..L /\ 1 \in 1..L /\ 1 < i + 1
      BY <1>1, <1>2
    <2>2. <<s[1], s[i + 1]>> \in R /\ s[i + 1] \in S
      BY <1>1, <2>1, ElementOfSeq DEF Lists
    <2> QED
      BY <1>1, <1>2, <2>2
  <1>4. ASSUME NEW x \in S \ {h} PROVE \E i \in 1..Len(t) : t[i] = x
    <2>1. PICK i \in 1..L : s[i] = x
      BY DEF Lists
    <2>2. i # 1 /\ i - 1 \in 1..Len(t) /\ (i - 1) + 1 = i
      BY <1>1, <1>2, <1>4, <2>1
    <2>3. t[i - 1] = x
      BY <1>2, <2>1, <2>2
    <2> QED
      BY <2>2, <2>3
  <1>5. ASSUME NEW i \in 1..Len(t), NEW j \in 1..Len(t), i < j
        PROVE  <<t[i], t[j]>> \in R
    <2>1. i + 1 \in 1..L /\ j + 1 \in 1..L /\ i + 1 < j + 1
      BY <1>1, <1>2, <1>5
    <2>2. <<s[i + 1], s[j + 1]>> \in R
      BY <2>1 DEF Lists
    <2> QED
      BY <1>2, <2>2
  <1>6. t \in Seq(S \ {h})
    <2>1. t \in [1..Len(t) -> S \ {h}] /\ Len(t) \in Nat
      <3>1. t \in [1..Len(t) -> S] /\ Len(t) \in Nat
        BY <1>2, LenProperties
      <3> HIDE DEF t
      <3> QED
        BY <1>3, <3>1
    <2> HIDE DEF t
    <2> QED
      BY <2>1
  <1> HIDE DEF t, h
  <1>7. Lists(t, S \ {h}, R)
    BY <1>4, <1>5, <1>6 DEF Lists
  <1>8. \A x \in S \ {h} : <<h, x>> \in R
    BY <1>3, <1>4
  <1> QED
    BY <1>1, <1>7, <1>8 DEF t, h

(* One list goes on with another whose elements come after its own.         *)
LEMMA ListsConcat ==
  ASSUME NEW s, NEW S, NEW t, NEW T, NEW R, Lists(s, S, R), Lists(t, T, R),
         \A x \in S, y \in T : <<x, y>> \in R
  PROVE  Lists(s \o t, S \union T, R)
  <1> DEFINE U == S \union T
             m == Len(s)
             n == Len(t)
             u == s \o t
  <1>1. /\ s \in Seq(U) /\ t \in Seq(U) /\ m \in Nat /\ n \in Nat
        /\ \A i \in 1..m : s[i] \in S
        /\ \A i \in 1..n : t[i] \in T
    <2>1. s \in Seq(S) /\ t \in Seq(T) /\ S \subseteq U /\ T \subseteq U
      BY DEF Lists
    <2>2. s \in Seq(U) /\ t \in Seq(U)
      BY <2>1, SeqMonotonic
    <2> QED
      BY <2>2, ListsElements
  <1>2. /\ u \in Seq(U) /\ Len(u) = m + n
        /\ \A i \in 1..(m + n) : u[i] = IF i <= m THEN s[i] ELSE t[i - m]
    BY <1>1, ConcatProperties
  <1>3. ASSUME NEW i \in 1..Len(u), NEW j \in 1..Len(u), i < j
        PROVE  <<u[i], u[j]>> \in R
    <2>1. CASE j <= m
      <3>1. i \in 1..m /\ j \in 1..m /\ u[i] = s[i] /\ u[j] = s[j]
        BY <1>1, <1>2, <1>3, <2>1
      <3> QED
        BY <1>3, <3>1 DEF Lists
    <2>2. CASE m < i
      <3>1. i - m \in 1..n /\ j - m \in 1..n /\ i - m < j - m /\ u[i] = t[i - m] /\ u[j] = t[j - m]
        BY <1>1, <1>2, <1>3, <2>2
      <3> QED
        BY <3>1 DEF Lists
    <2>3. CASE i <= m /\ m < j
      <3>1. i \in 1..m /\ j - m \in 1..n /\ u[i] = s[i] /\ u[j] = t[j - m]
        BY <1>1, <1>2, <1>3, <2>3
      <3> QED
        BY <1>1, <3>1
    <2>4. i \in Int /\ j \in Int /\ (j <= m \/ m < i \/ (i <= m /\ m < j))
      BY <1>1, <1>2, <1>3
    <2> QED
      BY <2>1, <2>2, <2>3, <2>4
  <1>4. ASSUME NEW x \in U PROVE \E i \in 1..Len(u) : u[i] = x
    <2>1. CASE x \in S
      <3>1. PICK i \in 1..m : s[i] = x
        BY <2>1 DEF Lists
      <3>2. i \in 1..Len(u) /\ u[i] = x
        BY <1>1, <1>2, <3>1
      <3> QED
        BY <3>2
    <2>2. CASE x \in T
      <3>1. PICK i \in 1..n : t[i] = x
        BY <2>2 DEF Lists
      <3>2. m + i \in 1..Len(u) /\ ~(m + i <= m) /\ (m + i) - m = i
        BY <1>1, <1>2
      <3>3. u[m + i] = x
        BY <1>2, <3>1, <3>2
      <3> QED
        BY <3>2, <3>3
    <2> QED
      BY <2>1, <2>2
  <1> HIDE DEF u, U
  <1>5. Lists(u, U, R)
    BY <1>2, <1>3, <1>4 DEF Lists
  <1> QED
    BY <1>5 DEF u, U

(* In a strict order each element comes once.                               *)
LEMMA ListsCardinality ==
  ASSUME NEW s, NEW S, NEW R, Lists(s, S, R), \A x : <<x, x>> \notin R
  PROVE  IsFiniteSet(S) /\ Cardinality(S) = Len(s)
  <1>1. s \in [1..Len(s) -> S] /\ Len(s) \in Nat
    BY ListsElements
  <1>2. \A i, j \in 1..Len(s) : s[i] = s[j] => i = j
    <2>1. TAKE i, j \in 1..Len(s)
    <2>2. i < j => s[i] # s[j]
      BY DEF Lists
    <2>3. j < i => s[i] # s[j]
      BY DEF Lists
    <2> QED
      BY <1>1, <2>2, <2>3
  <1>3. s \in Bijection(1..Len(s), S)
    BY <1>1, <1>2 DEF Lists, Bijection, Injection, Surjection, IsInjective
  <1>4. IsFiniteSet(1..Len(s)) /\ Cardinality(1..Len(s)) = Len(s)
    <2>1. 1 \in Int /\ Len(s) \in Int
      BY <1>1
    <2>2. /\ IsFiniteSet(1..Len(s))
          /\ Cardinality(1..Len(s)) = IF 1 > Len(s) THEN 0 ELSE Len(s) - 1 + 1
      BY ONLY <2>1, FS_Interval
    <2> QED
      BY <1>1, <2>2
  <1> QED
    BY <1>3, <1>4, FS_Bijection DEF ExistsBijection

(* FlattenSeq, as TotalUnfolds.                                             *)
LEMMA FlattenUnfolds ==
  ASSUME NEW ss, Len(ss) \in Nat \ {0}
  PROVE  \E flat : /\ FlattenSeq(ss) = flat[Len(ss)] /\ flat[1] = ss[1]
                   /\ \A n \in 2..Len(ss) : flat[n] = flat[n - 1] \o ss[n]
  <1> DEFINE L == Len(ss)
             Row(f, n) == IF n = 1 THEN ss[n] ELSE f[n - 1] \o ss[n]
             Solves(f, m) == f = [n \in 1..m |-> Row(f, n)]
             T == {m \in 0..(L-1) : \E f : Solves(f, m + 1)}
  <1>1. 0 \in T
    <2> DEFINE f == [n \in 1..1 |-> ss[1]]
    <2>1. Solves(f, 0 + 1)
      OBVIOUS
    <2> HIDE DEF f, Solves
    <2> QED
      BY <2>1
  <1>2. ASSUME NEW k \in 0..((L-1)-1), k \in T PROVE k + 1 \in T
    <2> DEFINE i == k + 1
    <2>1. PICK f : Solves(f, i)
      BY <1>2
    <2> DEFINE h == [n \in 1..(i+1) |-> IF n = i + 1 THEN f[i] \o ss[i + 1] ELSE f[n]]
    <2>0. i \in Nat \ {0} /\ k + 1 \in 0..(L-1)
      OBVIOUS
    <2> HIDE DEF i
    <2>2. \A n \in 1..i : h[n] = f[n] /\ f[n] = Row(f, n)
      <3>1. \A n \in 1..i : h[n] = f[n]
        BY <2>0
      <3>2. \A n \in 1..i : [x \in 1..i |-> Row(f, x)][n] = Row(f, n)
        OBVIOUS
      <3> HIDE DEF h, Row
      <3> QED
        BY <2>1, <3>1, <3>2
    <2>3. \A n \in 1..(i+1) : h[n] = Row(h, n)
      <3>1. TAKE n \in 1..(i+1)
      <3>2. CASE n = i + 1
        <4>0. i \in 1..i /\ n - 1 = i /\ n # 1
          BY <3>2, <2>0
        <4>1. h[i] = f[i]
          BY ONLY <2>2, <4>0
        <4>2. h[n] = f[i] \o ss[i+1]
          BY <3>2
        <4> HIDE DEF h
        <4> QED
          BY <3>2, <4>0, <4>1, <4>2
      <3>3. CASE n # i + 1 /\ n # 1
        <4>1. n \in 1..i /\ n - 1 \in 1..i
          BY <3>3, <2>0
        <4>2. h[n] = f[n] /\ h[n-1] = f[n-1] /\ f[n] = Row(f, n)
          BY <4>1, <2>2
        <4> HIDE DEF h
        <4> QED
          BY <3>3, <4>2
      <3>4. CASE n = 1
        <4>0. 1 \in 1..i
          BY <2>0
        <4>1. h[1] = f[1] /\ f[1] = Row(f, 1)
          BY ONLY <2>2, <4>0
        <4> HIDE DEF h
        <4> QED
          BY <3>4, <4>1
      <3> QED
        BY <3>2, <3>3, <3>4
    <2>4. Solves(h, i + 1)
      <3>1. h = [n \in 1..(i+1) |-> h[n]]
        OBVIOUS
      <3> HIDE DEF h, Row
      <3> QED
        BY <2>3, <3>1
    <2> HIDE DEF Solves
    <2> QED
      BY <2>0, <2>4 DEF i
  <1>3. \E f : Solves(f, L)
    <2>1. L - 1 \in Nat /\ L - 1 \in 0..(L - 1) /\ (L - 1) + 1 = L
      OBVIOUS
    <2> HIDE DEF T, L
    <2>2. L - 1 \in T
      BY <1>1, <1>2, <2>1, CountUp
    <2> HIDE DEF Solves
    <2> QED
      BY <2>1, <2>2 DEF T
  <1> DEFINE flat == CHOOSE f : Solves(f, L)
  <1>4. Solves(flat, L)
    <2> HIDE DEF Solves
    <2> QED
      BY <1>3
  <1>5. FlattenSeq(ss) = flat[L]
    BY DEF FlattenSeq
  <1>6. \A n \in 1..L : flat[n] = Row(flat, n)
    <2>1. flat = [n \in 1..L |-> Row(flat, n)]
      BY <1>4
    <2>2. \A n \in 1..L : [x \in 1..L |-> Row(flat, x)][n] = Row(flat, n)
      OBVIOUS
    <2> HIDE DEF flat, Row
    <2> QED
      BY <2>1, <2>2
  <1>7. 1 \in 1..L /\ \A n \in 2..L : n \in 1..L /\ n # 1
    OBVIOUS
  <1> HIDE DEF flat
  <1> QED
    BY <1>5, <1>6, <1>7

(* What lists one set after the other lists them all.                       *)
LEMMA FlattenLists ==
  ASSUME NEW ss, Len(ss) \in Nat \ {0}, NEW S, NEW R,
         \A k \in 1..Len(ss) : Lists(ss[k], S[k], R),
         \A k, l \in 1..Len(ss) : k < l => \A x \in S[k], y \in S[l] : <<x, y>> \in R
  PROVE  Lists(FlattenSeq(ss), UNION {S[k] : k \in 1..Len(ss)}, R)
  <1> DEFINE L == Len(ss)
             Upto(n) == UNION {S[k] : k \in 1..n}
  <1>1. PICK flat : /\ FlattenSeq(ss) = flat[L] /\ flat[1] = ss[1]
                    /\ \A n \in 2..L : flat[n] = flat[n - 1] \o ss[n]
    BY FlattenUnfolds
  <1> DEFINE T == {m \in 0..(L-1) : Lists(flat[m + 1], Upto(m + 1), R)}
  <1>2. 0 \in T
    <2>1. Upto(1) = S[1]
      BY \A k \in 1..1 : k = 1
    <2>2. Lists(ss[1], S[1], R)
      OBVIOUS
    <2>3. 0 + 1 = 1 /\ 0 \in 0..(L-1)
      OBVIOUS
    <2> HIDE DEF Upto
    <2> QED
      BY <1>1, <2>1, <2>2, <2>3
  <1>3. ASSUME NEW i \in 0..((L-1)-1), i \in T PROVE i + 1 \in T
    <2>1. i + 1 \in 0..(L-1) /\ (i + 1) + 1 \in 2..L /\ ((i + 1) + 1) - 1 = i + 1
          /\ (i + 1) + 1 \in 1..L
      OBVIOUS
    <2>2. flat[(i + 1) + 1] = flat[i + 1] \o ss[(i + 1) + 1]
      BY <1>1, <2>1
    <2>3. Upto((i + 1) + 1) = Upto(i + 1) \union S[(i + 1) + 1]
      <3>1. \A k : k \in 1..((i+1)+1) <=> k \in 1..(i+1) \/ k = (i+1)+1
        OBVIOUS
      <3> QED
        BY <3>1
    <2>4. \A x \in Upto(i + 1), y \in S[(i + 1) + 1] : <<x, y>> \in R
      <3>1. \A k \in 1..(i + 1) : k \in 1..L /\ k < (i + 1) + 1
        OBVIOUS
      <3> QED
        BY <2>1, <3>1
    <2>5. Lists(flat[i + 1], Upto(i + 1), R) /\ Lists(ss[(i + 1) + 1], S[(i + 1) + 1], R)
      BY <1>3, <2>1
    <2> HIDE DEF Upto
    <2>6. Lists(flat[i + 1] \o ss[(i + 1) + 1], Upto(i + 1) \union S[(i + 1) + 1], R)
      BY <2>4, <2>5, ListsConcat
    <2> QED
      BY <2>1, <2>2, <2>3, <2>6
  <1>4. L - 1 \in Nat /\ L - 1 \in 0..(L - 1) /\ (L - 1) + 1 = L
    OBVIOUS
  <1>5. L - 1 \in T
    <2> HIDE DEF T, L
    <2> QED
      BY <1>2, <1>3, <1>4, CountUp
  <1>6. Lists(flat[L], Upto(L), R)
    <2> HIDE DEF Upto
    <2> QED
      BY <1>4, <1>5
  <1> QED
    BY <1>1, <1>6

-----------------------------------------------------------------------------
(* Sorting in any order that is total on a finite set.                      *)

(* An injective function on a finite set has as many values as arguments.   *)
LEMMA ValuesCardinality ==
  ASSUME NEW R, IsFiniteSet(DOMAIN R), \A a, b \in DOMAIN R : R[a] = R[b] => a = b
  PROVE  Cardinality({R[k] : k \in DOMAIN R}) = Cardinality(DOMAIN R)
  <1> DEFINE f == [k \in DOMAIN R |-> R[k]]
             V == {R[k] : k \in DOMAIN R}
  <1>1. f \in Bijection(DOMAIN R, V)
    BY DEF Bijection, Injection, Surjection, IsInjective
  <1>2. \A S, W, h : IsFiniteSet(S) /\ h \in Bijection(S, W) => Cardinality(S) = Cardinality(W)
    BY FS_Bijection DEF ExistsBijection
  <1> QED
    BY <1>1, <1>2

(* before[x] is what comes before x.                                        *)
TotalOrder(S, before) ==
  /\ before \in [S -> SUBSET S]
  /\ \A x \in S : x \notin before[x]
  /\ \A x, y \in S : y \in before[x] => before[y] \subseteq before[x]
  /\ \A x, y \in S : x # y => x \in before[y] \/ y \in before[x]

(* The number of elements before an element is smaller than the number      *)
(* before any later one, and smaller than that of all elements.             *)
LEMMA RankIncreases ==
  ASSUME NEW S, IsFiniteSet(S), NEW before, TotalOrder(S, before)
  PROVE  /\ \A x \in S : Cardinality(before[x]) \in 0..(Cardinality(S) - 1)
         /\ \A x, y \in S : y \in before[x] => Cardinality(before[y]) < Cardinality(before[x])
  <1>1. ASSUME NEW x \in S
        PROVE  IsFiniteSet(before[x]) /\ Cardinality(before[x]) \in 0..(Cardinality(S) - 1)
    <2>1. before[x] \in SUBSET S /\ before[x] # S
      BY DEF TotalOrder
    <2>2. IsFiniteSet(before[x]) /\ Cardinality(before[x]) < Cardinality(S)
      BY <2>1, FS_Subset, FS_CardinalityType
    <2>3. Cardinality(before[x]) \in Nat /\ Cardinality(S) \in Nat
      BY <2>2, FS_CardinalityType
    <2> QED
      BY <2>2, <2>3
  <1>2. ASSUME NEW x \in S, NEW y \in S, y \in before[x]
        PROVE  Cardinality(before[y]) < Cardinality(before[x])
    <2>1. before[y] \in SUBSET before[x] /\ before[y] # before[x]
      BY <1>2 DEF TotalOrder
    <2> QED
      BY <1>1, <2>1, FS_Subset, FS_CardinalityType
  <1> QED
    BY <1>1, <1>2

(* The length of a function on 1..n.                                        *)
LEMMA LenDomain ==
  ASSUME NEW S, NEW n \in Nat, NEW s \in [1..n -> S]
  PROVE  s \in Seq(S) /\ Len(s) = n
  OBVIOUS

(* Listed lists the whole set in order.                                     *)
LEMMA ListedLists ==
  ASSUME NEW S, IsFiniteSet(S), NEW before, TotalOrder(S, before)
  PROVE  Lists(Listed(S, before), S, {l \in S \X S : l[1] \in before[l[2]]})
  <1> DEFINE n == Cardinality(S)
             rank == [x \in S |-> Cardinality(before[x])]
             U == {rank[x] : x \in S}
             R == {l \in S \X S : l[1] \in before[l[2]]}
             s == Listed(S, before)
  <1>1. /\ n \in Nat
        /\ \A x \in S : rank[x] \in 0..(n - 1)
        /\ \A x, y \in S : y \in before[x] => rank[y] < rank[x]
    BY RankIncreases, FS_CardinalityType
  <1>2. \A x, y \in S : rank[x] = rank[y] => x = y
    <2>1. TAKE x, y \in S
    <2>2. x # y => rank[x] < rank[y] \/ rank[y] < rank[x]
      BY <1>1 DEF TotalOrder
    <2> HIDE DEF rank
    <2>3. rank[x] \in Int /\ rank[y] \in Int
      BY <1>1
    <2> QED
      BY <2>2, <2>3
  <1>3. U = 0..(n - 1)
    <2>1. Cardinality(U) = n
      <3>1. DOMAIN rank = S
        OBVIOUS
      <3> HIDE DEF rank
      <3>2. Cardinality({rank[k] : k \in DOMAIN rank}) = Cardinality(DOMAIN rank)
        BY <1>2, <3>1, ValuesCardinality
      <3> QED
        BY <3>1, <3>2
    <2>2. U \in SUBSET (0..(n - 1))
      BY <1>1
    <2>3. IsFiniteSet(0..(n - 1)) /\ Cardinality(0..(n - 1)) = n
      <3>1. 0 \in Int /\ n - 1 \in Int
        BY <1>1
      <3>2. IsFiniteSet(0..(n - 1))
            /\ Cardinality(0..(n - 1)) = IF 0 > n - 1 THEN 0 ELSE (n - 1) - 0 + 1
        BY ONLY <3>1, FS_Interval
      <3> QED
        BY <1>1, <3>2
    <2> HIDE DEF U, n
    <2> QED
      BY <2>1, <2>2, <2>3, FS_Subset
  <1>4. \A i \in 1..n : \E x \in S : rank[x] = i - 1
    <2>1. TAKE i \in 1..n
    <2>2. i - 1 \in 0..(n - 1)
      BY <1>1
    <2> QED
      BY <1>3, <2>2
  <1>5. \A i \in 1..n : s[i] \in S /\ rank[s[i]] = i - 1
    <2>1. s = [i \in 1..n |-> CHOOSE x \in S : Cardinality(before[x]) = i - 1]
      BY DEF Listed
    <2>2. TAKE i \in 1..n
    <2>3. s[i] = CHOOSE x \in S : Cardinality(before[x]) = i - 1
      BY <2>1
    <2>4. PICK x \in S : Cardinality(before[x]) = i - 1
      BY <1>4
    <2>5. s[i] \in S /\ Cardinality(before[s[i]]) = i - 1
      BY <2>3, <2>4
    <2> QED
      BY <2>5
  <1>6. DOMAIN s = 1..n
    BY DEF Listed
  <1> HIDE DEF rank, n, s
  <1>7. ASSUME NEW i \in 1..n, NEW j \in 1..n, i < j
        PROVE  s[i] \in before[s[j]]
    <2>1. s[i] \in S /\ s[j] \in S /\ rank[s[i]] = i - 1 /\ rank[s[j]] = j - 1
      BY <1>5
    <2>2. rank[s[i]] < rank[s[j]] /\ ~(rank[s[j]] < rank[s[i]])
      BY <1>1, <1>7, <2>1
    <2>3. s[i] # s[j] /\ s[j] \notin before[s[i]]
      BY <1>1, <2>1, <2>2
    <2> QED
      BY <2>1, <2>3 DEF TotalOrder
  <1>8. s = [i \in 1..n |-> s[i]]
    BY DEF s, n, Listed
  <1>9. s \in [1..n -> S]
    BY <1>5, <1>8
  <1>10. s \in Seq(S) /\ Len(s) = n
    <2>1. n \in Nat
      BY <1>1
    <2> QED
      BY <1>9, <2>1, LenDomain
  <1>11. ASSUME NEW x \in S PROVE \E i \in 1..n : s[i] = x
    <2>1. rank[x] \in 0..(n-1) /\ n \in Nat
      BY <1>1
    <2>2. rank[x] + 1 \in 1..n /\ (rank[x] + 1) - 1 = rank[x]
      BY <2>1
    <2>3. rank[s[rank[x] + 1]] = rank[x] /\ s[rank[x] + 1] \in S
      BY <1>5, <2>2
    <2>4. s[rank[x] + 1] = x
      BY <1>2, <2>3
    <2> QED
      BY <2>2, <2>4
  <1>12. \A i, j \in 1..Len(s) : i < j => <<s[i], s[j]>> \in R
    BY <1>5, <1>7, <1>10
  <1> HIDE DEF R
  <1>13. Lists(s, S, R)
    BY <1>10, <1>11, <1>12 DEF Lists
  <1> QED
    BY <1>13 DEF s, R

(* Ascending lists the numbers of a finite set.                             *)
LEMMA AscendingLists ==
  ASSUME NEW S \in SUBSET Nat, IsFiniteSet(S)
  PROVE  Lists(Ascending(S), S, NumberOrder)
  <1> DEFINE before == [x \in S |-> {y \in S : y < x}]
             R == {l \in S \X S : l[1] \in before[l[2]]}
  <1>1. TotalOrder(S, before)
    <2>1. before \in [S -> SUBSET S] /\ \A x, y \in S : y \in before[x] <=> y < x
      OBVIOUS
    <2>2. \A x \in S : x \in Int
      OBVIOUS
    <2> HIDE DEF before
    <2>3. \A x \in S : x \notin before[x]
      BY <2>1, <2>2
    <2>4. ASSUME NEW x \in S, NEW y \in S, y \in before[x] PROVE before[y] \subseteq before[x]
      <3>1. y < x
        BY <2>1, <2>4
      <3>2. ASSUME NEW z \in before[y] PROVE z \in before[x]
        <4>1. z \in S
          BY <2>1
        <4>2. z < y
          BY <2>1, <4>1
        <4>3. z < x
          BY <2>2, <3>1, <4>1, <4>2
        <4> QED
          BY <2>1, <4>1, <4>3
      <3> QED
        BY <3>2
    <2>5. \A x, y \in S : x # y => x \in before[y] \/ y \in before[x]
      BY <2>1, <2>2
    <2> QED
      BY <2>1, <2>3, <2>4, <2>5 DEF TotalOrder
  <1>2. Lists(Listed(S, before), S, R)
    <2> HIDE DEF before
    <2> QED
      BY <1>1, ListedLists
  <1>3. R \subseteq NumberOrder
    BY DEF NumberOrder
  <1> HIDE DEF R
  <1>4. Lists(Listed(S, before), S, NumberOrder)
    BY <1>2, <1>3 DEF Lists
  <1> QED
    BY <1>4 DEF Ascending

(* No number is less than itself.                                           *)
LEMMA NumberOrderStrict == \A x : <<x, x>> \notin NumberOrder
  BY DEF NumberOrder

(* There are finitely many words of a length over a finite set.             *)
LEMMA WordsFinite ==
  ASSUME NEW S, IsFiniteSet(S), NEW m \in Nat
  PROVE  IsFiniteSet([1..m -> S])
  <1> DEFINE T == {n \in 0..m : IsFiniteSet([1..n -> S])}
  <1>1. 0 \in T
    <2>1. [1..0 -> S] = {[i \in 1..0 |-> i]}
      <3>1. \A f \in [1..0 -> S] : f = [i \in 1..0 |-> i]
        OBVIOUS
      <3>2. [i \in 1..0 |-> i] \in [1..0 -> S]
        OBVIOUS
      <3> QED
        BY <3>1, <3>2
    <2>2. IsFiniteSet({[i \in 1..0 |-> i]})
      BY FS_Singleton
    <2>3. IsFiniteSet([1..0 -> S])
      BY ONLY <2>1, <2>2
    <2> QED
      BY <2>3
  <1>2. ASSUME NEW n \in 0..(m-1), n \in T PROVE n + 1 \in T
    <2> DEFINE A == [1..n -> S] \X S
               B == [1..(n+1) -> S]
               f == [p \in A |-> [i \in 1..(n+1) |-> IF i = n + 1 THEN p[2] ELSE p[1][i]]]
    <2>1. IsFiniteSet(A)
      BY <1>2, FS_Product
    <2>2. ASSUME NEW p \in A PROVE f[p] \in B
      <3>1. p[2] \in S /\ \A i \in 1..n : p[1][i] \in S
        OBVIOUS
      <3>2. \A i \in 1..(n+1) : i = n + 1 \/ i \in 1..n
        OBVIOUS
      <3> QED
        BY <3>1, <3>2
    <2>3. ASSUME NEW w \in B PROVE \E p \in A : f[p] = w
      <3> DEFINE p == <<[i \in 1..n |-> w[i]], w[n+1]>>
      <3>1. n + 1 \in 1..(n+1) /\ \A i \in 1..n : i \in 1..(n+1) /\ i # n + 1
        OBVIOUS
      <3>2. p \in A
        BY <3>1
      <3>3. p[2] = w[n+1] /\ \A i \in 1..n : p[1][i] = w[i]
        OBVIOUS
      <3>4. \A i \in 1..(n+1) : f[p][i] = w[i]
        <4>1. TAKE i \in 1..(n+1)
        <4>2. f[p][i] = IF i = n + 1 THEN p[2] ELSE p[1][i]
          BY <3>2
        <4>3. i = n + 1 \/ i \in 1..n
          OBVIOUS
        <4> HIDE DEF p, f
        <4> QED
          BY <3>3, <4>2, <4>3
      <3>5. f[p] \in B
        BY <2>2, <3>2
      <3> HIDE DEF p, f
      <3>6. f[p] = w
        BY <3>4, <3>5
      <3> QED
        BY <3>2, <3>6
    <2>4. f \in Surjection(A, B)
      <3>1. f \in [A -> B]
        BY <2>2
      <3> HIDE DEF f, A, B
      <3> QED
        BY <2>3, <3>1 DEF Surjection
    <2>5. IsFiniteSet(B)
      <3> HIDE DEF f, A, B
      <3> QED
        BY <2>1, <2>4, FS_Surjection
    <2> QED
      BY <2>5
  <1>3. m \in 0..m
    OBVIOUS
  <1>4. m \in T
    <2> HIDE DEF T
    <2> QED
      BY <1>1, <1>2, <1>3, CountUp
  <1> QED
    BY <1>4

-----------------------------------------------------------------------------
(* Paths.                                                                   *)

\* A path of any edges from any place: what the order is defined on.
IsWalk(p) ==
  /\ p = [seed |-> p.seed, edges |-> p.edges] /\ p.seed \in Nat
  /\ Len(p.edges) \in Nat /\ p.edges = [i \in 1..Len(p.edges) |-> p.edges[i]]
  /\ \A i \in 1..Len(p.edges) : p.edges[i] \in Nat

(* The empty walk from a node.                                              *)
LEMMA StartWalk ==
  ASSUME NEW n \in Nat
  PROVE  IsWalk(Start(n)) /\ Start(n).seed = n /\ Start(n).edges = <<>> /\ Len(Start(n).edges) = 0
  BY DEF IsWalk, Start

(* The edges of a walk are a sequence of numbers.                           *)
LEMMA WalkEdges ==
  ASSUME NEW p, IsWalk(p)
  PROVE  p.edges \in Seq(Nat) /\ DOMAIN p.edges = 1..Len(p.edges)
         /\ (p.edges = <<>> <=> Len(p.edges) = 0)
  <1>1. p.edges \in Seq(Nat) /\ DOMAIN p.edges = 1..Len(p.edges)
    BY DEF IsWalk
  <1>2. p.edges = <<>> => Len(p.edges) = 0
    OBVIOUS
  <1>3. p.edges # <<>> => Len(p.edges) # 0
    BY <1>1, EmptySeq
  <1> QED
    BY <1>1, <1>2, <1>3

(* Two walks with the same seed and edges are the same.                     *)
LEMMA WalkEqual ==
  ASSUME NEW p, NEW r, IsWalk(p), IsWalk(r), p.seed = r.seed, Len(p.edges) = Len(r.edges),
         \A i \in 1..Len(p.edges) : p.edges[i] = r.edges[i]
  PROVE  p = r
  <1>1. p.edges = r.edges
    BY DEF IsWalk
  <1> QED
    BY <1>1 DEF IsWalk

(* Before is a strict total order of walks.                                 *)
LEMMA BeforeStrict ==
  ASSUME NEW p, IsWalk(p)
  PROVE  ~Before(p, p)
  <1>1. p.seed \in Nat /\ Len(p.edges) \in Nat /\ DOMAIN p.edges = 1..Len(p.edges)
        /\ \A i \in DOMAIN p.edges : p.edges[i] \in Nat
    BY WalkEdges DEF IsWalk
  <1> QED
    BY <1>1 DEF Before

(* Before is transitive.                                                    *)
LEMMA BeforeTransitive ==
  ASSUME NEW p, NEW r, NEW t, IsWalk(p), IsWalk(r), IsWalk(t), Before(p, r), Before(r, t)
  PROVE  Before(p, t)
  <1>1. /\ p.seed \in Nat /\ r.seed \in Nat /\ t.seed \in Nat
        /\ Len(p.edges) \in Nat /\ Len(r.edges) \in Nat /\ Len(t.edges) \in Nat
        /\ DOMAIN p.edges = 1..Len(p.edges) /\ DOMAIN r.edges = 1..Len(r.edges)
        /\ DOMAIN t.edges = 1..Len(t.edges)
        /\ \A i \in 1..Len(p.edges) : p.edges[i] \in Nat
        /\ \A i \in 1..Len(r.edges) : r.edges[i] \in Nat
        /\ \A i \in 1..Len(t.edges) : t.edges[i] \in Nat
    BY WalkEdges DEF IsWalk
  <1>2. CASE p.seed < r.seed \/ r.seed < t.seed
    <2>1. p.seed < t.seed
      BY <1>1, <1>2 DEF Before
    <2> QED
      BY <2>1 DEF Before
  <1>3. CASE p.seed = r.seed /\ r.seed = t.seed
             /\ (Len(p.edges) < Len(r.edges) \/ Len(r.edges) < Len(t.edges))
    <2>1. p.seed = t.seed /\ Len(p.edges) < Len(t.edges)
      BY <1>1, <1>3 DEF Before
    <2> QED
      BY <2>1 DEF Before
  <1>4. CASE p.seed = r.seed /\ r.seed = t.seed
             /\ Len(p.edges) = Len(r.edges) /\ Len(r.edges) = Len(t.edges)
    <2>0. /\ ~(p.seed < r.seed) /\ ~(Len(p.edges) < Len(r.edges))
          /\ ~(r.seed < t.seed) /\ ~(Len(r.edges) < Len(t.edges))
          /\ DOMAIN r.edges = 1..Len(p.edges)
      BY <1>1, <1>4
    <2>1. PICK i \in 1..Len(p.edges) : /\ p.edges[i] < r.edges[i]
                                       /\ \A j \in 1..(i-1) : p.edges[j] = r.edges[j]
      <3>1. \E i \in DOMAIN p.edges : /\ p.edges[i] < r.edges[i]
                                      /\ \A j \in 1..(i-1) : p.edges[j] = r.edges[j]
        BY <2>0 DEF Before
      <3> QED
        BY <1>1, <3>1
    <2>2. PICK k \in 1..Len(p.edges) : /\ r.edges[k] < t.edges[k]
                                       /\ \A j \in 1..(k-1) : r.edges[j] = t.edges[j]
      <3>1. \E k \in DOMAIN r.edges : /\ r.edges[k] < t.edges[k]
                                      /\ \A j \in 1..(k-1) : r.edges[j] = t.edges[j]
        BY <2>0 DEF Before
      <3> QED
        BY <2>0, <3>1
    <2>3. \A j \in 1..Len(p.edges) : p.edges[j] \in Nat /\ r.edges[j] \in Nat /\ t.edges[j] \in Nat
      BY <1>1, <1>4
    <2>4. CASE i < k
      <3>1. i \in 1..(k-1) /\ \A j \in 1..(i-1) : j \in 1..(k-1)
        BY <2>4
      <3>2. p.edges[i] < t.edges[i] /\ \A j \in 1..(i-1) : p.edges[j] = t.edges[j]
        BY <2>1, <2>2, <3>1
      <3> QED
        BY <1>1, <1>4, <3>2 DEF Before
    <2>5. CASE k < i
      <3>1. k \in 1..(i-1) /\ \A j \in 1..(k-1) : j \in 1..(i-1)
        BY <2>5
      <3>2. p.edges[k] < t.edges[k] /\ \A j \in 1..(k-1) : p.edges[j] = t.edges[j]
        BY <2>1, <2>2, <3>1
      <3> QED
        BY <1>1, <1>4, <3>2 DEF Before
    <2>6. CASE k = i
      <3>1. p.edges[i] < t.edges[i]
        BY <2>1, <2>2, <2>3, <2>6
      <3>2. \A j \in 1..(i-1) : p.edges[j] = t.edges[j]
        BY <2>1, <2>2, <2>6
      <3> QED
        BY <1>1, <1>4, <3>1, <3>2 DEF Before
    <2>7. i < k \/ k < i \/ k = i
      BY <1>1
    <2> QED
      BY <2>4, <2>5, <2>6, <2>7
  <1> QED
    BY <1>2, <1>3, <1>4 DEF Before

(* Any two walks are in order.                                              *)
LEMMA BeforeTotal ==
  ASSUME NEW p, NEW r, IsWalk(p), IsWalk(r)
  PROVE  Before(p, r) \/ p = r \/ Before(r, p)
  <1>1. /\ p.seed \in Nat /\ r.seed \in Nat
        /\ Len(p.edges) \in Nat /\ Len(r.edges) \in Nat
        /\ DOMAIN p.edges = 1..Len(p.edges) /\ DOMAIN r.edges = 1..Len(r.edges)
        /\ \A i \in 1..Len(p.edges) : p.edges[i] \in Nat
        /\ \A i \in 1..Len(r.edges) : r.edges[i] \in Nat
    BY WalkEdges DEF IsWalk
  <1>2. CASE p.seed # r.seed \/ Len(p.edges) # Len(r.edges)
    <2>1. p.seed < r.seed \/ r.seed < p.seed
          \/ (p.seed = r.seed /\ (Len(p.edges) < Len(r.edges) \/ Len(r.edges) < Len(p.edges)))
      BY <1>1, <1>2
    <2> QED
      BY <2>1 DEF Before
  <1>3. CASE p.seed = r.seed /\ Len(p.edges) = Len(r.edges)
    <2> DEFINE D == {i \in 1..Len(p.edges) : p.edges[i] # r.edges[i]}
    <2>1. CASE D = {}
      BY <1>3, <2>1, WalkEqual
    <2>2. CASE D # {}
      <3>1. D \in SUBSET Nat
        BY <1>1
      <3> HIDE DEF D
      <3>2. PICK i \in D : \A j \in D : i <= j
        BY <2>2, <3>1, MinExists
      <3>3. i \in 1..Len(p.edges) /\ p.edges[i] # r.edges[i]
        BY DEF D
      <3>4. ASSUME NEW j \in 1..(i-1) PROVE p.edges[j] = r.edges[j]
        <4>1. j \in 1..Len(p.edges) /\ ~(i <= j)
          BY <1>1, <3>3
        <4>2. j \notin D
          BY <3>2, <4>1
        <4> QED
          BY <4>1, <4>2 DEF D
      <3>5. p.edges[i] < r.edges[i] \/ r.edges[i] < p.edges[i]
        BY <1>1, <1>3, <3>3
      <3> QED
        BY <1>1, <1>3, <3>3, <3>4, <3>5 DEF Before
    <2> QED
      BY <2>1, <2>2
  <1> QED
    BY <1>2, <1>3

-----------------------------------------------------------------------------
(* A path and one more edge.                                                *)

(* A walk goes on by one more edge.                                         *)
LEMMA AlongWalk ==
  ASSUME NEW p, IsWalk(p), NEW e \in Nat
  PROVE  LET r == Along(p, e)
         IN  /\ IsWalk(r) /\ r.seed = p.seed /\ Len(r.edges) = Len(p.edges) + 1
             /\ \A i \in 1..Len(p.edges) : r.edges[i] = p.edges[i]
             /\ r.edges[Len(p.edges) + 1] = e /\ r.edges # <<>>
             /\ Parent(r) = p /\ Last(r.edges) = e
  <1> DEFINE r == Along(p, e)
             n == Len(p.edges)
  <1>1. p.edges \in Seq(Nat) /\ n \in Nat /\ p = [seed |-> p.seed, edges |-> p.edges] /\ p.seed \in Nat
    BY WalkEdges DEF IsWalk
  <1>2. r = [seed |-> p.seed, edges |-> Append(p.edges, e)]
    BY <1>1 DEF Along
  <1>3. /\ Append(p.edges, e) \in Seq(Nat) /\ Len(Append(p.edges, e)) = n + 1
        /\ \A i \in 1..n : Append(p.edges, e)[i] = p.edges[i]
        /\ Append(p.edges, e)[n + 1] = e
        /\ Append(p.edges, e) # <<>>
    BY <1>1, AppendProperties
  <1>4. /\ r.seed = p.seed /\ r.edges \in Seq(Nat) /\ Len(r.edges) = n + 1
        /\ \A i \in 1..n : r.edges[i] = p.edges[i]
        /\ r.edges[n + 1] = e
        /\ r.edges # <<>>
    BY <1>2, <1>3
  <1>5. IsWalk(r)
    <2>1. r.edges \in [1..Len(r.edges) -> Nat] /\ Len(r.edges) \in Nat
      BY <1>4, LenProperties
    <2>2. r = [seed |-> r.seed, edges |-> r.edges]
      BY <1>2
    <2> HIDE DEF r
    <2> QED
      BY <1>1, <1>4, <2>1, <2>2 DEF IsWalk
  <1>6. Last(r.edges) = e
    BY <1>4 DEF Last
  <1>7. Front(r.edges) = p.edges
    <2>1. (n + 1) - 1 = n /\ \A i \in 1..n : i \in 1..(n+1)
      BY <1>1
    <2>2. Front(r.edges) = SubSeq(r.edges, 1, n)
      BY <1>4, <2>1 DEF Front
    <2>3. \A i \in 1..n : r.edges[i] \in Nat
      BY <1>4, <1>1, LenProperties
    <2>4. SubSeq(r.edges, 1, n) \in Seq(Nat) /\ Len(SubSeq(r.edges, 1, n)) = n
          /\ \A i \in 1..n : SubSeq(r.edges, 1, n)[i] = r.edges[i]
      <3>1. 1 \in Int /\ n \in Int
        BY <1>1
      <3>2. (IF 1 <= n THEN n - 1 + 1 ELSE 0) = n
        BY <1>1
      <3>3. \A i \in 1..n : i \in 1..(n - 1 + 1) /\ 1 + i - 1 = i
        BY <1>1
      <3>4. /\ SubSeq(r.edges, 1, n) \in Seq(Nat)
            /\ Len(SubSeq(r.edges, 1, n)) = IF 1 <= n THEN n - 1 + 1 ELSE 0
            /\ \A i \in 1..(n - 1 + 1) : SubSeq(r.edges, 1, n)[i] = r.edges[1 + i - 1]
        BY ONLY <2>3, <3>1, SubSeqProperties
      <3> QED
        BY ONLY <3>2, <3>3, <3>4
    <2>5. SubSeq(r.edges, 1, n) = p.edges
      BY <1>1, <1>4, <2>4, SeqEqual
    <2> QED
      BY <2>2, <2>5
  <1>8. Parent(r) = p
    <2>1. Parent(r) = [seed |-> p.seed, edges |-> Front(r.edges)]
      BY <1>2 DEF Parent
    <2> QED
      BY <1>1, <1>7, <2>1
  <1> QED
    BY <1>4, <1>5, <1>6, <1>8

(* The parent of a walk has one edge less.                                  *)
LEMMA ParentWalk ==
  ASSUME NEW r, IsWalk(r), r.edges # <<>>
  PROVE  /\ IsWalk(Parent(r)) /\ Parent(r).seed = r.seed
         /\ Len(Parent(r).edges) = Len(r.edges) - 1 /\ Len(r.edges) \in Nat \ {0}
         /\ \A i \in 1..(Len(r.edges) - 1) : Parent(r).edges[i] = r.edges[i]
         /\ Last(r.edges) \in Nat /\ Last(r.edges) = r.edges[Len(r.edges)]
         /\ Along(Parent(r), Last(r.edges)) = r
  <1> DEFINE p == Parent(r)
             n == Len(r.edges)
             e == Last(r.edges)
  <1>1. r.edges \in Seq(Nat) /\ n \in Nat \ {0} /\ r = [seed |-> r.seed, edges |-> r.edges] /\ r.seed \in Nat
    BY WalkEdges DEF IsWalk
  <1>2. p = [seed |-> r.seed, edges |-> SubSeq(r.edges, 1, n - 1)]
    <2>1. Front(r.edges) = SubSeq(r.edges, 1, n - 1)
      BY DEF Front
    <2>2. p = [r EXCEPT !.edges = Front(r.edges)]
      BY DEF Parent
    <2> HIDE DEF p, n
    <2>3. [r EXCEPT !.edges = Front(r.edges)] = [seed |-> r.seed, edges |-> Front(r.edges)]
      BY <1>1
    <2> QED
      BY <2>1, <2>2, <2>3
  <1>3. /\ SubSeq(r.edges, 1, n - 1) \in Seq(Nat) /\ Len(SubSeq(r.edges, 1, n - 1)) = n - 1
        /\ \A i \in 1..(n - 1) : SubSeq(r.edges, 1, n - 1)[i] = r.edges[i]
    <2>1. \A i \in 1..(n - 1) : r.edges[i] \in Nat
      BY <1>1, LenProperties
    <2>2. 1 \in Int /\ n - 1 \in Int
      BY <1>1
    <2>3. (IF 1 <= n - 1 THEN (n - 1) - 1 + 1 ELSE 0) = n - 1
      <3>1. n \in Nat \ {0}
        BY <1>1
      <3>2. \A i \in Nat \ {0} : (IF 1 <= i - 1 THEN (i - 1) - 1 + 1 ELSE 0) = i - 1
        OBVIOUS
      <3> QED
        BY ONLY <3>1, <3>2
    <2>4. \A i \in 1..(n-1) : i \in 1..((n - 1) - 1 + 1) /\ 1 + i - 1 = i
      BY <1>1
    <2>5. /\ SubSeq(r.edges, 1, n - 1) \in Seq(Nat)
          /\ Len(SubSeq(r.edges, 1, n - 1)) = IF 1 <= n - 1 THEN (n - 1) - 1 + 1 ELSE 0
          /\ \A i \in 1..((n - 1) - 1 + 1) : SubSeq(r.edges, 1, n - 1)[i] = r.edges[1 + i - 1]
      BY ONLY <2>1, <2>2, SubSeqProperties
    <2> QED
      BY ONLY <2>3, <2>4, <2>5
  <1>4. /\ p.seed = r.seed /\ p.edges \in Seq(Nat) /\ Len(p.edges) = n - 1
        /\ \A i \in 1..(n - 1) : p.edges[i] = r.edges[i]
        /\ p = [seed |-> p.seed, edges |-> p.edges]
    BY <1>2, <1>3
  <1>5. IsWalk(p)
    <2>1. p.edges \in [1..Len(p.edges) -> Nat] /\ Len(p.edges) \in Nat
      BY <1>4, LenProperties
    <2> HIDE DEF p
    <2> QED
      BY <1>1, <1>4, <2>1 DEF IsWalk
  <1>6. e = r.edges[n] /\ e \in Nat
    <2>1. n \in 1..n
      BY <1>1
    <2>2. r.edges[n] \in Nat
      BY <1>1, <2>1, LenProperties
    <2> QED
      BY <2>2 DEF Last
  <1> HIDE DEF p, e
  <1>7. Along(p, e) = r
    <2>1. /\ IsWalk(Along(p, e)) /\ Along(p, e).seed = p.seed /\ Len(Along(p, e).edges) = Len(p.edges) + 1
          /\ \A i \in 1..Len(p.edges) : Along(p, e).edges[i] = p.edges[i]
          /\ Along(p, e).edges[Len(p.edges) + 1] = e
      BY <1>5, <1>6, AlongWalk
    <2>2. Len(Along(p, e).edges) = n /\ (n - 1) + 1 = n
      BY <1>1, <1>4, <2>1
    <2>3. \A i \in 1..n : Along(p, e).edges[i] = r.edges[i]
      <3>1. \A i \in 1..n : i \in 1..(n-1) \/ i = n
        BY <1>1
      <3> QED
        BY <1>4, <1>6, <2>1, <2>2, <3>1
    <2> QED
      BY <1>4, <2>1, <2>2, <2>3, WalkEqual
  <1> QED
    BY <1>1, <1>4, <1>5, <1>6, <1>7 DEF p, e

(* A path comes after its parent.                                           *)
LEMMA ParentBefore ==
  ASSUME NEW r, IsWalk(r), r.edges # <<>>
  PROVE  Before(Parent(r), r)
  <1>1. Parent(r).seed = r.seed /\ Len(Parent(r).edges) < Len(r.edges)
    BY ParentWalk
  <1> QED
    BY <1>1 DEF Before

(* Paths come in the order of their parents.                                *)
LEMMA ParentsInOrder ==
  ASSUME NEW p, NEW r, IsWalk(p), IsWalk(r), p.edges # <<>>, r.edges # <<>>,
         Before(Parent(p), Parent(r))
  PROVE  Before(p, r)
  <1> DEFINE a == Parent(p)
             b == Parent(r)
             m == Len(p.edges)
             n == Len(r.edges)
  <1>1. /\ IsWalk(a) /\ a.seed = p.seed /\ Len(a.edges) = m - 1 /\ m \in Nat \ {0}
        /\ \A i \in 1..(m - 1) : a.edges[i] = p.edges[i]
        /\ IsWalk(b) /\ b.seed = r.seed /\ Len(b.edges) = n - 1 /\ n \in Nat \ {0}
        /\ \A i \in 1..(n - 1) : b.edges[i] = r.edges[i]
    BY ParentWalk
  <1>2. DOMAIN p.edges = 1..m /\ DOMAIN a.edges = 1..(m - 1)
    BY <1>1, WalkEdges
  <1> HIDE DEF a, b
  <1>3. CASE a.seed < b.seed
    BY <1>1, <1>3 DEF Before
  <1>4. CASE a.seed = b.seed /\ Len(a.edges) < Len(b.edges)
    <2>1. p.seed = r.seed /\ m < n
      BY <1>1, <1>4
    <2> QED
      BY <2>1 DEF Before
  <1>5. CASE /\ a.seed = b.seed /\ Len(a.edges) = Len(b.edges)
             /\ \E i \in DOMAIN a.edges : /\ a.edges[i] < b.edges[i]
                                          /\ \A j \in 1..(i-1) : a.edges[j] = b.edges[j]
    <2>1. PICK i \in DOMAIN a.edges : /\ a.edges[i] < b.edges[i]
                                      /\ \A j \in 1..(i-1) : a.edges[j] = b.edges[j]
      BY <1>5
    <2>2. m = n /\ i \in 1..(m-1) /\ i \in 1..m /\ \A j \in 1..(i-1) : j \in 1..(m-1)
      BY <1>1, <1>2, <1>5, <2>1
    <2>3. p.edges[i] < r.edges[i] /\ \A j \in 1..(i-1) : p.edges[j] = r.edges[j]
      BY <1>1, <2>1, <2>2
    <2> QED
      BY <1>1, <1>2, <1>5, <2>2, <2>3 DEF Before
  <1>6. \/ a.seed < b.seed
        \/ a.seed = b.seed /\ Len(a.edges) < Len(b.edges)
        \/ /\ a.seed = b.seed /\ Len(a.edges) = Len(b.edges)
           /\ \E i \in DOMAIN a.edges : /\ a.edges[i] < b.edges[i]
                                        /\ \A j \in 1..(i-1) : a.edges[j] = b.edges[j]
    BY DEF Before, a, b
  <1> QED
    BY <1>3, <1>4, <1>5, <1>6

(* Paths of one parent come in the order of their last edges.               *)
LEMMA SiblingsInOrder ==
  ASSUME NEW p, NEW r, IsWalk(p), IsWalk(r), p.edges # <<>>, r.edges # <<>>,
         Parent(p) = Parent(r), Last(p.edges) < Last(r.edges)
  PROVE  Before(p, r)
  <1> DEFINE n == Len(p.edges)
  <1>1. /\ p.seed = r.seed /\ Len(r.edges) = n /\ n \in Nat \ {0}
        /\ \A i \in 1..(n - 1) : p.edges[i] = r.edges[i]
        /\ p.edges[n] < r.edges[n]
    <2>1. /\ Parent(p).seed = p.seed /\ Len(Parent(p).edges) = n - 1 /\ n \in Nat \ {0}
          /\ \A i \in 1..(n - 1) : Parent(p).edges[i] = p.edges[i]
          /\ Last(p.edges) = p.edges[n]
      BY ParentWalk
    <2>2. /\ Parent(r).seed = r.seed /\ Len(Parent(r).edges) = Len(r.edges) - 1 /\ Len(r.edges) \in Nat \ {0}
          /\ \A i \in 1..(Len(r.edges) - 1) : Parent(r).edges[i] = r.edges[i]
          /\ Last(r.edges) = r.edges[Len(r.edges)]
      BY ParentWalk
    <2>3. Len(r.edges) = n
      BY <2>1, <2>2
    <2> QED
      BY <2>1, <2>2, <2>3
  <1>2. DOMAIN p.edges = 1..n /\ n \in 1..n
    BY <1>1, WalkEdges
  <1> QED
    BY <1>1, <1>2 DEF Before

-----------------------------------------------------------------------------
(* The paths of a query.                                                    *)

(* The parts of a query that the other lemmas use.                          *)
LEMMA QueryFacts ==
  ASSUME IsQuery(q)
  PROVE  /\ IsFiniteSet(DOMAIN q.verdict) /\ DOMAIN q.verdict \subseteq Nat \ {0}
         /\ DOMAIN q.verdict \subseteq DOMAIN Rank
         /\ IsFiniteSet(DOMAIN q.edges) /\ DOMAIN q.edges \subseteq Nat
         /\ DOMAIN q.edges = 1..Len(q.edges) /\ Len(q.edges) \in Nat
         /\ \A e \in DOMAIN q.edges : Source(q, e) \in DOMAIN q.verdict /\ Target(q, e) \in DOMAIN q.verdict
                                      /\ q.edges[e].cost \in Int
         /\ SeedSet(q) \subseteq DOMAIN q.verdict /\ IsFiniteSet(SeedSet(q)) /\ SeedSet(q) \subseteq Nat \ {0}
         /\ MaxEdges(q) \in Nat /\ q.mode \in Modes
  <1>1. DOMAIN q.edges = 1..Len(q.edges) /\ Len(q.edges) \in Nat
    BY DEF IsQuery
  <1>2. IsFiniteSet(DOMAIN q.edges) /\ DOMAIN q.edges \subseteq Nat
    BY <1>1, FS_Interval
  <1>3. \A e \in DOMAIN q.edges : Source(q, e) \in DOMAIN q.verdict /\ Target(q, e) \in DOMAIN q.verdict
                                  /\ q.edges[e].cost \in Int
    BY DEF IsQuery, Source, Target
  <1>4. IsFiniteSet(DOMAIN q.verdict) /\ DOMAIN q.verdict \subseteq Nat \ {0}
        /\ DOMAIN q.verdict \subseteq DOMAIN Rank
    BY DEF IsQuery
  <1>5. SeedSet(q) \subseteq DOMAIN q.verdict
    BY DEF SeedSet
  <1>6. IsFiniteSet(SeedSet(q))
    BY <1>4, <1>5, FS_Subset
  <1>7. MaxEdges(q) \in Nat /\ q.mode \in Modes
    BY DEF IsQuery, MaxEdges, Modes
  <1> QED
    BY <1>1, <1>2, <1>3, <1>4, <1>5, <1>6, <1>7

(* A walk over the edges of the query.                                      *)
InGraph(p) ==
  /\ IsWalk(p) /\ p.seed \in DOMAIN q.verdict
  /\ \A i \in 1..Len(p.edges) : p.edges[i] \in DOMAIN q.edges

(* The empty walk from a visible node.                                      *)
LEMMA StartInGraph ==
  ASSUME IsQuery(q), NEW n \in DOMAIN q.verdict
  PROVE  InGraph(Start(n))
  <1>1. n \in Nat
    BY QueryFacts
  <1>2. IsWalk(Start(n)) /\ Start(n).seed = n /\ Len(Start(n).edges) = 0
    BY <1>1, StartWalk
  <1> QED
    BY <1>2 DEF InGraph

(* The nodes along a walk of the graph.                                     *)
LEMMA NodesFacts ==
  ASSUME IsQuery(q), NEW p, InGraph(p)
  PROVE  LET nodes == NodesOf(q, p)
         IN  /\ nodes \in Seq(DOMAIN q.verdict) /\ Len(nodes) = Len(p.edges) + 1
             /\ DOMAIN nodes = 1..(Len(p.edges) + 1)
             /\ nodes[1] = p.seed
             /\ \A i \in 1..Len(p.edges) : nodes[i + 1] = Target(q, p.edges[i])
             /\ EndOf(q, p) = nodes[Len(p.edges) + 1]
             /\ EndOf(q, p) \in DOMAIN q.verdict
             /\ nodes # <<>>
  <1> DEFINE n == Len(p.edges)
             V == DOMAIN q.verdict
             s == <<p.seed>>
             t == [i \in 1..n |-> Target(q, p.edges[i])]
  <1>1. n \in Nat /\ DOMAIN p.edges = 1..n
    BY WalkEdges DEF InGraph, IsWalk
  <1>2. \A i \in 1..n : Target(q, p.edges[i]) \in V
    BY QueryFacts DEF InGraph
  <1>3. t \in [1..n -> V]
    BY <1>2
  <1> HIDE DEF n
  <1>4. t \in Seq(V) /\ Len(t) = n
    BY <1>1, <1>3, LenDomain
  <1>5. s \in Seq(V) /\ Len(s) = 1 /\ s[1] = p.seed
    <2>1. p.seed \in V
      BY DEF InGraph
    <2>2. \A S : \A x \in S : <<x>> \in Seq(S) /\ Len(<<x>>) = 1 /\ <<x>>[1] = x
      OBVIOUS
    <2> QED
      BY <2>1, <2>2
  <1>6. NodesOf(q, p) = s \o t
    BY <1>1 DEF NodesOf
  <1> HIDE DEF s, t
  <1>7. /\ s \o t \in Seq(V) /\ Len(s \o t) = 1 + n
        /\ \A i \in 1..(1 + n) : (s \o t)[i] = IF i <= 1 THEN s[i] ELSE t[i - 1]
    <2>1. /\ s \o t \in Seq(V) /\ Len(s \o t) = Len(s) + Len(t)
          /\ \A i \in 1..(Len(s) + Len(t)) : (s \o t)[i] = IF i <= Len(s) THEN s[i] ELSE t[i - Len(s)]
      BY <1>4, <1>5, ConcatProperties
    <2> QED
      BY <1>4, <1>5, <2>1
  <1>8. (s \o t)[1] = p.seed
    BY <1>1, <1>5, <1>7
  <1>9. ASSUME NEW i \in 1..n PROVE (s \o t)[i + 1] = Target(q, p.edges[i])
    <2>1. i + 1 \in 1..(1 + n) /\ ~(i + 1 <= 1) /\ (i + 1) - 1 = i
      BY <1>1
    <2>2. (s \o t)[i + 1] = t[i]
      BY <1>7, <2>1
    <2> QED
      BY <2>2 DEF t
  <1>10. DOMAIN (s \o t) = 1..(1 + n) /\ 1 + n = n + 1 /\ n + 1 \in 1..(1 + n) /\ (s \o t)[n + 1] \in V
    <2>1. DOMAIN (s \o t) = 1..(1 + n) /\ \A i \in 1..(1 + n) : (s \o t)[i] \in V
      BY <1>7, LenProperties
    <2>2. 1 + n = n + 1 /\ n + 1 \in 1..(1 + n)
      BY <1>1
    <2> QED
      BY <2>1, <2>2
  <1>11. EndOf(q, p) = (s \o t)[n + 1]
    BY <1>6, <1>7, <1>10 DEF EndOf, Last
  <1>12. s \o t # <<>>
    BY <1>1, <1>7
  <1> QED
    BY <1>6, <1>7, <1>8, <1>9, <1>10, <1>11, <1>12 DEF n

(* A path of the query is one in its graph.                                 *)
LEMMA PathFacts ==
  ASSUME IsQuery(q), NEW p \in Paths(q)
  PROVE  /\ InGraph(p) /\ IsWalk(p) /\ IsPath(q, p)
         /\ p.seed \in SeedSet(q) /\ p.seed \in Nat \ {0}
         /\ Len(p.edges) \in Nat /\ Len(p.edges) <= MaxEdges(q)
  <1>1. p \in [seed : SeedSet(q), edges : UNION {[1..n -> DOMAIN q.edges] : n \in 0..MaxEdges(q)}]
        /\ IsPath(q, p)
    BY DEF Paths
  <1>2. p.seed \in SeedSet(q) /\ p = [seed |-> p.seed, edges |-> p.edges]
    BY <1>1
  <1>3. p.seed \in Nat \ {0} /\ p.seed \in DOMAIN q.verdict
    BY <1>2, QueryFacts
  <1>4. PICK n \in 0..MaxEdges(q) : p.edges \in [1..n -> DOMAIN q.edges]
    BY <1>1
  <1>5. n \in Nat /\ n <= MaxEdges(q)
    BY QueryFacts
  <1>6. Len(p.edges) = n
    BY <1>4, <1>5, LenDomain
  <1>7. \A i \in 1..n : p.edges[i] \in DOMAIN q.edges /\ p.edges[i] \in Nat
    BY <1>4, QueryFacts
  <1>8. IsWalk(p)
    BY <1>2, <1>3, <1>4, <1>5, <1>6, <1>7 DEF IsWalk
  <1> QED
    BY <1>1, <1>2, <1>3, <1>5, <1>6, <1>7, <1>8 DEF InGraph

(* And the other way round.                                                 *)
LEMMA PathIntro ==
  ASSUME IsQuery(q), NEW p, InGraph(p), p.seed \in SeedSet(q), Len(p.edges) <= MaxEdges(q), IsPath(q, p)
  PROVE  p \in Paths(q)
  <1> DEFINE n == Len(p.edges)
  <1>1. n \in 0..MaxEdges(q)
    BY QueryFacts DEF InGraph, IsWalk
  <1>2. p.edges = [i \in 1..n |-> p.edges[i]] /\ p = [seed |-> p.seed, edges |-> p.edges]
    BY DEF InGraph, IsWalk
  <1>3. \A i \in 1..n : p.edges[i] \in DOMAIN q.edges
    BY DEF InGraph
  <1> HIDE DEF n
  <1>4. p.edges \in [1..n -> DOMAIN q.edges]
    BY <1>2, <1>3
  <1>5. p.edges \in UNION {[1..m -> DOMAIN q.edges] : m \in 0..MaxEdges(q)}
    BY <1>1, <1>4
  <1>6. p \in [seed : SeedSet(q), edges : UNION {[1..m -> DOMAIN q.edges] : m \in 0..MaxEdges(q)}]
    BY <1>2, <1>5
  <1> QED
    BY <1>6 DEF Paths

\* The edges that lead on from a path.
Onward(p) == {e \in DOMAIN q.edges : Len(p.edges) < MaxEdges(q) /\ Source(q, e) = EndOf(q, p)}

-----------------------------------------------------------------------------
(* One more edge leads to one more node.                                    *)
LEMMA NodesAlong ==
  ASSUME IsQuery(q), NEW p, InGraph(p), NEW e \in DOMAIN q.edges
  PROVE  LET r == Along(p, e)
             n == Len(p.edges)
         IN  /\ InGraph(r) /\ IsWalk(r) /\ r.seed = p.seed /\ Len(r.edges) = n + 1 /\ n \in Nat
             /\ \A i \in 1..n : r.edges[i] = p.edges[i]
             /\ r.edges[n + 1] = e
             /\ \A i \in 1..(n + 1) : NodesOf(q, r)[i] = NodesOf(q, p)[i]
             /\ NodesOf(q, r)[n + 2] = Target(q, e)
             /\ DOMAIN NodesOf(q, p) = 1..(n + 1) /\ DOMAIN NodesOf(q, r) = 1..(n + 2)
             /\ EndOf(q, p) = NodesOf(q, p)[n + 1]
  <1> DEFINE r == Along(p, e)
             n == Len(p.edges)
             N == NodesOf(q, p)
             M == NodesOf(q, r)
  <1>1. IsWalk(p) /\ e \in Nat /\ n \in Nat
    BY QueryFacts DEF InGraph, IsWalk
  <1>2. /\ IsWalk(r) /\ r.seed = p.seed /\ Len(r.edges) = n + 1
        /\ \A i \in 1..n : r.edges[i] = p.edges[i]
        /\ r.edges[n + 1] = e
    BY <1>1, AlongWalk
  <1> HIDE DEF r
  <1>3. \A i \in 1..(n + 1) : i \in 1..n \/ i = n + 1
    BY <1>1
  <1>4. InGraph(r)
    <2>1. \A i \in 1..(n + 1) : r.edges[i] \in DOMAIN q.edges
      BY <1>2, <1>3 DEF InGraph
    <2> QED
      BY <1>2, <2>1 DEF InGraph
  <1>5. /\ DOMAIN N = 1..(n + 1) /\ N[1] = p.seed /\ \A i \in 1..n : N[i + 1] = Target(q, p.edges[i])
        /\ EndOf(q, p) = N[n + 1]
    BY NodesFacts
  <1>6. /\ DOMAIN M = 1..(Len(r.edges) + 1) /\ M[1] = r.seed
        /\ \A i \in 1..Len(r.edges) : M[i + 1] = Target(q, r.edges[i])
    BY <1>4, NodesFacts
  <1> HIDE DEF N, M
  <1>7. DOMAIN M = 1..(n + 2) /\ \A i \in 1..(n + 1) : M[i + 1] = Target(q, r.edges[i])
    <2>1. (n + 1) + 1 = n + 2
      BY <1>1
    <2> QED
      BY <1>2, <1>6, <2>1
  <1>8. ASSUME NEW i \in 1..(n + 1) PROVE M[i] = N[i]
    <2>1. CASE i = 1
      BY <1>2, <1>5, <1>6, <2>1
    <2>2. CASE i # 1
      <3>1. i - 1 \in 1..n /\ i - 1 \in 1..(n + 1) /\ (i - 1) + 1 = i
        BY <1>1, <2>2
      <3>2. M[(i - 1) + 1] = Target(q, r.edges[i - 1]) /\ N[(i - 1) + 1] = Target(q, p.edges[i - 1])
        BY <1>5, <1>7, <3>1
      <3> QED
        BY <1>2, <3>1, <3>2
    <2> QED
      BY <2>1, <2>2
  <1>9. M[n + 2] = Target(q, e)
    <2>1. n + 1 \in 1..(n + 1) /\ (n + 1) + 1 = n + 2
      BY <1>1
    <2>2. M[(n + 1) + 1] = Target(q, r.edges[n + 1])
      BY <1>7, <2>1
    <2> QED
      BY <1>2, <2>1, <2>2
  <1> QED
    BY <1>1, <1>2, <1>4, <1>5, <1>7, <1>8, <1>9 DEF N, M, r

(* A path and an edge that leads on, and not back to it, are a path.        *)
LEMMA AlongPath ==
  ASSUME IsQuery(q), NEW p \in Paths(q), NEW e \in Onward(p)
  PROVE  Along(p, e) \in Paths(q)
         <=> (q.mode = "path" => Target(q, e) \notin ToSet(NodesOf(q, p)))
  <1> DEFINE r == Along(p, e)
             n == Len(p.edges)
             N == NodesOf(q, p)
             M == NodesOf(q, r)
             P == q.mode = "path"
  <1>1. InGraph(p) /\ p.seed \in SeedSet(q) /\ IsPath(q, p) /\ n \in Nat
    BY PathFacts
  <1>2. e \in DOMAIN q.edges /\ n < MaxEdges(q) /\ Source(q, e) = EndOf(q, p)
    BY DEF Onward
  <1>3. /\ InGraph(r) /\ IsWalk(r) /\ r.seed = p.seed /\ Len(r.edges) = n + 1
        /\ \A i \in 1..n : r.edges[i] = p.edges[i]
        /\ r.edges[n + 1] = e
        /\ \A i \in 1..(n + 1) : M[i] = N[i]
        /\ M[n + 2] = Target(q, e)
        /\ DOMAIN N = 1..(n + 1) /\ DOMAIN M = 1..(n + 2)
        /\ EndOf(q, p) = N[n + 1]
    BY <1>1, <1>2, NodesAlong
  <1>4. DOMAIN p.edges = 1..n /\ DOMAIN r.edges = 1..(n + 1)
    BY <1>1, <1>3, WalkEdges DEF InGraph
  <1> HIDE DEF r, n
  <1>5. /\ \A i \in 1..n : Source(q, p.edges[i]) = N[i]
        /\ P => \A i, j \in 1..(n + 1) : N[i] = N[j] => i = j
    BY <1>1, <1>3, <1>4 DEF IsPath
  <1>6. r \in Paths(q) <=> IsPath(q, r)
    <2>1. Len(r.edges) <= MaxEdges(q)
      BY <1>1, <1>2, <1>3, QueryFacts
    <2> QED
      BY <1>1, <1>3, <2>1, PathIntro, PathFacts
  <1>7. IsPath(q, r) <=> /\ \A i \in 1..(n + 1) : Source(q, r.edges[i]) = M[i]
                         /\ P => \A i, j \in 1..(n + 2) : M[i] = M[j] => i = j
    BY <1>3, <1>4 DEF IsPath
  <1> HIDE DEF N, M, P
  <1>8. ASSUME NEW i \in 1..(n + 1) PROVE Source(q, r.edges[i]) = M[i]
    <2>1. i \in 1..n \/ i = n + 1
      BY <1>1
    <2>2. CASE i \in 1..n
      BY <1>3, <1>5, <2>2
    <2>3. CASE i = n + 1
      BY <1>2, <1>3, <2>3
    <2> QED
      BY <2>1, <2>2, <2>3
  <1>9. Target(q, e) \in ToSet(N) <=> \E i \in 1..(n + 1) : N[i] = M[n + 2]
    BY <1>3 DEF ToSet
  <1>10. ASSUME P, Target(q, e) \in ToSet(N) PROVE ~ \A i, j \in 1..(n + 2) : M[i] = M[j] => i = j
    <2>1. PICK i \in 1..(n + 1) : N[i] = M[n + 2]
      BY <1>9, <1>10
    <2>2. i \in 1..(n + 2) /\ n + 2 \in 1..(n + 2) /\ i # n + 2
      BY <1>1
    <2> QED
      BY <1>3, <2>1, <2>2
  <1>11. ASSUME P, Target(q, e) \notin ToSet(N), NEW i \in 1..(n + 2), NEW j \in 1..(n + 2), M[i] = M[j]
         PROVE  i = j
    <2>1. (i \in 1..(n + 1) \/ i = n + 2) /\ (j \in 1..(n + 1) \/ j = n + 2)
      BY <1>1
    <2>2. CASE i \in 1..(n + 1) /\ j \in 1..(n + 1)
      BY <1>3, <1>5, <1>11, <2>2
    <2>3. CASE i \in 1..(n + 1) /\ j = n + 2
      BY <1>3, <1>9, <1>11, <2>3
    <2>4. CASE i = n + 2 /\ j \in 1..(n + 1)
      BY <1>3, <1>9, <1>11, <2>4
    <2> QED
      BY <2>1, <2>2, <2>3, <2>4
  <1> QED
    BY <1>6, <1>7, <1>8, <1>10, <1>11 DEF r, P, N

(* Every row has a parent that is a path, and an edge that leads on from it. *)
LEMMA ParentPath ==
  ASSUME IsQuery(q), NEW r \in Paths(q), r.edges # <<>>
  PROVE  /\ Parent(r) \in Paths(q) /\ Last(r.edges) \in Onward(Parent(r))
         /\ Along(Parent(r), Last(r.edges)) = r
  <1> DEFINE p == Parent(r)
             e == Last(r.edges)
             n == Len(p.edges)
             N == NodesOf(q, p)
             M == NodesOf(q, r)
  <1>1. InGraph(r) /\ IsWalk(r) /\ r.seed \in SeedSet(q) /\ IsPath(q, r) /\ Len(r.edges) <= MaxEdges(q)
    BY PathFacts
  <1>2. /\ IsWalk(p) /\ p.seed = r.seed
        /\ Len(p.edges) = Len(r.edges) - 1 /\ Len(r.edges) \in Nat \ {0}
        /\ \A i \in 1..(Len(r.edges) - 1) : p.edges[i] = r.edges[i]
        /\ e \in Nat /\ e = r.edges[Len(r.edges)]
        /\ Along(p, e) = r
    BY <1>1, ParentWalk
  <1> HIDE DEF p, e
  <1>3. n \in Nat /\ Len(r.edges) = n + 1 /\ Len(r.edges) - 1 = n
    BY <1>2
  <1>4. InGraph(p) /\ e \in DOMAIN q.edges
    <2>1. n + 1 \in 1..(n + 1) /\ \A i \in 1..n : i \in 1..(n + 1)
      BY <1>3
    <2>2. \A i \in 1..(n + 1) : r.edges[i] \in DOMAIN q.edges
      BY <1>1, <1>3 DEF InGraph
    <2>3. p.seed \in DOMAIN q.verdict
      BY <1>1, <1>2 DEF InGraph
    <2>4. \A i \in 1..n : p.edges[i] \in DOMAIN q.edges
      BY <1>2, <1>3, <2>1, <2>2
    <2> QED
      BY <1>2, <1>3, <2>1, <2>2, <2>3, <2>4 DEF InGraph
  <1>5. /\ \A i \in 1..(n + 1) : M[i] = N[i]
        /\ DOMAIN N = 1..(n + 1) /\ DOMAIN M = 1..(n + 2)
        /\ EndOf(q, p) = N[n + 1]
    BY <1>2, <1>4, NodesAlong
  <1>6. DOMAIN r.edges = 1..(n + 1) /\ DOMAIN p.edges = 1..n
    BY <1>1, <1>2, <1>3, WalkEdges
  <1>7. /\ \A i \in 1..(n + 1) : Source(q, r.edges[i]) = M[i]
        /\ q.mode = "path" => \A i, j \in 1..(n + 2) : M[i] = M[j] => i = j
    BY <1>1, <1>5, <1>6 DEF IsPath
  <1> HIDE DEF n, N, M
  <1>8. IsPath(q, p)
    <2>1. \A i \in 1..n : i \in 1..(n + 1)
      BY <1>3
    <2>2. \A i \in 1..(n + 1) : i \in 1..(n + 2)
      BY <1>3
    <2>3. \A i \in 1..n : Source(q, p.edges[i]) = N[i]
      BY <1>2, <1>3, <1>5, <1>7, <2>1
    <2>4. q.mode = "path" => \A i, j \in 1..(n + 1) : N[i] = N[j] => i = j
      BY <1>5, <1>7, <2>2
    <2> QED
      BY <1>5, <1>6, <2>3, <2>4 DEF IsPath, N
  <1>9. p \in Paths(q)
    <2>1. n <= MaxEdges(q)
      BY <1>1, <1>3, QueryFacts
    <2> QED
      BY <1>1, <1>2, <1>4, <1>8, <2>1, PathIntro DEF n
  <1>10. e \in Onward(p)
    <2>1. n < MaxEdges(q) /\ n + 1 \in 1..(n + 1)
      BY <1>1, <1>3, QueryFacts
    <2>2. Source(q, e) = EndOf(q, p)
      BY <1>2, <1>3, <1>5, <1>7, <2>1
    <2> QED
      BY <1>4, <2>1, <2>2 DEF Onward, n
  <1> QED
    BY <1>2, <1>9, <1>10 DEF p, e

PathOrder == {l \in Paths(q) \X Paths(q) : Before(l[1], l[2])}

-----------------------------------------------------------------------------
(* What there is to find.                                                   *)
LEMMA StartPath ==
  ASSUME IsQuery(q), NEW s \in SeedSet(q)
  PROVE  /\ Start(s) \in Paths(q) /\ Start(s) \in Expanded(q) /\ Start(s).seed = s
         /\ Start(s).edges = <<>> /\ Len(Start(s).edges) = 0
  <1>1. s \in DOMAIN q.verdict /\ s \in Nat
    BY QueryFacts
  <1>2. InGraph(Start(s))
    BY <1>1, StartInGraph
  <1>3. Start(s).seed = s /\ Start(s).edges = <<>> /\ Len(Start(s).edges) = 0
    BY <1>1, StartWalk
  <1>4. DOMAIN NodesOf(q, Start(s)) = 1..1 /\ DOMAIN Start(s).edges = {}
    <2>1. DOMAIN NodesOf(q, Start(s)) = 1..(0 + 1)
      BY <1>2, <1>3, NodesFacts
    <2> QED
      BY <1>3, <2>1
  <1>5. IsPath(q, Start(s))
    <2>1. \A i, j \in 1..1 : i = j
      OBVIOUS
    <2> QED
      BY <1>4, <2>1 DEF IsPath
  <1>6. Start(s) \in Paths(q)
    BY <1>2, <1>3, <1>5, PathIntro, QueryFacts
  <1> QED
    BY <1>3, <1>6 DEF Expanded

(* A query has finitely many paths.                                         *)
LEMMA PathsFinite ==
  ASSUME IsQuery(q)
  PROVE  /\ IsFiniteSet(Paths(q)) /\ IsFiniteSet(Expanded(q))
         /\ IsFiniteSet(Looked(q)) /\ IsFiniteSet(AllRows(q))
  <1> DEFINE S == SeedSet(q)
             M == MaxEdges(q)
             D == DOMAIN q.edges
             W == {[1..n -> D] : n \in 0..M}
             U == UNION W
             P == [seed : S, edges : U]
  <1>1. IsFiniteSet(S) /\ M \in Nat /\ IsFiniteSet(D)
    BY QueryFacts
  <1> HIDE DEF S, M, D
  <1>2. IsFiniteSet(W)
    <2> DEFINE f == [n \in 0..M |-> [1..n -> D]]
    <2>1. f \in Surjection(0..M, W)
      BY DEF Surjection
    <2>2. IsFiniteSet(0..M)
      BY <1>1, FS_Interval
    <2> QED
      BY <2>1, <2>2, FS_Surjection
  <1>3. \A T \in W : IsFiniteSet(T)
    <2>1. \A n \in 0..M : n \in Nat
      BY <1>1
    <2> QED
      BY <1>1, <2>1, WordsFinite
  <1>4. IsFiniteSet(U)
    BY <1>2, <1>3, FS_UNION
  <1> HIDE DEF U, W
  <1>5. IsFiniteSet(S \X U)
    BY <1>1, <1>4, FS_Product
  <1>6. IsFiniteSet(P)
    <2> DEFINE f == [p \in P |-> <<p.seed, p.edges>>]
    <2>1. f \in [P -> S \X U]
      OBVIOUS
    <2>2. \A p, r \in P : f[p] = f[r] => p = r
      OBVIOUS
    <2>3. f \in Injection(P, S \X U)
      BY <2>1, <2>2 DEF Injection, IsInjective
    <2> QED
      BY <1>5, <2>3, FS_Injection
  <1>7. Paths(q) \subseteq P
    BY DEF Paths, P, S, U, W, M, D
  <1>8. IsFiniteSet(Paths(q))
    BY <1>6, <1>7, FS_Subset
  <1>9. IsFiniteSet(Expanded(q)) /\ IsFiniteSet(AllRows(q))
    BY <1>8, FS_Subset DEF Expanded, AllRows
  <1>10. IsFiniteSet(Looked(q))
    <2>1. IsFiniteSet(Expanded(q) \X DOMAIN q.edges)
      BY <1>1, <1>9, FS_Product DEF D
    <2>2. Looked(q) \subseteq Expanded(q) \X DOMAIN q.edges
      BY DEF Looked
    <2> QED
      BY <2>1, <2>2, FS_Subset
  <1> QED
    BY <1>8, <1>9, <1>10

(* No path comes before itself.                                             *)
LEMMA PathOrderStrict ==
  ASSUME IsQuery(q)
  PROVE  \A x : <<x, x>> \notin PathOrder
  BY PathFacts, BeforeStrict DEF PathOrder

(* An expanded path, and the edges at its end.                              *)
LEMMA ExpandedFacts ==
  ASSUME IsQuery(q), NEW c \in Expanded(q)
  PROVE  /\ c \in Paths(q) /\ IsWalk(c) /\ c.seed \in SeedSet(q) /\ c.seed \in Nat \ {0}
         /\ Onward(c) = {e \in DOMAIN q.edges : <<c, e>> \in Looked(q)}
  <1>1. c \in Paths(q)
    BY DEF Expanded
  <1>2. Onward(c) = {e \in DOMAIN q.edges : <<c, e>> \in Looked(q)}
    BY DEF Onward, Looked
  <1> QED
    BY <1>1, <1>2, PathFacts

(* A row of a search comes from a path that is expanded, by an edge that    *)
(* leads on.                                                                *)
LEMMA RowFacts ==
  ASSUME IsQuery(q), q.mode # "scan", NEW r \in AllRows(q)
  PROVE  /\ r \in Paths(q) /\ IsWalk(r) /\ r.edges # <<>> /\ r.seed \in SeedSet(q)
         /\ Parent(r) \in Expanded(q) /\ Parent(r) \in Paths(q) /\ IsWalk(Parent(r))
         /\ Parent(r).seed = r.seed
         /\ Last(r.edges) \in Onward(Parent(r)) /\ Last(r.edges) \in Nat
         /\ Along(Parent(r), Last(r.edges)) = r
         /\ Before(Parent(r), r)
  <1>1. r \in Paths(q) /\ r.edges # <<>>
    BY DEF AllRows
  <1>2. IsWalk(r) /\ r.seed \in SeedSet(q) /\ Len(r.edges) <= MaxEdges(q)
    BY <1>1, PathFacts
  <1>3. Parent(r) \in Paths(q) /\ Last(r.edges) \in Onward(Parent(r)) /\ Along(Parent(r), Last(r.edges)) = r
    BY <1>1, ParentPath
  <1>4. /\ IsWalk(Parent(r)) /\ Parent(r).seed = r.seed
        /\ Len(Parent(r).edges) = Len(r.edges) - 1 /\ Len(r.edges) \in Nat \ {0}
        /\ Last(r.edges) \in Nat
    BY <1>1, <1>2, ParentWalk
  <1>5. Parent(r) \in Expanded(q)
    <2>1. CASE q.mode = "path"
      BY <1>3, <2>1 DEF Expanded
    <2>2. CASE q.mode # "path"
      <3>1. MaxEdges(q) = 1
        BY <2>2, QueryFacts DEF MaxEdges, Modes
      <3>2. Len(Parent(r).edges) = 0
        <4>1. Len(r.edges) <= 1
          BY <1>2, <3>1
        <4>2. \A n \in Nat \ {0} : n <= 1 => n - 1 = 0
          OBVIOUS
        <4> QED
          BY <1>4, <4>1, <4>2
      <3>3. Parent(r).edges = <<>>
        BY <1>4, <3>2, WalkEdges
      <3> QED
        BY <1>3, <3>3 DEF Expanded
    <2> QED
      BY <2>1, <2>2
  <1>6. Before(Parent(r), r)
    BY <1>1, <1>2, ParentBefore
  <1> QED
    BY <1>1, <1>2, <1>3, <1>4, <1>5, <1>6

(* The row an edge leads to, if the search does not skip it.                *)
LEMMA RowAlong ==
  ASSUME IsQuery(q), q.mode # "scan", NEW c \in Expanded(q), NEW e \in Onward(c)
  PROVE  LET r == Along(c, e)
         IN  /\ IsWalk(r) /\ r.seed = c.seed /\ Parent(r) = c /\ Last(r.edges) = e
             /\ Before(c, r)
             /\ r \in AllRows(q) <=> (q.mode = "path" => Target(q, e) \notin ToSet(NodesOf(q, c)))
             /\ \A x \in AllRows(q) : x = r <=> Parent(x) = c /\ Last(x.edges) = e
  <1>1. c \in Paths(q) /\ IsWalk(c)
    BY ExpandedFacts
  <1>2. e \in Nat
    BY QueryFacts DEF Onward
  <1> DEFINE r == Along(c, e)
  <1>3. IsWalk(r) /\ r.seed = c.seed /\ Parent(r) = c /\ Last(r.edges) = e /\ r.edges # <<>>
    BY <1>1, <1>2, AlongWalk
  <1>4. r \in Paths(q) <=> (q.mode = "path" => Target(q, e) \notin ToSet(NodesOf(q, c)))
    BY <1>1, AlongPath
  <1>5. r \in AllRows(q) <=> r \in Paths(q)
    BY <1>3 DEF AllRows
  <1>6. Before(c, r)
    BY <1>3, ParentBefore
  <1>7. \A x \in AllRows(q) : Parent(x) = c /\ Last(x.edges) = e => x = r
    BY RowFacts
  <1> QED
    BY <1>3, <1>4, <1>5, <1>6, <1>7

(* A scan finds the seeds.                                                  *)
LEMMA ScanRows ==
  ASSUME IsQuery(q), q.mode = "scan"
  PROVE  AllRows(q) = {Start(s) : s \in SeedSet(q)}
  <1>1. AllRows(q) = Paths(q)
    BY DEF AllRows
  <1>2. ASSUME NEW p \in Paths(q) PROVE p.seed \in SeedSet(q) /\ p = Start(p.seed)
    <2>1. IsWalk(p) /\ p.seed \in SeedSet(q) /\ p.seed \in Nat /\ Len(p.edges) \in Nat /\ Len(p.edges) <= 0
      BY PathFacts DEF MaxEdges
    <2>2. p.edges = <<>>
      <3>1. Len(p.edges) = 0
        BY <2>1
      <3> QED
        BY <2>1, <3>1, WalkEdges
    <2> QED
      BY <2>1, <2>2 DEF IsWalk, Start
  <1> QED
    BY <1>1, <1>2, StartPath

\* What is expanded, looked at and found when the current path of a partition
\* with the seeds S is c and the edges in A are still to be looked at.
ExpandedTo(S, c)   == {p \in Expanded(q) : p.seed \in S /\ ~Before(c, p)}
LookedTo(S, c, A)  == {l \in Looked(q) : /\ l[1].seed \in S
                                         /\ Before(l[1], c) \/ (l[1] = c /\ l[2] \notin A)}
FoundTo(S, c, A)   == {r \in AllRows(q) :
                         /\ r.seed \in S
                         /\ Before(Parent(r), c) \/ (Parent(r) = c /\ Last(r.edges) \notin A)}

\* Those found that are not expanded yet.
Ahead(S, c, A) == {r \in FoundTo(S, c, A) : Before(c, r)}

\* The search for the seeds S is at the path c, or before the first one.
At(S, c) == /\ S \subseteq SeedSet(q)
            /\ c = Start(0) \/ (c \in Expanded(q) /\ c.seed \in S)

-----------------------------------------------------------------------------
(* Where a search is.                                                       *)
LEMMA AtFacts ==
  ASSUME IsQuery(q), NEW S, NEW c, At(S, c)
  PROVE  /\ IsWalk(c) /\ c.seed \in Nat /\ 0 \notin S /\ S \subseteq Nat
         /\ c.seed = 0 <=> c = Start(0)
         /\ c # Start(0) => c \in Expanded(q) /\ c \in Paths(q) /\ c.seed \in S
  <1>1. S \subseteq Nat /\ 0 \notin S
    BY QueryFacts DEF At
  <1>2. IsWalk(Start(0)) /\ Start(0).seed = 0
    BY StartWalk
  <1>3. CASE c = Start(0)
    BY <1>1, <1>2, <1>3
  <1>4. CASE c # Start(0)
    <2>1. c \in Expanded(q) /\ c.seed \in S
      BY <1>4 DEF At
    <2> QED
      BY <1>1, <1>4, <2>1, ExpandedFacts
  <1> QED
    BY <1>3, <1>4

(* Before, for walks, in the form the sets are stated in.                   *)
LEMMA NotAfter ==
  ASSUME NEW c, NEW p, IsWalk(c), IsWalk(p)
  PROVE  ~Before(c, p) <=> (p = c \/ Before(p, c))
  BY BeforeStrict, BeforeTransitive, BeforeTotal

(* What is ahead has the current seed.                                      *)
LEMMA AheadFacts ==
  ASSUME IsQuery(q), q.mode # "scan", NEW S, NEW c, At(S, c), NEW A, NEW r \in Ahead(S, c, A)
  PROVE  /\ r.seed = c.seed /\ c # Start(0) /\ r \in AllRows(q) /\ IsWalk(r) /\ Before(c, r)
         /\ Parent(r) = c \/ Before(Parent(r), c)
  <1>1. /\ r \in AllRows(q) /\ r.seed \in S /\ Before(c, r)
        /\ Before(Parent(r), c) \/ Parent(r) = c
    BY DEF Ahead, FoundTo
  <1>2. IsWalk(r) /\ IsWalk(Parent(r)) /\ Parent(r).seed = r.seed
    BY <1>1, RowFacts
  <1>3. c.seed \in Nat /\ r.seed \in Nat /\ (c.seed = 0 <=> c = Start(0)) /\ 0 \notin S
    BY <1>1, AtFacts
  <1>4. r.seed <= c.seed
    BY <1>1, <1>2, <1>3 DEF Before
  <1>5. c.seed <= r.seed
    BY <1>1, <1>3 DEF Before
  <1>6. r.seed = c.seed
    BY <1>3, <1>4, <1>5
  <1> QED
    BY <1>1, <1>2, <1>3, <1>6

(* A path of the current seed that comes later is a row whose parent is     *)
(* ahead of it or later too.                                                *)
LEMMA LaterPath ==
  ASSUME IsQuery(q), q.mode = "path", NEW S, NEW c, At(S, c),
         NEW x \in Paths(q), x.seed = c.seed, Before(c, x)
  PROVE  /\ x \in AllRows(q) /\ IsWalk(x) /\ x.seed \in S
         /\ Before(c, Parent(x)) \/ x \in Ahead(S, c, {})
  <1>1. IsWalk(x) /\ x.seed \in Nat \ {0} /\ Len(x.edges) \in Nat /\ x.edges \in Seq(Nat)
    BY PathFacts, WalkEdges
  <1>2. IsWalk(c) /\ c.seed \in S /\ Len(c.edges) \in Nat /\ DOMAIN c.edges = 1..Len(c.edges)
    BY <1>1, AtFacts, WalkEdges DEF IsWalk
  <1>3. x.edges # <<>>
    <2>1. ASSUME x.edges = <<>> PROVE FALSE
      <3>1. Len(x.edges) = 0
        BY <2>1
      <3>2. \/ Len(c.edges) < Len(x.edges)
            \/ Len(c.edges) = Len(x.edges) /\ DOMAIN c.edges # {}
        BY <1>1 DEF Before
      <3> QED
        BY <1>2, <3>1, <3>2
    <2> QED
      BY <2>1
  <1>4. x \in AllRows(q)
    BY <1>3 DEF AllRows
  <1>5. Before(c, Parent(x)) \/ Parent(x) = c \/ Before(Parent(x), c)
    BY <1>2, <1>4, RowFacts, BeforeTotal
  <1> QED
    BY <1>1, <1>2, <1>4, <1>5 DEF Ahead, FoundTo

(* The search continues with the first path ahead: none lies between.       *)
LEMMA FirstAhead ==
  ASSUME IsQuery(q), q.mode = "path", NEW S, NEW c, At(S, c),
         NEW f \in Ahead(S, c, {}), \A x \in Ahead(S, c, {}) : x = f \/ Before(f, x)
  PROVE  /\ f \in Expanded(q) /\ f.seed \in S /\ f.seed = c.seed /\ Before(c, f)
         /\ \A x \in Expanded(q) : x.seed \in S => ~(Before(c, x) /\ Before(x, f))
  <1>1. /\ f.seed = c.seed /\ c # Start(0) /\ f \in AllRows(q) /\ IsWalk(f) /\ Before(c, f)
        /\ Parent(f) = c \/ Before(Parent(f), c)
    BY AheadFacts
  <1>2. /\ IsWalk(c) /\ c.seed \in S /\ c.seed \in Nat
        /\ f \in Expanded(q) /\ IsWalk(Parent(f)) /\ f.edges # <<>>
    BY <1>1, AtFacts, RowFacts DEF AllRows, Expanded
  <1>3. ASSUME NEW x \in Expanded(q), Before(c, x), Before(x, f)
        PROVE  FALSE
    <2>1. x \in Paths(q) /\ IsWalk(x) /\ x.seed \in Nat
      BY ExpandedFacts
    <2>2. x.seed = c.seed
      <3>1. c.seed <= x.seed /\ x.seed <= c.seed
        BY <1>1, <1>2, <1>3, <2>1 DEF Before
      <3> QED
        BY <1>2, <2>1, <3>1
    <2>3. x \in AllRows(q) /\ (Before(c, Parent(x)) \/ x \in Ahead(S, c, {}))
      BY <1>3, <2>1, <2>2, LaterPath
    <2>4. CASE x \in Ahead(S, c, {})
      BY <1>1, <1>3, <2>1, <2>4, BeforeStrict, BeforeTransitive
    <2>5. CASE Before(c, Parent(x))
      <3>1. IsWalk(Parent(x)) /\ x.edges # <<>>
        BY <2>3, RowFacts
      <3>2. Before(Parent(f), Parent(x))
        BY <1>1, <1>2, <2>5, <3>1, BeforeTransitive
      <3>3. Before(f, x)
        BY <1>1, <1>2, <2>1, <3>1, <3>2, ParentsInOrder
      <3> QED
        BY <1>1, <1>3, <2>1, <3>3, BeforeStrict, BeforeTransitive
    <2> QED
      BY <2>3, <2>4, <2>5
  <1> QED
    BY <1>1, <1>2, <1>3

(* A seed whose queue is empty is done.                                     *)
LEMMA NoneAhead ==
  ASSUME IsQuery(q), q.mode # "scan", NEW S, NEW c, At(S, c),
         q.mode = "path" => Ahead(S, c, {}) = {},
         NEW x \in Expanded(q), x.seed = c.seed
  PROVE  ~Before(c, x)
  <1>1. IsWalk(c) /\ c.seed \in Nat /\ IsWalk(x) /\ x \in Paths(q) /\ x.seed \in Nat \ {0}
    BY AtFacts, ExpandedFacts
  <1>2. CASE q.mode # "path"
    <2>1. x.edges = <<>> /\ c \in Expanded(q) /\ c.edges = <<>>
      BY <1>1, <1>2, AtFacts DEF Expanded
    <2>2. x = c
      BY <1>1, <2>1 DEF IsWalk
    <2> QED
      BY <1>1, <2>2, BeforeStrict
  <1>3. CASE q.mode = "path"
    <2> DEFINE Later == {y \in Paths(q) : y.seed = c.seed /\ Before(c, y)}
               T == {Len(y.edges) : y \in Later}
    <2>1. SUFFICES ASSUME Later # {} PROVE FALSE
      BY <1>1
    <2>2. T \in SUBSET Nat /\ T # {}
      BY <2>1, PathFacts
    <2>3. PICK n \in T : \A m \in T : n <= m
      BY <2>2, MinExists
    <2>4. PICK y \in Later : n = Len(y.edges)
      OBVIOUS
    <2>5. y \in AllRows(q) /\ (Before(c, Parent(y)) \/ y \in Ahead(S, c, {}))
      BY <1>3, LaterPath
    <2>6. Before(c, Parent(y))
      BY <1>3, <2>5
    <2>7. Parent(y) \in Later
      BY <1>3, <2>5, <2>6, RowFacts
    <2>8. Len(Parent(y).edges) = n - 1 /\ n \in Nat
      <3>1. IsWalk(y) /\ y.edges # <<>>
        BY <1>3, <2>5, RowFacts
      <3> QED
        BY <2>4, <3>1, ParentWalk
    <2>9. n <= n - 1
      BY <2>3, <2>7, <2>8
    <2> QED
      BY <2>8, <2>9
  <1> QED
    BY <1>2, <1>3

(* Nor does a path lie before the next seed.                                *)
LEMMA NextSeed ==
  ASSUME IsQuery(q), q.mode # "scan", NEW S, NEW c, At(S, c),
         q.mode = "path" => Ahead(S, c, {}) = {},
         NEW t \in S, c.seed < t, \A s \in S : c.seed < s => t <= s
  PROVE  /\ Start(t) \in Expanded(q) /\ Start(t).seed = t /\ Before(c, Start(t))
         /\ \A x \in Expanded(q) : x.seed \in S => ~(Before(c, x) /\ Before(x, Start(t)))
  <1>1. IsWalk(c) /\ c.seed \in Nat /\ t \in SeedSet(q) /\ t \in Nat /\ S \subseteq Nat
    BY AtFacts DEF At
  <1>2. Start(t) \in Expanded(q) /\ Start(t).seed = t /\ Len(Start(t).edges) = 0 /\ Start(t).edges = <<>>
    BY <1>1, StartPath
  <1>3. Before(c, Start(t))
    BY <1>2 DEF Before
  <1>4. ASSUME NEW x \in Expanded(q), x.seed \in S, Before(c, x), Before(x, Start(t))
        PROVE  FALSE
    <2>1. IsWalk(x) /\ x.seed \in Nat /\ Len(x.edges) \in Nat /\ DOMAIN x.edges = 1..Len(x.edges)
      BY ExpandedFacts, WalkEdges DEF IsWalk
    <2>2. x.seed < t
      <3>1. ~(Len(x.edges) < 0)
        BY <2>1
      <3>2. Len(x.edges) = 0 => DOMAIN x.edges = {}
        BY <2>1
      <3> QED
        BY <1>2, <1>4, <3>1, <3>2 DEF Before
    <2>3. c.seed = x.seed
      <3>1. c.seed <= x.seed
        BY <1>1, <1>4, <2>1 DEF Before
      <3>2. ~(c.seed < x.seed)
        BY <1>1, <1>4, <2>1, <2>2
      <3> QED
        BY <1>1, <2>1, <3>1, <3>2
    <2> QED
      BY <1>4, <2>3, NoneAhead
  <1> QED
    BY <1>2, <1>3, <1>4

-----------------------------------------------------------------------------
(* What has been done is finite, and at most all there is to do.            *)
LEMMA DoneFinite ==
  ASSUME IsQuery(q), NEW S, NEW c, NEW A
  PROVE  /\ ExpandedTo(S, c) \subseteq Expanded(q) /\ IsFiniteSet(ExpandedTo(S, c))
         /\ LookedTo(S, c, A) \subseteq Looked(q) /\ IsFiniteSet(LookedTo(S, c, A))
         /\ FoundTo(S, c, A) \subseteq AllRows(q) /\ IsFiniteSet(FoundTo(S, c, A))
         /\ Cardinality(ExpandedTo(S, c)) \in Nat /\ Cardinality(LookedTo(S, c, A)) \in Nat
         /\ Cardinality(FoundTo(S, c, A)) \in Nat
         /\ Cardinality(ExpandedTo(S, c)) <= Cardinality(Expanded(q))
         /\ Cardinality(LookedTo(S, c, A)) <= Cardinality(Looked(q))
         /\ Cardinality(FoundTo(S, c, A)) <= Cardinality(AllRows(q))
         /\ Cardinality(Expanded(q)) \in Nat /\ Cardinality(Looked(q)) \in Nat
         /\ Cardinality(AllRows(q)) \in Nat
  <1>1. /\ IsFiniteSet(Expanded(q)) /\ IsFiniteSet(Looked(q)) /\ IsFiniteSet(AllRows(q))
    BY PathsFinite
  <1>2. /\ ExpandedTo(S, c) \in SUBSET Expanded(q)
        /\ LookedTo(S, c, A) \in SUBSET Looked(q)
        /\ FoundTo(S, c, A) \in SUBSET AllRows(q)
    BY DEF ExpandedTo, LookedTo, FoundTo
  <1>3. /\ IsFiniteSet(ExpandedTo(S, c)) /\ Cardinality(ExpandedTo(S, c)) <= Cardinality(Expanded(q))
        /\ IsFiniteSet(LookedTo(S, c, A)) /\ Cardinality(LookedTo(S, c, A)) <= Cardinality(Looked(q))
        /\ IsFiniteSet(FoundTo(S, c, A)) /\ Cardinality(FoundTo(S, c, A)) <= Cardinality(AllRows(q))
    BY <1>1, <1>2, FS_Subset
  <1> QED
    BY <1>1, <1>2, <1>3, FS_CardinalityType

(* The next path is expanded: nothing else has changed.                     *)
LEMMA Advance ==
  ASSUME IsQuery(q), q.mode # "scan", NEW S, NEW c, At(S, c),
         NEW f \in Expanded(q), f.seed \in S, Before(c, f),
         \A x \in Expanded(q) : x.seed \in S => ~(Before(c, x) /\ Before(x, f))
  PROVE  /\ ExpandedTo(S, f) = ExpandedTo(S, c) \union {f} /\ f \notin ExpandedTo(S, c)
         /\ Cardinality(ExpandedTo(S, f)) = Cardinality(ExpandedTo(S, c)) + 1
         /\ LookedTo(S, f, Onward(f)) = LookedTo(S, c, {})
         /\ FoundTo(S, f, Onward(f)) = FoundTo(S, c, {})
  <1>1. IsWalk(c) /\ IsWalk(f)
    BY AtFacts, ExpandedFacts
  <1>2. ASSUME NEW x \in Expanded(q), x.seed \in S
        PROVE  /\ Before(x, f) <=> (x = c \/ Before(x, c))
               /\ ~Before(f, x) <=> (x = f \/ ~Before(c, x))
    <2>1. IsWalk(x)
      BY ExpandedFacts
    <2>2. Before(x, f) => ~Before(c, x)
      BY <1>2
    <2>3. ~Before(c, x) <=> (x = c \/ Before(x, c))
      BY <1>1, <2>1, NotAfter
    <2>4. x = c \/ Before(x, c) => Before(x, f)
      BY <1>1, <2>1, BeforeTransitive
    <2>5. ~Before(f, x) <=> (x = f \/ Before(x, f))
      BY <1>1, <2>1, NotAfter
    <2> QED
      BY <2>2, <2>3, <2>4, <2>5
  <1>3. ~Before(f, f)
    BY <1>1, BeforeStrict
  <1>4. ExpandedTo(S, f) = ExpandedTo(S, c) \union {f}
    BY <1>2, <1>3 DEF ExpandedTo
  <1>5. f \notin ExpandedTo(S, c)
    BY DEF ExpandedTo
  <1>6. Cardinality(ExpandedTo(S, f)) = Cardinality(ExpandedTo(S, c)) + 1
    <2>1. IsFiniteSet(ExpandedTo(S, c))
      BY DoneFinite
    <2> QED
      BY <1>4, <1>5, <2>1, FS_AddElement
  <1>7. LookedTo(S, f, Onward(f)) = LookedTo(S, c, {})
    <2>1. \A l \in Looked(q) : l[1] \in Expanded(q) /\ l[2] \in Onward(l[1])
      BY DEF Looked, Onward
    <2> QED
      BY <1>2, <2>1 DEF LookedTo
  <1>8. FoundTo(S, f, Onward(f)) = FoundTo(S, c, {})
    <2>1. \A r \in AllRows(q) : /\ Parent(r) \in Expanded(q) /\ Last(r.edges) \in Onward(Parent(r))
                                /\ Parent(r).seed = r.seed
      BY RowFacts
    <2> QED
      BY <1>2, <2>1 DEF FoundTo
  <1> QED
    BY <1>4, <1>5, <1>6, <1>7, <1>8

\* e is the first of the edges A that are left of those that lead on from c.
FirstLeft(c, A, e) ==
  /\ A \subseteq Onward(c) /\ e \in A
  /\ \A x \in A : x = e \/ e < x
  /\ \A x \in Onward(c) \ A : x < e

(* An edge is looked at.                                                    *)
LEMMA LookAtEdge ==
  ASSUME IsQuery(q), q.mode # "scan", NEW S, NEW c, At(S, c), c # Start(0),
         NEW A, NEW e, FirstLeft(c, A, e)
  PROVE  /\ Cardinality(LookedTo(S, c, A \ {e})) = Cardinality(LookedTo(S, c, A)) + 1
         /\ Along(c, e) \in AllRows(q) => FoundTo(S, c, A \ {e}) = FoundTo(S, c, A) \union {Along(c, e)}
         /\ Along(c, e) \notin AllRows(q) => FoundTo(S, c, A \ {e}) = FoundTo(S, c, A)
         /\ Along(c, e) \notin FoundTo(S, c, A)
  <1> DEFINE r == Along(c, e)
             l == <<c, e>>
  <1>1. c \in Expanded(q) /\ c.seed \in S /\ e \in Onward(c) /\ IsWalk(c) /\ e \in A
    BY AtFacts DEF FirstLeft
  <1>2. l \in Looked(q) /\ ~Before(c, c)
    BY <1>1, ExpandedFacts, BeforeStrict
  <1>3. l \notin LookedTo(S, c, A)
    BY <1>1, <1>2 DEF LookedTo
  <1>4. LookedTo(S, c, A \ {e}) = LookedTo(S, c, A) \union {l}
    <2>1. \A k \in Looked(q) : k[1] = c /\ k[2] = e => k = l
      BY DEF Looked
    <2>2. \A k \in Looked(q) : k \in LookedTo(S, c, A \ {e}) => k \in LookedTo(S, c, A) \union {l}
      BY <2>1 DEF LookedTo
    <2>3. \A k \in Looked(q) : k \in LookedTo(S, c, A) => k \in LookedTo(S, c, A \ {e})
      BY DEF LookedTo
    <2>4. l \in LookedTo(S, c, A \ {e})
      BY <1>1, <1>2 DEF LookedTo
    <2>5. LookedTo(S, c, A \ {e}) \subseteq Looked(q) /\ LookedTo(S, c, A) \subseteq Looked(q)
      BY DoneFinite
    <2> HIDE DEF l
    <2> QED
      BY <2>2, <2>3, <2>4, <2>5
  <1>5. Cardinality(LookedTo(S, c, A \ {e})) = Cardinality(LookedTo(S, c, A)) + 1
    <2>1. IsFiniteSet(LookedTo(S, c, A))
      BY DoneFinite
    <2> QED
      BY <1>3, <1>4, <2>1, FS_AddElement
  <1>6. /\ r.seed = c.seed /\ Parent(r) = c /\ Last(r.edges) = e
        /\ \A x \in AllRows(q) : x = r <=> Parent(x) = c /\ Last(x.edges) = e
    BY <1>1, RowAlong
  <1> HIDE DEF r
  <1>7. r \in AllRows(q) => FoundTo(S, c, A \ {e}) = FoundTo(S, c, A) \union {r}
    BY <1>1, <1>2, <1>6 DEF FoundTo
  <1>8. r \notin AllRows(q) => FoundTo(S, c, A \ {e}) = FoundTo(S, c, A)
    BY <1>6 DEF FoundTo
  <1>9. r \notin FoundTo(S, c, A)
    BY <1>1, <1>2, <1>6 DEF FoundTo
  <1> QED
    BY <1>5, <1>7, <1>8, <1>9 DEF r

(* The row it leads to comes after all that were found.                     *)
LEMMA FoundInOrder ==
  ASSUME IsQuery(q), q.mode # "scan", NEW S, NEW c, At(S, c), c # Start(0),
         NEW A, NEW e, FirstLeft(c, A, e)
  PROVE  /\ \A x \in FoundTo(S, c, A) : Before(x, Along(c, e))
         /\ IsWalk(Along(c, e)) /\ Before(c, Along(c, e))
  <1> DEFINE r == Along(c, e)
  <1>1. c \in Expanded(q) /\ c.seed \in S /\ e \in Onward(c) /\ IsWalk(c)
    BY AtFacts DEF FirstLeft
  <1>2. IsWalk(r) /\ Parent(r) = c /\ Last(r.edges) = e /\ Before(c, r) /\ r.edges # <<>>
    BY <1>1, RowAlong, AlongWalk, QueryFacts DEF Onward
  <1> HIDE DEF r
  <1>3. ASSUME NEW x \in FoundTo(S, c, A) PROVE Before(x, r)
    <2>1. x \in AllRows(q) /\ (Before(Parent(x), c) \/ (Parent(x) = c /\ Last(x.edges) \notin A))
      BY DEF FoundTo
    <2>2. IsWalk(x) /\ x.edges # <<>> /\ Last(x.edges) \in Onward(Parent(x))
      BY <2>1, RowFacts
    <2>3. CASE Before(Parent(x), c)
      BY <1>2, <2>2, <2>3, ParentsInOrder
    <2>4. CASE Parent(x) = c /\ Last(x.edges) \notin A
      <3>1. Last(x.edges) < e
        BY <2>2, <2>4 DEF FirstLeft
      <3> QED
        BY <1>2, <2>2, <2>4, <3>1, SiblingsInOrder
    <2> QED
      BY <2>1, <2>3, <2>4
  <1> QED
    BY <1>2, <1>3 DEF r

(* When a row is about to join the queue, the queue is what waits.          *)
LEMMA WaitingIsAhead ==
  ASSUME IsQuery(q), q.mode = "path", NEW S, NEW c, At(S, c), c # Start(0),
         NEW A, NEW e, FirstLeft(c, A, e)
  PROVE  Waiting(q, Along(c, e)) = Ahead(S, c, A)
  <1> DEFINE r == Along(c, e)
  <1>1. /\ c \in Expanded(q) /\ c.seed \in S /\ c \in Paths(q) /\ e \in Onward(c) /\ e \in A /\ IsWalk(c)
        /\ A \subseteq Onward(c)
    BY AtFacts DEF FirstLeft
  <1>2. /\ IsWalk(r) /\ r.seed = c.seed /\ Parent(r) = c /\ Last(r.edges) = e /\ Before(c, r)
        /\ r.edges # <<>> /\ e \in Nat
    BY <1>1, RowAlong, AlongWalk, QueryFacts DEF Onward
  <1> HIDE DEF r
  <1>3. ASSUME NEW x \in Ahead(S, c, A) PROVE x \in Waiting(q, r)
    <2>1. x \in FoundTo(S, c, A) /\ Before(c, x) /\ x.seed = c.seed
      BY AheadFacts DEF Ahead
    <2>2. x \in Paths(q)
      BY <2>1 DEF FoundTo, AllRows
    <2>3. Before(x, r)
      BY <2>1, FoundInOrder DEF r
    <2> QED
      BY <1>2, <2>1, <2>2, <2>3 DEF Waiting
  <1>4. ASSUME NEW x \in Waiting(q, r) PROVE x \in Ahead(S, c, A)
    <2>1. x \in Paths(q) /\ x.seed = c.seed /\ Before(c, x) /\ Before(x, r)
      BY <1>2 DEF Waiting
    <2>2. x \in AllRows(q) /\ (Before(c, Parent(x)) \/ x \in Ahead(S, c, {}))
      BY <2>1, LaterPath
    <2>3. IsWalk(x) /\ IsWalk(Parent(x)) /\ x.edges # <<>> /\ Last(x.edges) \in Onward(Parent(x))
          /\ Last(x.edges) \in Nat /\ Along(Parent(x), Last(x.edges)) = x
      BY <2>2, RowFacts
    <2>4. ~Before(r, x)
      BY <1>2, <2>1, <2>3, BeforeStrict, BeforeTransitive
    <2>5. ~Before(c, Parent(x))
      BY <1>2, <2>3, <2>4, ParentsInOrder
    <2>6. Parent(x) = c \/ Before(Parent(x), c)
      BY <1>1, <2>3, <2>5, NotAfter
    <2>7. ASSUME Parent(x) = c PROVE Last(x.edges) \notin A
      <3>1. Last(x.edges) # e
        BY <1>2, <2>1, <2>3, <2>7, BeforeStrict DEF r
      <3>2. ~(e < Last(x.edges))
        BY <1>2, <2>3, <2>4, <2>7, SiblingsInOrder
      <3> QED
        BY <3>1, <3>2 DEF FirstLeft
    <2> QED
      BY <1>1, <2>1, <2>2, <2>6, <2>7 DEF Ahead, FoundTo
  <1> QED
    BY <1>3, <1>4 DEF r

(* All but the last of the queue waited for it.                             *)
LEMMA LastOfQueue ==
  ASSUME IsQuery(q), q.mode = "path", NEW S, NEW c, At(S, c),
         NEW r \in Ahead(S, c, {}), \A x \in Ahead(S, c, {}) : x = r \/ Before(x, r)
  PROVE  r \in AllRows(q) /\ Ahead(S, c, {}) \ {r} \subseteq Waiting(q, r)
  <1>1. r.seed = c.seed /\ r \in AllRows(q) /\ IsWalk(r) /\ (Parent(r) = c \/ Before(Parent(r), c))
    BY AheadFacts
  <1>2. IsWalk(c) /\ IsWalk(Parent(r))
    BY <1>1, AtFacts, RowFacts
  <1>3. ASSUME NEW x \in Ahead(S, c, {}), x # r PROVE x \in Waiting(q, r)
    <2>1. x.seed = c.seed /\ x \in AllRows(q) /\ IsWalk(x) /\ Before(c, x)
      BY AheadFacts
    <2>2. Before(Parent(r), x)
      BY <1>1, <1>2, <2>1, BeforeTransitive
    <2> QED
      BY <1>1, <1>3, <2>1, <2>2 DEF Waiting, AllRows
  <1> QED
    BY <1>1, <1>3

(* Where no path is left, everything is done.                               *)
LEMMA AllDone ==
  ASSUME IsQuery(q), q.mode # "scan", NEW S, NEW c, At(S, c),
         \A x \in Expanded(q) : x.seed \in S => ~Before(c, x)
  PROVE  /\ ExpandedTo(S, c) = {p \in Expanded(q) : p.seed \in S}
         /\ LookedTo(S, c, {}) = {l \in Looked(q) : l[1].seed \in S}
         /\ FoundTo(S, c, {}) = {r \in AllRows(q) : r.seed \in S}
  <1>1. ASSUME NEW x \in Expanded(q), x.seed \in S PROVE x = c \/ Before(x, c)
    BY <1>1, AtFacts, ExpandedFacts, NotAfter
  <1>2. ExpandedTo(S, c) = {p \in Expanded(q) : p.seed \in S}
    BY DEF ExpandedTo
  <1>3. LookedTo(S, c, {}) = {l \in Looked(q) : l[1].seed \in S}
    <2>1. \A l \in Looked(q) : l[1] \in Expanded(q)
      BY DEF Looked
    <2> QED
      BY <1>1, <2>1 DEF LookedTo
  <1>4. FoundTo(S, c, {}) = {r \in AllRows(q) : r.seed \in S}
    <2>1. \A r \in AllRows(q) : Parent(r) \in Expanded(q) /\ Parent(r).seed = r.seed
      BY RowFacts
    <2> QED
      BY <1>1, <2>1 DEF FoundTo
  <1> QED
    BY <1>2, <1>3, <1>4

\* The fields of a partition.
IsPart(p) ==
  p = [todo |-> p.todo, queue |-> p.queue, cur |-> p.cur, adj |-> p.adj,
       rows |-> p.rows, work |-> p.work, error |-> p.error]

\* A search that has found the rows whose queue joins fitted.
FitsSoFar(S, c, A) ==
  q.mode = "path" =>
    /\ c # Start(0) => q.frontier > 0
    /\ \A r \in FoundTo(S, c, A) : Cardinality(Waiting(q, r)) < q.frontier
    /\ q.costed => \A r \in FoundTo(S, c, A) : q.edges[Last(r.edges)].cost # BadCost

WorkTo(S, c, A) == Cardinality(ExpandedTo(S, c)) + Cardinality(LookedTo(S, c, A))
                     + Cardinality(FoundTo(S, c, A))

\* A partition p with the seeds S in a step or path query.
SearchPart(p, S) ==
  /\ At(S, p.cur)
  /\ Lists(p.todo, {s \in S : p.cur.seed < s}, NumberOrder)
  /\ Lists(p.adj, ToSet(p.adj), NumberOrder) /\ ToSet(p.adj) \subseteq Onward(p.cur)
  /\ \A e \in Onward(p.cur) \ ToSet(p.adj), f \in ToSet(p.adj) : e < f
  /\ p.cur = Start(0) => p.adj = <<>>
  /\ Lists(p.rows, FoundTo(S, p.cur, ToSet(p.adj)), PathOrder)
  /\ IF q.mode = "path" THEN Lists(p.queue, Ahead(S, p.cur, ToSet(p.adj)), PathOrder)
     ELSE p.queue = <<>>
  /\ p.work = WorkTo(S, p.cur, ToSet(p.adj))
  /\ FitsSoFar(S, p.cur, ToSet(p.adj))

-----------------------------------------------------------------------------
(* The steps of a search.                                                   *)
LEMMA NoElements == ToSet(<<>>) = {}
  BY DEF ToSet

(* A search that has not begun has found nothing.                           *)
LEMMA SearchStarts ==
  ASSUME IsQuery(q), q.mode # "scan", NEW s, NEW S, Lists(s, S, NumberOrder), S \subseteq SeedSet(q)
  PROVE  SearchPart(Part(s), S)
  <1> DEFINE c == Start(0)
             p == Part(s)
  <1>1. p.todo = s /\ p.queue = <<>> /\ p.cur = c /\ p.adj = <<>> /\ p.rows = <<>> /\ p.work = 0
    BY DEF Part
  <1>2. IsWalk(c) /\ c.seed = 0
    BY StartWalk
  <1>3. At(S, c) /\ S \subseteq Nat /\ 0 \notin S
    BY AtFacts DEF At
  <1>4. {x \in S : c.seed < x} = S
    <2>1. ASSUME NEW x \in S PROVE c.seed < x
      <3>1. x \in Nat /\ x # 0
        BY <1>3
      <3> QED
        BY <1>2, <3>1
    <2> QED
      BY <2>1
  <1>5. ASSUME NEW x \in Expanded(q) PROVE Before(c, x) /\ ~Before(x, c) /\ x # c
    <2>1. x.seed \in Nat \ {0} /\ IsWalk(x)
      BY ExpandedFacts
    <2>2. Before(c, x)
      BY <1>2, <2>1 DEF Before
    <2> QED
      BY <1>2, <2>1, <2>2, NotAfter, BeforeStrict, BeforeTransitive
  <1>6. ExpandedTo(S, c) = {}
    BY <1>5 DEF ExpandedTo
  <1>7. LookedTo(S, c, {}) = {}
    BY <1>5 DEF LookedTo, Looked
  <1>8. FoundTo(S, c, {}) = {}
    BY <1>5, RowFacts DEF FoundTo
  <1>9. Ahead(S, c, {}) = {}
    BY <1>8 DEF Ahead
  <1>10. WorkTo(S, c, {}) = 0
    BY <1>6, <1>7, <1>8, FS_EmptySet DEF WorkTo
  <1>11. FitsSoFar(S, c, {})
    BY <1>8 DEF FitsSoFar
  <1> HIDE DEF p, c
  <1> QED
    BY <1>1, <1>3, <1>4, <1>8, <1>9, <1>10, <1>11, NoElements, ListsNothing DEF SearchPart, c, p

(* The edges at the end of a path, in order.                                *)
LEMMA AdjacentLists ==
  ASSUME IsQuery(q), NEW n
  PROVE  Lists(Adjacent(q, n), {e \in DOMAIN q.edges : Source(q, e) = n}, NumberOrder)
  <1> DEFINE E == {e \in DOMAIN q.edges : Source(q, e) = n}
  <1>1. E \in SUBSET Nat /\ IsFiniteSet(E)
    BY QueryFacts, FS_Subset
  <1> QED
    BY <1>1, AscendingLists DEF Adjacent

(* One more path is expanded.                                               *)
LEMMA ExpandNext ==
  ASSUME IsQuery(q), q.mode # "scan", NEW p, NEW S, SearchPart(p, S), p.adj = <<>>,
         NEW f \in Expanded(q), f.seed \in S, Before(p.cur, f),
         \A x \in Expanded(q) : x.seed \in S => ~(Before(p.cur, x) /\ Before(x, f)),
         NEW n, n.cur = f, n.rows = p.rows, n.work = p.work + 1,
         Lists(n.todo, {s \in S : f.seed < s}, NumberOrder),
         Lists(n.adj, Onward(f), NumberOrder),
         IF q.mode = "path" THEN Lists(n.queue, Ahead(S, f, Onward(f)), PathOrder) ELSE n.queue = <<>>,
         q.mode = "path" => q.frontier > 0
  PROVE  SearchPart(n, S)
  <1>1. ToSet(p.adj) = {} /\ ToSet(n.adj) = Onward(f)
    BY NoElements, ListsElements
  <1>2. At(S, p.cur) /\ At(S, f)
    BY DEF SearchPart, At
  <1>3. /\ Cardinality(ExpandedTo(S, f)) = Cardinality(ExpandedTo(S, p.cur)) + 1
        /\ LookedTo(S, f, Onward(f)) = LookedTo(S, p.cur, {})
        /\ FoundTo(S, f, Onward(f)) = FoundTo(S, p.cur, {})
    BY <1>2, Advance
  <1>4. /\ Cardinality(ExpandedTo(S, p.cur)) \in Nat /\ Cardinality(LookedTo(S, p.cur, {})) \in Nat
        /\ Cardinality(FoundTo(S, p.cur, {})) \in Nat
    BY DoneFinite
  <1>5. n.work = WorkTo(S, f, Onward(f))
    <2>1. p.work = WorkTo(S, p.cur, {})
      BY <1>1 DEF SearchPart
    <2>2. n.work = WorkTo(S, p.cur, {}) + 1
      BY <2>1
    <2> QED
      BY <1>3, <1>4, <2>2 DEF WorkTo
  <1>6. FitsSoFar(S, f, Onward(f))
    BY <1>1, <1>3 DEF SearchPart, FitsSoFar
  <1>7. f # Start(0)
    BY ExpandedFacts, StartWalk
  <1>8. Lists(n.rows, FoundTo(S, f, Onward(f)), PathOrder)
    BY <1>1, <1>3 DEF SearchPart
  <1> QED
    BY <1>1, <1>2, <1>5, <1>6, <1>7, <1>8 DEF SearchPart

(* The first edge left is looked at, and leads back to the path.            *)
LEMMA FirstEdge ==
  ASSUME IsQuery(q), q.mode # "scan", NEW p, NEW S, SearchPart(p, S), p.adj # <<>>
  PROVE  /\ p.cur \in Expanded(q) /\ p.cur # Start(0) /\ Head(p.adj) \in Onward(p.cur)
         /\ FirstLeft(p.cur, ToSet(p.adj), Head(p.adj))
         /\ Lists(Tail(p.adj), ToSet(Tail(p.adj)), NumberOrder)
         /\ ToSet(Tail(p.adj)) = ToSet(p.adj) \ {Head(p.adj)}
         /\ \A e \in Onward(p.cur) \ ToSet(Tail(p.adj)), f \in ToSet(Tail(p.adj)) : e < f
  <1> DEFINE A == ToSet(p.adj)
             e == Head(p.adj)
  <1>1. Lists(p.adj, A, NumberOrder) /\ A \subseteq Onward(p.cur) /\ At(S, p.cur)
        /\ p.cur # Start(0) /\ \A x \in Onward(p.cur) \ A, f \in A : x < f
    BY DEF SearchPart
  <1>2. p.cur \in Expanded(q)
    BY <1>1, AtFacts
  <1>3. /\ e \in A /\ Lists(Tail(p.adj), A \ {e}, NumberOrder)
        /\ \A x \in A \ {e} : <<e, x>> \in NumberOrder
    BY <1>1, NumberOrderStrict, ListsTail
  <1>4. ToSet(Tail(p.adj)) = A \ {e}
    BY <1>3, ListsElements
  <1>5. \A x \in A \ {e} : e < x
    BY <1>3 DEF NumberOrder
  <1> HIDE DEF A, e
  <1>6. FirstLeft(p.cur, A, e)
    BY <1>1, <1>3, <1>5 DEF FirstLeft
  <1>7. \A x \in Onward(p.cur) \ (A \ {e}), f \in A \ {e} : x < f
    BY <1>1, <1>5
  <1> QED
    BY <1>1, <1>2, <1>3, <1>4, <1>6, <1>7 DEF A, e

(* An edge that leads back to the path is passed over.                      *)
LEMMA SkipFirstEdge ==
  ASSUME IsQuery(q), q.mode # "scan", NEW p, NEW S, SearchPart(p, S), p.adj # <<>>,
         Along(p.cur, Head(p.adj)) \notin AllRows(q),
         NEW n, n.cur = p.cur, n.rows = p.rows, n.work = p.work + 1, n.todo = p.todo,
         n.adj = Tail(p.adj), n.queue = p.queue
  PROVE  SearchPart(n, S)
  <1> DEFINE c == p.cur
             A == ToSet(p.adj)
             e == Head(p.adj)
  <1>1. /\ c \in Expanded(q) /\ c # Start(0) /\ At(S, c) /\ A \subseteq Onward(c) /\ e \in A
        /\ FirstLeft(c, A, e)
        /\ Lists(n.adj, ToSet(n.adj), NumberOrder) /\ ToSet(n.adj) = A \ {e}
        /\ \A x \in Onward(c) \ ToSet(n.adj), f \in ToSet(n.adj) : x < f
    BY FirstEdge DEF FirstLeft, SearchPart
  <1>2. /\ Cardinality(LookedTo(S, c, A \ {e})) = Cardinality(LookedTo(S, c, A)) + 1
        /\ FoundTo(S, c, A \ {e}) = FoundTo(S, c, A)
    <2> HIDE DEF c, A, e
    <2>1. Along(c, e) \notin AllRows(q)
      BY DEF c, e
    <2>2. IsQuery(q) /\ q.mode # "scan" /\ At(S, c) /\ c # Start(0) /\ FirstLeft(c, A, e)
      BY <1>1
    <2>3. /\ Cardinality(LookedTo(S, c, A \ {e})) = Cardinality(LookedTo(S, c, A)) + 1
          /\ Along(c, e) \notin AllRows(q) => FoundTo(S, c, A \ {e}) = FoundTo(S, c, A)
      BY ONLY <2>2, LookAtEdge
    <2> QED
      BY <2>1, <2>3
  <1>3. Ahead(S, c, A \ {e}) = Ahead(S, c, A)
    BY <1>2 DEF Ahead
  <1>4. /\ Cardinality(ExpandedTo(S, c)) \in Nat /\ Cardinality(LookedTo(S, c, A)) \in Nat
        /\ Cardinality(FoundTo(S, c, A)) \in Nat
    BY DoneFinite
  <1>5. n.work = WorkTo(S, c, A \ {e})
    <2>1. n.work = WorkTo(S, c, A) + 1
      BY DEF SearchPart
    <2> HIDE DEF c, A, e
    <2> QED
      BY <1>2, <1>4, <2>1 DEF WorkTo
  <1>6. FitsSoFar(S, c, A \ {e})
    BY <1>2 DEF SearchPart, FitsSoFar
  <1> HIDE DEF A, e, c
  <1> QED
    BY <1>1, <1>2, <1>3, <1>5, <1>6 DEF SearchPart, A, c

(* It leads to a row.                                                       *)
LEMMA FollowFirstEdge ==
  ASSUME IsQuery(q), q.mode # "scan", NEW p, NEW S, SearchPart(p, S), p.adj # <<>>,
         Along(p.cur, Head(p.adj)) \in AllRows(q),
         NEW n, n.cur = p.cur, n.rows = Append(p.rows, Along(p.cur, Head(p.adj))),
         n.work = p.work + 2, n.todo = p.todo, n.adj = Tail(p.adj),
         n.queue = IF q.mode = "path" THEN Append(p.queue, Along(p.cur, Head(p.adj))) ELSE p.queue,
         q.mode = "path" => /\ Len(p.queue) < q.frontier
                            /\ q.costed => q.edges[Head(p.adj)].cost # BadCost
  PROVE  SearchPart(n, S)
  <1> DEFINE c == p.cur
             A == ToSet(p.adj)
             e == Head(p.adj)
             r == Along(c, e)
  <1>1. /\ c \in Expanded(q) /\ c # Start(0) /\ At(S, c) /\ A \subseteq Onward(c) /\ e \in A
        /\ e \in Onward(c) /\ FirstLeft(c, A, e)
        /\ Lists(n.adj, ToSet(n.adj), NumberOrder) /\ ToSet(n.adj) = A \ {e}
        /\ \A x \in Onward(c) \ ToSet(n.adj), f \in ToSet(n.adj) : x < f
    BY FirstEdge DEF FirstLeft, SearchPart
  <1>2. /\ Cardinality(LookedTo(S, c, A \ {e})) = Cardinality(LookedTo(S, c, A)) + 1
        /\ FoundTo(S, c, A \ {e}) = FoundTo(S, c, A) \union {r}
        /\ r \notin FoundTo(S, c, A)
    <2>1. Along(c, e) \in AllRows(q)
      OBVIOUS
    <2>2. At(S, c) /\ c # Start(0) /\ FirstLeft(c, A, e)
      BY <1>1
    <2> HIDE DEF c, A, e
    <2> QED
      BY <2>1, <2>2, LookAtEdge
  <1>3. /\ \A x \in FoundTo(S, c, A) : Before(x, r)
        /\ Before(c, r) /\ Last(r.edges) = e
    BY <1>1, FoundInOrder, RowAlong
  <1>4. Ahead(S, c, A \ {e}) = Ahead(S, c, A) \union {r}
    BY <1>2, <1>3 DEF Ahead
  <1>5. r \in Paths(q) /\ FoundTo(S, c, A) \subseteq Paths(q) /\ Ahead(S, c, A) \subseteq FoundTo(S, c, A)
    BY DEF FoundTo, AllRows, Ahead
  <1>6. \A x \in FoundTo(S, c, A) : <<x, r>> \in PathOrder
    BY <1>3, <1>5 DEF PathOrder
  <1>7. Lists(n.rows, FoundTo(S, c, A \ {e}), PathOrder)
    <2>1. Lists(p.rows, FoundTo(S, c, A), PathOrder) /\ n.rows = Append(p.rows, r)
      BY DEF SearchPart
    <2>2. FoundTo(S, c, A \ {e}) = FoundTo(S, c, A) \union {r}
      BY <1>2
    <2> HIDE DEF c, A, e, r
    <2>3. Lists(Append(p.rows, r), FoundTo(S, c, A) \union {r}, PathOrder)
      BY <1>6, <2>1, ListsAppend
    <2> QED
      BY <2>1, <2>2, <2>3
  <1>8. IF q.mode = "path" THEN Lists(n.queue, Ahead(S, c, A \ {e}), PathOrder) ELSE n.queue = <<>>
    <2>1. CASE q.mode = "path"
      <3>1. Lists(p.queue, Ahead(S, c, A), PathOrder) /\ n.queue = Append(p.queue, r)
        BY <2>1 DEF SearchPart
      <3> HIDE DEF c, A, e, r
      <3>2. \A x \in Ahead(S, c, A) : <<x, r>> \in PathOrder
        BY <1>5, <1>6
      <3>3. Lists(Append(p.queue, r), Ahead(S, c, A) \union {r}, PathOrder)
        BY <3>1, <3>2, ListsAppend
      <3> QED
        BY <1>4, <2>1, <3>1, <3>3
    <2>2. CASE q.mode # "path"
      BY <2>2 DEF SearchPart
    <2> QED
      BY <2>1, <2>2
  <1>9. /\ Cardinality(ExpandedTo(S, c)) \in Nat /\ Cardinality(LookedTo(S, c, A)) \in Nat
        /\ Cardinality(FoundTo(S, c, A)) \in Nat /\ IsFiniteSet(FoundTo(S, c, A))
    BY DoneFinite
  <1>10. Cardinality(FoundTo(S, c, A \ {e})) = Cardinality(FoundTo(S, c, A)) + 1
    BY <1>2, <1>9, FS_AddElement
  <1>11. n.work = WorkTo(S, c, A \ {e})
    <2>1. n.work = WorkTo(S, c, A) + 2
      BY DEF SearchPart
    <2> HIDE DEF c, A, e
    <2> QED
      BY <1>2, <1>9, <1>10, <2>1 DEF WorkTo
  <1>12. FitsSoFar(S, c, A \ {e})
    <2>1. ASSUME q.mode = "path" PROVE Cardinality(Waiting(q, r)) < q.frontier
      <3>1. Waiting(q, r) = Ahead(S, c, A)
        BY <1>1, <2>1, WaitingIsAhead
      <3>2. Lists(p.queue, Ahead(S, c, A), PathOrder)
        BY <2>1 DEF SearchPart
      <3>3. Cardinality(Ahead(S, c, A)) = Len(p.queue)
        BY <3>2, PathOrderStrict, ListsCardinality
      <3> QED
        BY <2>1, <3>1, <3>3
    <2> QED
      BY <1>2, <1>3, <2>1 DEF SearchPart, FitsSoFar
  <1> HIDE DEF A, e, c, r
  <1> QED
    BY <1>1, <1>7, <1>8, <1>11, <1>12 DEF SearchPart, A, c

\* f is the path that a search at c expands next.
NextPath(S, c, f) ==
  /\ f \in Expanded(q) /\ f.seed \in S /\ Before(c, f)
  /\ \A x \in Expanded(q) : x.seed \in S => ~(Before(c, x) /\ Before(x, f))

-----------------------------------------------------------------------------
(* Where a search continues.                                                *)
LEMMA TakeFromQueue ==
  ASSUME IsQuery(q), q.mode = "path", NEW p, NEW S, SearchPart(p, S), p.adj = <<>>, p.queue # <<>>
  PROVE  LET f == Head(p.queue)
         IN  /\ NextPath(S, p.cur, f) /\ f.seed = p.cur.seed
             /\ Lists(Tail(p.queue), Ahead(S, f, Onward(f)), PathOrder)
             /\ Lists(p.todo, {s \in S : f.seed < s}, NumberOrder)
  <1> DEFINE f == Head(p.queue)
             c == p.cur
             Q == Ahead(S, c, {})
  <1>1. At(S, c) /\ Lists(p.queue, Q, PathOrder) /\ Lists(p.todo, {s \in S : c.seed < s}, NumberOrder)
    BY NoElements DEF SearchPart
  <1>2. /\ f \in Q /\ Lists(Tail(p.queue), Q \ {f}, PathOrder)
        /\ \A x \in Q \ {f} : <<f, x>> \in PathOrder
    BY <1>1, PathOrderStrict, ListsTail
  <1> HIDE DEF f, c
  <1>3. \A x \in Q \ {f} : Before(f, x)
    BY <1>2 DEF PathOrder
  <1>4. f.seed = c.seed /\ NextPath(S, c, f)
    BY <1>1, <1>2, <1>3, FirstAhead DEF NextPath
  <1>5. FoundTo(S, f, Onward(f)) = FoundTo(S, c, {})
    BY <1>1, <1>4, Advance DEF NextPath
  <1>6. IsWalk(c) /\ IsWalk(f) /\ Before(c, f)
    BY <1>1, <1>4, AtFacts, ExpandedFacts DEF NextPath
  <1>7. Ahead(S, f, Onward(f)) = Q \ {f}
    <2>1. ASSUME NEW r \in Ahead(S, f, Onward(f)) PROVE r \in Q \ {f}
      <3>1. r \in FoundTo(S, c, {}) /\ Before(f, r)
        BY <1>5 DEF Ahead
      <3>2. IsWalk(r)
        BY <3>1, RowFacts DEF FoundTo
      <3>3. Before(c, r) /\ r # f
        BY <1>6, <3>1, <3>2, BeforeTransitive, BeforeStrict
      <3> QED
        BY <3>1, <3>3 DEF Ahead
    <2>2. ASSUME NEW r \in Q \ {f} PROVE r \in Ahead(S, f, Onward(f))
      BY <1>3, <1>5 DEF Ahead
    <2> QED
      BY <2>1, <2>2
  <1> QED
    BY <1>1, <1>2, <1>4, <1>7 DEF f, c

(* An empty queue: the next seed.                                           *)
LEMMA TakeSeed ==
  ASSUME IsQuery(q), q.mode # "scan", NEW p, NEW S, SearchPart(p, S), p.adj = <<>>, p.queue = <<>>,
         p.todo # <<>>
  PROVE  LET f == Start(Head(p.todo))
         IN  /\ NextPath(S, p.cur, f)
             /\ q.mode = "path" => Lists(<<>>, Ahead(S, f, Onward(f)), PathOrder)
             /\ Lists(Tail(p.todo), {s \in S : f.seed < s}, NumberOrder)
             /\ SeedSet(q) # {}
             /\ Head(p.todo) \in SeedSet(q)
  <1> DEFINE t == Head(p.todo)
             f == Start(t)
             c == p.cur
             T == {s \in S : c.seed < s}
  <1>1. At(S, c) /\ Lists(p.todo, T, NumberOrder) /\ (q.mode = "path" => Lists(p.queue, Ahead(S, c, {}), PathOrder))
    BY NoElements DEF SearchPart
  <1>2. t \in T /\ Lists(Tail(p.todo), T \ {t}, NumberOrder) /\ \A x \in T \ {t} : <<t, x>> \in NumberOrder
    BY <1>1, NumberOrderStrict, ListsTail
  <1>3. q.mode = "path" => Ahead(S, c, {}) = {}
    BY <1>1, ListsElements
  <1>4. S \subseteq Nat /\ c.seed \in Nat /\ S \subseteq SeedSet(q) /\ IsWalk(c)
    BY <1>1, AtFacts DEF At
  <1>5. \A x \in T \ {t} : t < x
    BY <1>2 DEF NumberOrder
  <1> HIDE DEF t, c
  <1>6. t \in S /\ c.seed < t /\ t \in Nat
    BY <1>2, <1>4
  <1>7. \A s \in S : c.seed < s => t <= s
    BY <1>4, <1>5, <1>6
  <1>8. NextPath(S, c, f) /\ f.seed = t
    <2>1. /\ IsQuery(q) /\ q.mode # "scan" /\ At(S, c) /\ (q.mode = "path" => Ahead(S, c, {}) = {})
          /\ t \in S /\ c.seed < t /\ \A s \in S : c.seed < s => t <= s
      BY <1>1, <1>3, <1>6, <1>7
    <2>2. /\ Start(t) \in Expanded(q) /\ Start(t).seed = t /\ Before(c, Start(t))
          /\ \A x \in Expanded(q) : x.seed \in S => ~(Before(c, x) /\ Before(x, Start(t)))
      BY ONLY <2>1, NextSeed
    <2> QED
      BY <1>6, <2>2 DEF NextPath
  <1>9. T \ {t} = {s \in S : t < s}
    <2>1. \A s \in S : t < s => c.seed < s /\ s # t
      BY <1>4, <1>6
    <2> QED
      BY <1>5, <2>1
  <1> HIDE DEF f
  <1>10. ASSUME q.mode = "path" PROVE Ahead(S, f, Onward(f)) = {}
    <2>1. FoundTo(S, f, Onward(f)) = FoundTo(S, c, {})
      BY <1>1, <1>8, Advance DEF NextPath
    <2>2. IsWalk(f) /\ Before(c, f)
      BY <1>8, ExpandedFacts DEF NextPath
    <2>3. ASSUME NEW r \in Ahead(S, f, Onward(f)) PROVE FALSE
      <3>1. r \in FoundTo(S, c, {}) /\ Before(f, r)
        BY <2>1 DEF Ahead
      <3>2. IsWalk(r)
        BY <1>10, <3>1, RowFacts DEF FoundTo
      <3>3. Before(c, r)
        BY <1>4, <2>2, <3>1, <3>2, BeforeTransitive
      <3> QED
        BY <1>3, <1>10, <3>1, <3>3 DEF Ahead
    <2> QED
      BY <2>3
  <1> QED
    BY <1>2, <1>4, <1>6, <1>8, <1>9, <1>10, ListsNothing DEF f, c, t

-----------------------------------------------------------------------------
(* What is still to be done is part of the whole work.                      *)
LEMMA WorkOfSearch ==
  ASSUME q.mode # "scan"
  PROVE  AllWork(q) = Cardinality(Expanded(q)) + Cardinality(Looked(q)) + Cardinality(AllRows(q))
  BY DEF AllWork

(* The rows and the work of a search are numbers.                           *)
LEMMA RowsOfSearch ==
  ASSUME IsQuery(q), NEW p, NEW S, SearchPart(p, S)
  PROVE  Len(p.rows) = Cardinality(FoundTo(S, p.cur, ToSet(p.adj))) /\ p.work \in Nat
         /\ Len(p.rows) \in Nat
  <1>1. Lists(p.rows, FoundTo(S, p.cur, ToSet(p.adj)), PathOrder)
    BY DEF SearchPart
  <1>2. Cardinality(FoundTo(S, p.cur, ToSet(p.adj))) = Len(p.rows)
    BY <1>1, PathOrderStrict, ListsCardinality
  <1>3. WorkTo(S, p.cur, ToSet(p.adj)) \in Nat /\ Cardinality(FoundTo(S, p.cur, ToSet(p.adj))) \in Nat
    BY DoneFinite DEF WorkTo
  <1> QED
    BY <1>2, <1>3 DEF SearchPart

(* Expanding one more path is part of the whole work.                       *)
LEMMA WorkOfNext ==
  ASSUME IsQuery(q), q.mode # "scan", NEW p, NEW S, SearchPart(p, S), p.adj = <<>>,
         NEW f, NextPath(S, p.cur, f)
  PROVE  p.work + 1 <= AllWork(q) /\ AllWork(q) \in Nat
  <1> DEFINE c == p.cur
  <1>1. At(S, c) /\ p.work = WorkTo(S, c, {})
    BY NoElements DEF SearchPart
  <1>2. Cardinality(ExpandedTo(S, f)) = Cardinality(ExpandedTo(S, c)) + 1
    BY <1>1, Advance DEF NextPath
  <1> HIDE DEF c
  <1>3. /\ Cardinality(ExpandedTo(S, f)) <= Cardinality(Expanded(q))
        /\ Cardinality(LookedTo(S, c, {})) <= Cardinality(Looked(q))
        /\ Cardinality(FoundTo(S, c, {})) <= Cardinality(AllRows(q))
        /\ Cardinality(ExpandedTo(S, c)) \in Nat /\ Cardinality(LookedTo(S, c, {})) \in Nat
        /\ Cardinality(FoundTo(S, c, {})) \in Nat
        /\ Cardinality(Expanded(q)) \in Nat /\ Cardinality(Looked(q)) \in Nat
        /\ Cardinality(AllRows(q)) \in Nat
    BY DoneFinite
  <1> QED
    BY <1>1, <1>2, <1>3, WorkOfSearch DEF WorkTo

(* So is looking at one more edge, and finding one more row.                *)
LEMMA WorkOfEdge ==
  ASSUME IsQuery(q), q.mode # "scan", NEW p, NEW S, SearchPart(p, S), p.adj # <<>>
  PROVE  /\ p.work + 1 <= AllWork(q) /\ AllWork(q) \in Nat
         /\ Along(p.cur, Head(p.adj)) \in AllRows(q) =>
              p.work + 2 <= AllWork(q) /\ Len(p.rows) + 1 <= Cardinality(AllRows(q))
  <1> DEFINE c == p.cur
             A == ToSet(p.adj)
             e == Head(p.adj)
             r == Along(c, e)
  <1>1. At(S, c) /\ c # Start(0) /\ FirstLeft(c, A, e) /\ p.work = WorkTo(S, c, A)
    BY FirstEdge DEF SearchPart
  <1>2. Len(p.rows) = Cardinality(FoundTo(S, c, A))
    BY RowsOfSearch
  <1> HIDE DEF c, A, e
  <1>3. /\ Cardinality(LookedTo(S, c, A \ {e})) = Cardinality(LookedTo(S, c, A)) + 1
        /\ r \in AllRows(q) => FoundTo(S, c, A \ {e}) = FoundTo(S, c, A) \union {r}
        /\ r \notin FoundTo(S, c, A)
    <2>1. IsQuery(q) /\ q.mode # "scan" /\ At(S, c) /\ c # Start(0) /\ FirstLeft(c, A, e)
      BY <1>1
    <2>2. /\ Cardinality(LookedTo(S, c, A \ {e})) = Cardinality(LookedTo(S, c, A)) + 1
          /\ Along(c, e) \in AllRows(q) => FoundTo(S, c, A \ {e}) = FoundTo(S, c, A) \union {Along(c, e)}
          /\ Along(c, e) \notin FoundTo(S, c, A)
      BY ONLY <2>1, LookAtEdge
    <2> QED
      BY <2>2
  <1>4. /\ Cardinality(LookedTo(S, c, A \ {e})) <= Cardinality(Looked(q))
        /\ Cardinality(ExpandedTo(S, c)) <= Cardinality(Expanded(q))
        /\ Cardinality(FoundTo(S, c, A)) <= Cardinality(AllRows(q))
        /\ Cardinality(FoundTo(S, c, A \ {e})) <= Cardinality(AllRows(q))
        /\ Cardinality(ExpandedTo(S, c)) \in Nat /\ Cardinality(LookedTo(S, c, A)) \in Nat
        /\ Cardinality(FoundTo(S, c, A)) \in Nat /\ IsFiniteSet(FoundTo(S, c, A))
        /\ Cardinality(Expanded(q)) \in Nat /\ Cardinality(Looked(q)) \in Nat
        /\ Cardinality(AllRows(q)) \in Nat
    BY DoneFinite
  <1>5. p.work + 1 <= AllWork(q) /\ AllWork(q) \in Nat
    BY <1>1, <1>3, <1>4, WorkOfSearch DEF WorkTo
  <1>6. ASSUME r \in AllRows(q)
        PROVE  p.work + 2 <= AllWork(q) /\ Len(p.rows) + 1 <= Cardinality(AllRows(q))
    <2>1. FoundTo(S, c, A \ {e}) = FoundTo(S, c, A) \union {r} /\ r \notin FoundTo(S, c, A)
      BY <1>3, <1>6
    <2>2. Cardinality(FoundTo(S, c, A \ {e})) = Cardinality(FoundTo(S, c, A)) + 1
      BY <1>4, <2>1, FS_AddElement
    <2> QED
      BY <1>1, <1>2, <1>3, <1>4, <2>2, WorkOfSearch DEF WorkTo
  <1> QED
    BY <1>5, <1>6 DEF r, c, e

-----------------------------------------------------------------------------
(* A queue that is too long waits for a row of the query.                   *)
LEMMA NoRoomToJoin ==
  ASSUME IsQuery(q), q.mode = "path", NEW p, NEW S, SearchPart(p, S), p.adj # <<>>,
         Along(p.cur, Head(p.adj)) \in AllRows(q), Len(p.queue) >= q.frontier
  PROVE  ~FrontierFits(q)
  <1> DEFINE r == Along(p.cur, Head(p.adj))
  <1>1. At(S, p.cur) /\ p.cur # Start(0) /\ FirstLeft(p.cur, ToSet(p.adj), Head(p.adj))
        /\ Lists(p.queue, Ahead(S, p.cur, ToSet(p.adj)), PathOrder)
    BY FirstEdge DEF SearchPart
  <1>2. Waiting(q, r) = Ahead(S, p.cur, ToSet(p.adj))
    BY <1>1, WaitingIsAhead
  <1>3. Cardinality(Waiting(q, r)) = Len(p.queue) /\ Len(p.queue) \in Nat
    BY <1>1, <1>2, PathOrderStrict, ListsCardinality, ListsElements
  <1>4. q.frontier \in Nat
    BY DEF IsQuery
  <1>5. ~(Cardinality(Waiting(q, r)) < q.frontier)
    BY <1>3, <1>4
  <1> QED
    BY <1>5 DEF FrontierFits

(* A queue that is too long when a path is taken was so when the last one   *)
(* joined it.                                                               *)
LEMMA QueueTooLong ==
  ASSUME IsQuery(q), q.mode = "path", NEW p, NEW S, SearchPart(p, S), p.adj = <<>>, p.queue # <<>>,
         Len(p.queue) > q.frontier
  PROVE  ~FrontierFits(q)
  <1> DEFINE Q == Ahead(S, p.cur, {})
             n == Len(p.queue)
             r == p.queue[n]
  <1>1. At(S, p.cur) /\ Lists(p.queue, Q, PathOrder)
    BY NoElements DEF SearchPart
  <1>2. n \in Nat /\ n # 0 /\ p.queue \in [1..n -> Q]
    BY <1>1, ListsElements, EmptySeq
  <1>3. n \in 1..n /\ \A i \in 1..n : i < n \/ i = n
    BY <1>2
  <1>4. r \in Q /\ \A x \in Q : x = r \/ Before(x, r)
    <2>1. \A i \in 1..n : i < n => <<p.queue[i], r>> \in PathOrder
      BY <1>1, <1>3 DEF Lists
    <2>2. \A x \in Q : \E i \in 1..n : p.queue[i] = x
      BY <1>1 DEF Lists
    <2>3. \A x \in Q : x = r \/ <<x, r>> \in PathOrder
      BY <1>3, <2>1, <2>2
    <2> QED
      BY <1>2, <1>3, <2>3 DEF PathOrder
  <1> HIDE DEF r, n, Q
  <1>5. r \in AllRows(q) /\ Q \ {r} \subseteq Waiting(q, r)
    BY <1>1, <1>4, LastOfQueue DEF Q
  <1>6. IsFiniteSet(Q) /\ Cardinality(Q) = n
    BY <1>1, PathOrderStrict, ListsCardinality DEF n
  <1>7. IsFiniteSet(Waiting(q, r)) /\ Cardinality(Waiting(q, r)) \in Nat
    <2>1. Waiting(q, r) \in SUBSET Paths(q)
      BY DEF Waiting
    <2> QED
      BY <2>1, PathsFinite, FS_Subset, FS_CardinalityType
  <1>8. Cardinality(Q \ {r}) = n - 1
    BY <1>4, <1>6, FS_RemoveElement
  <1>9. Cardinality(Q \ {r}) <= Cardinality(Waiting(q, r))
    BY <1>5, <1>7, FS_Subset
  <1>10. ~(Cardinality(Waiting(q, r)) < q.frontier)
    <2>1. q.frontier \in Nat /\ n > q.frontier
      BY DEF IsQuery, n
    <2> QED
      BY <1>2, <1>7, <1>8, <1>9, <2>1
  <1> QED
    BY <1>5, <1>10 DEF FrontierFits

(* An edge without a usable cost is the last one of a row.                  *)
LEMMA RowTooDear ==
  ASSUME q.mode = "path", q.costed, NEW c, NEW e, Along(c, e) \in AllRows(q), Last(Along(c, e).edges) = e,
         q.edges[e].cost = BadCost
  PROVE  ~CostsUsable(q)
  BY DEF CostsUsable

-----------------------------------------------------------------------------
(* A search that has nothing left is complete.                              *)
LEMMA SearchEnds ==
  ASSUME IsQuery(q), q.mode # "scan", NEW p, NEW S, SearchPart(p, S),
         p.adj = <<>>, p.queue = <<>>, p.todo = <<>>
  PROVE  /\ Lists(p.rows, {r \in AllRows(q) : r.seed \in S}, PathOrder)
         /\ p.work = Cardinality({x \in Expanded(q) : x.seed \in S})
                       + Cardinality({l \in Looked(q) : l[1].seed \in S})
                       + Cardinality({r \in AllRows(q) : r.seed \in S})
         /\ q.mode = "path" =>
              /\ S # {} => q.frontier > 0
              /\ \A r \in AllRows(q) : r.seed \in S => Cardinality(Waiting(q, r)) < q.frontier
              /\ q.costed => \A r \in AllRows(q) : r.seed \in S => q.edges[Last(r.edges)].cost # BadCost
  <1> DEFINE c == p.cur
  <1>1. /\ At(S, c) /\ Lists(p.todo, {s \in S : c.seed < s}, NumberOrder)
        /\ q.mode = "path" => Lists(p.queue, Ahead(S, c, {}), PathOrder)
        /\ Lists(p.rows, FoundTo(S, c, {}), PathOrder)
        /\ p.work = WorkTo(S, c, {}) /\ FitsSoFar(S, c, {})
    BY NoElements DEF SearchPart
  <1> HIDE DEF c
  <1>2. {s \in S : c.seed < s} = {}
    BY <1>1, ListsElements
  <1>3. q.mode = "path" => Ahead(S, c, {}) = {}
    BY <1>1, ListsElements
  <1>4. S \subseteq Nat /\ c.seed \in Nat /\ 0 \notin S /\ (c.seed = 0 <=> c = Start(0))
    BY <1>1, AtFacts
  <1>5. \A x \in Expanded(q) : x.seed \in S => ~Before(c, x)
    <2>1. ASSUME NEW x \in Expanded(q), x.seed \in S, Before(c, x) PROVE FALSE
      <3>0. x.seed \in Nat /\ c.seed \in Nat
        BY <1>4, <2>1
      <3>1. c.seed <= x.seed
        BY <2>1, <3>0 DEF Before
      <3>2. ~(c.seed < x.seed)
        BY <1>2, <2>1
      <3>3. x.seed = c.seed
        BY ONLY <3>0, <3>1, <3>2
      <3> QED
        BY <1>1, <1>3, <2>1, <3>3, NoneAhead
    <2> QED
      BY <2>1
  <1>6. /\ ExpandedTo(S, c) = {x \in Expanded(q) : x.seed \in S}
        /\ LookedTo(S, c, {}) = {l \in Looked(q) : l[1].seed \in S}
        /\ FoundTo(S, c, {}) = {r \in AllRows(q) : r.seed \in S}
    BY <1>1, <1>5, AllDone
  <1>7. S # {} => c # Start(0)
    <2>1. ASSUME NEW s \in S, c = Start(0) PROVE FALSE
      <3>1. c.seed < s
        BY <1>4, <2>1
      <3> QED
        BY <1>2, <3>1
    <2> QED
      BY <2>1
  <1> QED
    BY <1>1, <1>6, <1>7 DEF WorkTo, FitsSoFar

-----------------------------------------------------------------------------
(* Chunks.                                                                  *)
LEMMA Division ==
  ASSUME NEW a \in Nat, NEW b \in Nat \ {0}
  PROVE  a \div b \in Nat /\ (a \div b) * b <= a /\ a < (a \div b) * b + b
  OBVIOUS

(* Products of natural numbers.                                             *)
LEMMA Products ==
  /\ \A a, b, c \in Nat : a <= b => a * c <= b * c
  /\ \A a, b, c \in Nat : a * c < b * c => a < b
  /\ \A a, c \in Int : (a - 1) * c = a * c - c /\ (a + 1) * c = a * c + c
  /\ \A a, c \in Nat : a * c \in Nat
  <1>1. \A a, b, c \in Nat : a <= b => a * c <= b * c
    OBVIOUS
  <1>2. \A a, b, c \in Nat : a * c < b * c => a < b
    OBVIOUS
  <1>3. \A a, c \in Int : (a - 1) * c = a * c - c /\ (a + 1) * c = a * c + c
    OBVIOUS
  <1>4. \A a, c \in Nat : a * c \in Nat
    OBVIOUS
  <1> QED
    BY <1>1, <1>2, <1>3, <1>4

(* A section of a list lists its elements.                                  *)
LEMMA ListsSection ==
  ASSUME NEW s, NEW S, NEW R, Lists(s, S, R), NEW a \in Nat, NEW b \in Nat, a < b, b <= Len(s)
  PROVE  LET t == SubSeq(s, a + 1, b)
         IN  Lists(t, ToSet(t), R) /\ ToSet(t) = {s[j] : j \in (a + 1)..b}
  <1> DEFINE t == SubSeq(s, a + 1, b)
  <1>1. Len(s) \in Nat /\ \A i \in 1..Len(s) : s[i] \in S
    BY ListsElements
  <1>2. \A i \in (a + 1)..b : i \in 1..Len(s)
    BY <1>1
  <1>3. \A i \in (a + 1)..b : s[i] \in S
    BY <1>1, <1>2
  <1>4. a + 1 \in Int /\ b \in Int
    OBVIOUS
  <1>5. /\ t \in Seq(S) /\ Len(t) = IF a + 1 <= b THEN b - (a + 1) + 1 ELSE 0
        /\ \A i \in 1..(b - (a + 1) + 1) : t[i] = s[(a + 1) + i - 1]
    BY ONLY <1>3, <1>4, SubSeqProperties
  <1> HIDE DEF t
  <1>6. b - (a + 1) + 1 = b - a /\ b - a \in Nat /\ a + 1 <= b /\ \A i \in 1..(b - a) : (a + 1) + i - 1 = a + i
    OBVIOUS
  <1>7. Len(t) = b - a /\ \A i \in 1..(b - a) : t[i] = s[a + i]
    BY <1>5, <1>6
  <1>8. DOMAIN t = 1..(b - a)
    BY <1>5, <1>7, LenProperties
  <1>9. ToSet(t) = {s[j] : j \in (a + 1)..b}
    <2>1. \A i \in 1..(b - a) : a + i \in (a + 1)..b
      OBVIOUS
    <2>2. \A j \in (a + 1)..b : j - a \in 1..(b - a) /\ a + (j - a) = j
      OBVIOUS
    <2>3. \A i \in DOMAIN t : t[i] \in {s[j] : j \in (a + 1)..b}
      BY <1>7, <1>8, <2>1
    <2>4. \A j \in (a + 1)..b : s[j] = t[j - a] /\ j - a \in DOMAIN t
      BY <1>7, <1>8, <2>2
    <2> QED
      BY <2>3, <2>4 DEF ToSet
  <1>10. t \in Seq(ToSet(t))
    <2>1. t \in [1..(b - a) -> ToSet(t)]
      <3>1. t \in [1..(b - a) -> S]
        BY <1>5, <1>7, LenProperties
      <3> QED
        BY <3>1, <1>8 DEF ToSet
    <2> QED
      BY <1>6, <2>1, LenDomain
  <1>11. \A i, j \in 1..Len(t) : i < j => <<t[i], t[j]>> \in R
    <2>1. ASSUME NEW i \in 1..(b - a), NEW j \in 1..(b - a), i < j PROVE <<t[i], t[j]>> \in R
      <3>1. a + i \in 1..Len(s) /\ a + j \in 1..Len(s) /\ a + i < a + j
        BY <1>1, <2>1
      <3>2. <<s[a + i], s[a + j]>> \in R
        BY <3>1 DEF Lists
      <3> QED
        BY <1>7, <3>2
    <2> QED
      BY <1>7, <2>1
  <1>12. \A x \in ToSet(t) : \E i \in 1..Len(t) : t[i] = x
    BY <1>7, <1>8 DEF ToSet
  <1> QED
    BY <1>9, <1>10, <1>11, <1>12 DEF Lists, t

(* The chunks of a list are at most as many as there are workers, in order, *)
(* and together the whole list.                                             *)
LEMMA ChunksFacts ==
  ASSUME NEW s, NEW S, Lists(s, S, NumberOrder), s # <<>>
  PROVE  LET cs == Chunks(s)
         IN  /\ DOMAIN cs = 1..Len(cs) /\ Len(cs) \in Nat \ {0} /\ Len(cs) <= MaxWorkers
             /\ \A k \in 1..Len(cs) : Lists(cs[k], ToSet(cs[k]), NumberOrder) /\ ToSet(cs[k]) \subseteq S
             /\ \A k, l \in 1..Len(cs) : k < l => \A x \in ToSet(cs[k]), y \in ToSet(cs[l]) : x < y
             /\ \A x \in S : \E k \in 1..Len(cs) : x \in ToSet(cs[k])
  <1> DEFINE n == Len(s)
             w == IF n < MaxWorkers THEN n ELSE MaxWorkers
             c == CeilDiv(n, w)
             m == CeilDiv(n, c)
             hi(k) == IF k * c < n THEN k * c ELSE n
             cs == Chunks(s)
  <1>1. n \in Nat \ {0} /\ \A i \in 1..n : s[i] \in S
    BY ListsElements, EmptySeq
  <1>2. cs = [k \in 1..m |-> SubSeq(s, (k - 1) * c + 1, hi(k))]
    BY DEF Chunks
  <1>3. w \in Nat \ {0} /\ w <= MaxWorkers
    BY <1>1, QueryExecAssumption
  <1> HIDE DEF w, n, cs
  <1>4. c \in Nat \ {0} /\ n <= w * c
    <2>1. n + w - 1 \in Nat /\ n + w - 1 >= w
      BY <1>1, <1>3
    <2>2. c \in Nat /\ n + w - 1 < c * w + w
      BY <1>3, <2>1, Division DEF CeilDiv
    <2>3. c # 0
      BY <1>3, <2>1, <2>2
    <2>4. n <= c * w /\ c * w = w * c
      <3>1. c * w \in Nat /\ c * w = w * c
        BY <1>3, <2>2
      <3> QED
        BY <1>1, <1>3, <2>2, <3>1
    <2> QED
      BY <2>2, <2>3, <2>4
  <1> HIDE DEF c
  <1>5. m \in Nat \ {0} /\ m * c <= n + c - 1 /\ n <= m * c /\ m * c \in Nat
    <2>1. n + c - 1 \in Nat /\ n + c - 1 >= c
      BY <1>1, <1>4
    <2>2. m \in Nat /\ m * c <= n + c - 1 /\ n + c - 1 < m * c + c
      BY <1>4, <2>1, Division DEF CeilDiv
    <2>3. m # 0
      BY <1>4, <2>1, <2>2
    <2>4. m * c \in Nat
      BY <1>4, <2>2
    <2> QED
      BY <1>1, <1>4, <2>2, <2>3, <2>4
  <1> HIDE DEF m
  <1>6. m <= w
    <2>1. w * c \in Nat /\ (w + 1) * c = w * c + c
      BY <1>3, <1>4, Products
    <2>2. m * c < (w + 1) * c
      BY <1>1, <1>4, <1>5, <2>1
    <2>3. m < w + 1
      BY <1>3, <1>4, <1>5, <2>2, Products
    <2> QED
      BY <1>3, <1>5, <2>3
  <1>7. ASSUME NEW k \in 1..m
        PROVE  (k - 1) * c \in Nat /\ hi(k) \in Nat /\ (k - 1) * c < hi(k) /\ hi(k) <= n /\ k * c \in Nat
               /\ hi(k) <= k * c
    <2>1. k \in Nat /\ k - 1 \in Nat /\ m - 1 \in Nat /\ k - 1 <= m - 1
      BY <1>5
    <2>2. (k - 1) * c \in Nat /\ k * c \in Nat /\ (k - 1) * c = k * c - c /\ (m - 1) * c = m * c - c
          /\ (k - 1) * c <= (m - 1) * c
      BY <1>4, <1>5, <2>1, Products
    <2>3. (k - 1) * c < n /\ (k - 1) * c < k * c
      BY <1>1, <1>4, <1>5, <2>2
    <2> QED
      BY <1>1, <2>2, <2>3
  <1>8. DOMAIN cs = 1..m /\ Len(cs) = m
    BY <1>2, <1>5
  <1> DEFINE lo(k) == (k - 1) * c
  <1>9. ASSUME NEW k \in 1..m
        PROVE  /\ Lists(cs[k], ToSet(cs[k]), NumberOrder) /\ ToSet(cs[k]) \subseteq S
               /\ ToSet(cs[k]) = {s[j] : j \in (lo(k) + 1)..hi(k)}
    <2>1. lo(k) \in Nat /\ hi(k) \in Nat /\ lo(k) < hi(k) /\ hi(k) <= Len(s)
      BY <1>7 DEF n
    <2>2. cs[k] = SubSeq(s, lo(k) + 1, hi(k))
      BY <1>2
    <2> HIDE DEF lo, hi
    <2>3. Lists(cs[k], ToSet(cs[k]), NumberOrder) /\ ToSet(cs[k]) = {s[j] : j \in (lo(k) + 1)..hi(k)}
      <3> DEFINE a == lo(k)
                 b == hi(k)
                 t == SubSeq(s, a + 1, b)
      <3>1. a \in Nat /\ b \in Nat /\ a < b /\ b <= Len(s) /\ Lists(s, S, NumberOrder)
        BY <2>1
      <3> HIDE DEF a, b
      <3>2. Lists(t, ToSet(t), NumberOrder) /\ ToSet(t) = {s[j] : j \in (a + 1)..b}
        BY ONLY <3>1, ListsSection
      <3> QED
        BY <2>2, <3>2 DEF a, b
    <2>4. \A j \in (lo(k) + 1)..hi(k) : j \in 1..n
      BY <1>1, <2>1 DEF n
    <2> QED
      BY <1>1, <2>3, <2>4
  <1>10. ASSUME NEW k \in 1..m, NEW l \in 1..m, k < l, NEW x \in ToSet(cs[k]), NEW y \in ToSet(cs[l])
         PROVE  x < y
    <2>0. /\ ToSet(cs[k]) = {s[i] : i \in (lo(k) + 1)..hi(k)}
          /\ ToSet(cs[l]) = {s[j] : j \in (lo(l) + 1)..hi(l)}
      BY <1>9
    <2>1. PICK i \in (lo(k) + 1)..hi(k) : x = s[i]
      BY ONLY <1>10, <2>0, Zenon
    <2>2. PICK j \in (lo(l) + 1)..hi(l) : y = s[j]
      BY ONLY <1>10, <2>0, Zenon
    <2>3. k * c <= lo(l)
      <3>1. k \in Nat /\ l - 1 \in Nat /\ k <= l - 1
        BY <1>5, <1>10
      <3> QED
        BY <1>4, <3>1, Products
    <2>4. i \in Nat /\ j \in Nat /\ i <= hi(k) /\ j > lo(l) /\ j <= n /\ i >= 1
      <3>1. lo(k) \in Nat /\ hi(k) \in Nat /\ lo(l) \in Nat /\ hi(l) \in Nat /\ hi(l) <= n
        BY <1>7
      <3> HIDE DEF lo, hi
      <3> QED
        BY <1>1, <2>1, <2>2, <3>1
    <2>5. i < j /\ i \in 1..n /\ j \in 1..n
      <3>1. lo(l) \in Nat /\ hi(k) \in Nat /\ hi(k) <= k * c /\ k * c \in Nat
        BY <1>7
      <3> HIDE DEF lo, hi
      <3> QED
        BY <1>1, <2>3, <2>4, <3>1
    <2>6. <<x, y>> \in NumberOrder
      BY <2>1, <2>2, <2>5 DEF Lists, n
    <2> QED
      BY <2>6 DEF NumberOrder
  <1>11. ASSUME NEW x \in S PROVE \E k \in 1..m : x \in ToSet(cs[k])
    <2>1. PICK j \in 1..n : s[j] = x
      BY DEF Lists, n
    <2> DEFINE h == (j - 1) \div c
    <2>2. h \in Nat /\ h * c <= j - 1 /\ j - 1 < h * c + c
      <3>1. j - 1 \in Nat
        BY <1>1
      <3> QED
        BY <1>4, <3>1, Division
    <2> HIDE DEF h
    <2>3. h < m
      <3>1. h * c \in Nat /\ h * c < m * c
        BY <1>1, <1>4, <1>5, <2>2, Products
      <3> QED
        BY <1>4, <1>5, <2>2, <3>1, Products
    <2>4. h + 1 \in 1..m
      BY <1>5, <2>2, <2>3
    <2>5. lo(h + 1) = h * c /\ (h + 1) * c = h * c + c /\ h * c \in Nat
      <3>1. (h + 1) - 1 = h
        BY <2>2
      <3> QED
        BY <1>4, <2>2, <3>1, Products
    <2>6. j \in (lo(h + 1) + 1)..hi(h + 1)
      <3>1. j \in Nat /\ j <= n /\ lo(h + 1) + 1 <= j /\ j <= (h + 1) * c
        BY <1>1, <1>4, <2>2, <2>5
      <3>2. hi(h + 1) \in Nat /\ (hi(h + 1) = (h + 1) * c \/ hi(h + 1) = n)
        BY <1>7, <2>4
      <3>3. lo(h + 1) \in Nat
        BY <2>5
      <3> HIDE DEF lo, hi
      <3> QED
        BY <3>1, <3>2, <3>3
    <2> HIDE DEF lo, hi
    <2> QED
      BY <1>9, <2>1, <2>4, <2>6
  <1> QED
    BY <1>3, <1>5, <1>6, <1>8, <1>9, <1>10, <1>11, QueryExecAssumption DEF cs

-----------------------------------------------------------------------------
(* The seeds.                                                               *)
LEMMA AcceptedLists ==
  ASSUME IsQuery(q), NEW s, ToSet(s) \subseteq DOMAIN q.verdict
  PROVE  Lists(Accepted(s), {n \in ToSet(s) : q.verdict[n] = "yes"}, NumberOrder)
  <1> DEFINE T == {n \in ToSet(s) : q.verdict[n] = "yes"}
  <1>1. T \subseteq DOMAIN q.verdict
    OBVIOUS
  <1>2. T \in SUBSET Nat /\ IsFiniteSet(T)
    BY <1>1, QueryFacts, FS_Subset
  <1> QED
    BY <1>2, AscendingLists DEF Accepted

(* The candidates are in order.                                             *)
LEMMA CandidatesLists ==
  ASSUME IsQuery(q)
  PROVE  Lists(Candidates, {n \in DOMAIN q.verdict : q.verdict[n] # "other"}, NumberOrder)
  <1> DEFINE T == {n \in DOMAIN q.verdict : q.verdict[n] # "other"}
  <1>1. T \in SUBSET Nat /\ IsFiniteSet(T)
    BY QueryFacts, FS_Subset
  <1> QED
    BY <1>1, AscendingLists DEF Candidates

(* Whether one thread filters the candidates or several do.                 *)
LEMMA SeedsLists ==
  ASSUME IsQuery(q)
  PROVE  /\ Lists(Accepted(Candidates), SeedSet(q), NumberOrder)
         /\ Len(Candidates) >= 2 =>
              LET chunks == Chunks(Candidates)
              IN  Lists(FlattenSeq([i \in DOMAIN chunks |-> Accepted(chunks[i])]), SeedSet(q), NumberOrder)
  <1> DEFINE C == {n \in DOMAIN q.verdict : q.verdict[n] # "other"}
             cs == Chunks(Candidates)
             m == Len(cs)
             ss == [i \in DOMAIN cs |-> Accepted(cs[i])]
             S == [i \in 1..m |-> {n \in ToSet(cs[i]) : q.verdict[n] = "yes"}]
  <1>1. Lists(Candidates, C, NumberOrder) /\ C \subseteq DOMAIN q.verdict
    BY CandidatesLists
  <1>2. ToSet(Candidates) = C /\ Len(Candidates) \in Nat
    BY <1>1, ListsElements
  <1>3. {n \in C : q.verdict[n] = "yes"} = SeedSet(q)
    BY DEF SeedSet
  <1>4. Lists(Accepted(Candidates), SeedSet(q), NumberOrder)
    BY <1>1, <1>2, <1>3, AcceptedLists
  <1>5. ASSUME Len(Candidates) >= 2 PROVE Lists(FlattenSeq(ss), SeedSet(q), NumberOrder)
    <2>1. Candidates # <<>>
      BY <1>5
    <2> HIDE DEF C, cs
    <2>2. /\ DOMAIN cs = 1..m /\ m \in Nat \ {0}
          /\ \A k \in 1..m : ToSet(cs[k]) \subseteq C
          /\ \A k, l \in 1..m : k < l => \A x \in ToSet(cs[k]), y \in ToSet(cs[l]) : x < y
          /\ \A x \in C : \E k \in 1..m : x \in ToSet(cs[k])
      BY <1>1, <2>1, ChunksFacts DEF cs
    <2> HIDE DEF m
    <2>3. Len(ss) = m
      BY <2>2
    <2>4. \A k \in 1..m : ss[k] = Accepted(cs[k]) /\ S[k] = {n \in ToSet(cs[k]) : q.verdict[n] = "yes"}
      BY <2>2
    <2>5. \A k \in 1..m : Lists(ss[k], S[k], NumberOrder)
      <3>1. \A k \in 1..m : ToSet(cs[k]) \subseteq DOMAIN q.verdict
        BY <1>1, <2>2
      <3> QED
        BY <2>4, <3>1, AcceptedLists
    <2>6. \A k \in 1..m : S[k] \subseteq ToSet(cs[k]) /\ S[k] \subseteq Nat
      BY <1>1, <2>2, <2>4, QueryFacts
    <2>7. UNION {S[k] : k \in 1..m} = SeedSet(q)
      BY <1>3, <2>2, <2>4
    <2> HIDE DEF S, ss
    <2>8. \A k, l \in 1..m : k < l => \A x \in S[k], y \in S[l] : <<x, y>> \in NumberOrder
      BY <2>2, <2>6 DEF NumberOrder
    <2>9. Lists(FlattenSeq(ss), UNION {S[k] : k \in 1..Len(ss)}, NumberOrder)
      BY <2>2, <2>3, <2>5, <2>8, FlattenLists
    <2> QED
      BY <2>3, <2>7, <2>9
  <1> QED
    BY <1>4, <1>5

-----------------------------------------------------------------------------
(* The whole work is that of the partitions.                                *)

\* The work of a step or path search from the seeds S.
WorkFrom(S) == Cardinality({x \in Expanded(q) : x.seed \in S})
                 + Cardinality({l \in Looked(q) : l[1].seed \in S})
                 + Cardinality({r \in AllRows(q) : r.seed \in S})

(* Two disjoint sets have as many elements as both.                         *)
LEMMA SplitCardinality ==
  ASSUME NEW A, IsFiniteSet(A), NEW B, IsFiniteSet(B), \A x \in A : x \notin B
  PROVE  Cardinality(A \union B) = Cardinality(A) + Cardinality(B)
  <1>1. A \intersect B = {}
    OBVIOUS
  <1>2. Cardinality(A \union B) = Cardinality(A) + Cardinality(B) - Cardinality(A \intersect B)
    BY FS_Union
  <1>3. Cardinality(A) \in Nat /\ Cardinality(B) \in Nat
    BY FS_CardinalityType
  <1>4. Cardinality(A \intersect B) = 0
    BY <1>1, FS_EmptySet
  <1> QED
    BY ONLY <1>2, <1>3, <1>4

(* Disjoint sets of seeds share no work.                                    *)
LEMMA SplitWork ==
  ASSUME IsQuery(q), NEW S, NEW T, \A x \in S : x \notin T
  PROVE  WorkFrom(S \union T) = WorkFrom(S) + WorkFrom(T) /\ WorkFrom(S) \in Nat
  <1> DEFINE E(U) == {x \in Expanded(q) : x.seed \in U}
             L(U) == {l \in Looked(q) : l[1].seed \in U}
             R(U) == {r \in AllRows(q) : r.seed \in U}
  <1>1. IsFiniteSet(Expanded(q)) /\ IsFiniteSet(Looked(q)) /\ IsFiniteSet(AllRows(q))
    BY PathsFinite
  <1>2. E(S \union T) = E(S) \union E(T) /\ \A x \in E(S) : x \notin E(T)
    OBVIOUS
  <1>3. L(S \union T) = L(S) \union L(T) /\ \A x \in L(S) : x \notin L(T)
    OBVIOUS
  <1>4. R(S \union T) = R(S) \union R(T) /\ \A x \in R(S) : x \notin R(T)
    OBVIOUS
  <1>5. \A U : E(U) \in SUBSET Expanded(q) /\ L(U) \in SUBSET Looked(q) /\ R(U) \in SUBSET AllRows(q)
    OBVIOUS
  <1>6. \A U : WorkFrom(U) = Cardinality(E(U)) + Cardinality(L(U)) + Cardinality(R(U))
    BY DEF WorkFrom
  <1> HIDE DEF E, L, R
  <1>7. \A U : IsFiniteSet(E(U)) /\ IsFiniteSet(L(U)) /\ IsFiniteSet(R(U))
    BY <1>1, <1>5, FS_Subset
  <1>8. \A U : Cardinality(E(U)) \in Nat /\ Cardinality(L(U)) \in Nat /\ Cardinality(R(U)) \in Nat
    BY <1>7, FS_CardinalityType
  <1>9. /\ Cardinality(E(S \union T)) = Cardinality(E(S)) + Cardinality(E(T))
        /\ Cardinality(L(S \union T)) = Cardinality(L(S)) + Cardinality(L(T))
        /\ Cardinality(R(S \union T)) = Cardinality(R(S)) + Cardinality(R(T))
    BY <1>2, <1>3, <1>4, <1>7, SplitCardinality
  <1> QED
    BY <1>6, <1>8, <1>9

(* All seeds make the whole work.                                           *)
LEMMA WholeWork ==
  ASSUME IsQuery(q), q.mode # "scan"
  PROVE  WorkFrom(SeedSet(q)) = AllWork(q)
  <1>1. {x \in Expanded(q) : x.seed \in SeedSet(q)} = Expanded(q)
    BY ExpandedFacts
  <1>2. {l \in Looked(q) : l[1].seed \in SeedSet(q)} = Looked(q)
    BY ExpandedFacts DEF Looked
  <1>3. {r \in AllRows(q) : r.seed \in SeedSet(q)} = AllRows(q)
    BY RowFacts
  <1> QED
    BY <1>1, <1>2, <1>3, WorkOfSearch DEF WorkFrom

\* The sets M of seeds come one after another and are all of them.
Divides(M, m) ==
  /\ m \in Nat \ {0}
  /\ \A k \in 1..m : M[k] \subseteq SeedSet(q)
  /\ \A k, l \in 1..m : k < l => \A x \in M[k], y \in M[l] : x < y
  /\ \A x \in SeedSet(q) : \E k \in 1..m : x \in M[k]

(* The work of the sets of seeds adds up to the whole work.                 *)
LEMMA WorkAddsUp ==
  ASSUME IsQuery(q), q.mode # "scan", NEW M, NEW m, Divides(M, m),
         NEW s, Len(s) = m, \A k \in 1..m : s[k] = WorkFrom(M[k])
  PROVE  Total(s) = AllWork(q)
  <1> DEFINE U(n) == UNION {M[k] : k \in 1..n}
  <1>1. m \in Nat /\ \A k \in 1..m : M[k] \subseteq Nat
    BY QueryFacts DEF Divides
  <1>2. PICK sum : /\ Total(s) = sum[m] /\ sum[0] = 0
                   /\ \A n \in 1..m : sum[n] = sum[n - 1] + s[n]
    BY <1>1, TotalUnfolds
  <1> DEFINE T == {n \in 0..m : sum[n] = WorkFrom(U(n))}
  <1>3. 0 \in T
    <2>1. U(0) = {}
      OBVIOUS
    <2>2. WorkFrom({}) = 0
      <3>1. /\ {x \in Expanded(q) : x.seed \in {}} = {} /\ {l \in Looked(q) : l[1].seed \in {}} = {}
            /\ {r \in AllRows(q) : r.seed \in {}} = {}
        OBVIOUS
      <3>2. WorkFrom({}) = Cardinality({}) + Cardinality({}) + Cardinality({})
        BY <3>1 DEF WorkFrom
      <3>3. Cardinality({}) = 0
        BY FS_EmptySet
      <3> QED
        BY <3>2, <3>3
    <2>3. 0 \in 0..m
      BY <1>1
    <2>4. sum[0] = WorkFrom(U(0))
      <3> HIDE DEF U
      <3> QED
        BY <1>2, <2>1, <2>2
    <2> QED
      BY <2>3, <2>4
  <1>4. ASSUME NEW i \in 0..(m - 1), i \in T PROVE i + 1 \in T
    <2>1. i + 1 \in 1..m /\ (i + 1) - 1 = i /\ i + 1 \in 0..m /\ \A k \in 1..(i + 1) : k \in 1..i \/ k = i + 1
      BY <1>1
    <2>2. 1..i \subseteq 1..(i + 1) /\ \A k \in 1..i : k < i + 1 /\ k \in 1..m
      BY <1>1
    <2>3. U(i + 1) = U(i) \union M[i + 1]
      BY <2>1, <2>2
    <2>4. \A x \in U(i) : x \notin M[i + 1]
      <3>1. ASSUME NEW k \in 1..i, NEW x \in M[k], x \in M[i + 1] PROVE FALSE
        <4>1. x < x /\ x \in Nat
          BY <1>1, <2>1, <2>2, <3>1 DEF Divides
        <4> QED
          BY <4>1
      <3> QED
        BY <3>1
    <2> HIDE DEF U
    <2>5. WorkFrom(U(i + 1)) = WorkFrom(U(i)) + WorkFrom(M[i + 1])
      BY <2>3, <2>4, SplitWork
    <2> QED
      BY <1>2, <1>4, <2>1, <2>5
  <1> HIDE DEF T
  <1>5. m \in T
    <2>1. \A i \in 0..m : i \in T
      BY <1>1, <1>3, <1>4, CountUp
    <2> QED
      BY <1>1, <2>1
  <1>6. U(m) = SeedSet(q)
    BY DEF Divides
  <1> QED
    BY <1>2, <1>5, <1>6, WholeWork DEF T

(* Their rows, one list after the other, are all the rows in order.         *)
LEMMA RowsAddUp ==
  ASSUME IsQuery(q), q.mode # "scan", NEW M, NEW m, Divides(M, m),
         NEW ss, Len(ss) = m, \A k \in 1..m : Lists(ss[k], {r \in AllRows(q) : r.seed \in M[k]}, PathOrder)
  PROVE  Lists(FlattenSeq(ss), AllRows(q), PathOrder)
  <1> DEFINE R == [k \in 1..m |-> {r \in AllRows(q) : r.seed \in M[k]}]
  <1>1. m \in Nat \ {0}
    BY DEF Divides
  <1>2. \A k \in 1..m : Lists(ss[k], R[k], PathOrder)
    OBVIOUS
  <1>3. ASSUME NEW k \in 1..m, NEW l \in 1..m, k < l, NEW x \in R[k], NEW y \in R[l]
        PROVE  <<x, y>> \in PathOrder
    <2>1. x \in AllRows(q) /\ y \in AllRows(q) /\ x.seed \in M[k] /\ y.seed \in M[l]
      OBVIOUS
    <2>2. x.seed < y.seed
      BY <1>3, <2>1 DEF Divides
    <2> QED
      BY <2>1, <2>2 DEF PathOrder, Before, AllRows
  <1>4. UNION {R[k] : k \in 1..m} = AllRows(q)
    <2>1. ASSUME NEW r \in AllRows(q) PROVE \E k \in 1..m : r \in R[k]
      <3>1. r.seed \in SeedSet(q)
        BY RowFacts
      <3> QED
        BY <3>1 DEF Divides
    <2> QED
      BY <2>1
  <1> HIDE DEF R
  <1>5. Lists(FlattenSeq(ss), UNION {R[k] : k \in 1..Len(ss)}, PathOrder)
    BY <1>1, <1>2, <1>3, FlattenLists
  <1> QED
    BY <1>4, <1>5

-----------------------------------------------------------------------------
(* The order of keys.                                                       *)

\* A key is the sequence of the nodes of a path.
IsKey(s) == s \in Seq(DOMAIN q.verdict)

(* What a continuation key is compared by.                                  *)
LEMMA KeyFacts ==
  ASSUME IsQuery(q), NEW s, IsKey(s)
  PROVE  Len(s) \in Nat /\ DOMAIN s = 1..Len(s)
         /\ \A i \in 1..Len(s) : s[i] \in DOMAIN Rank /\ Rank[s[i]] \in Int
  <1>1. Len(s) \in Nat /\ DOMAIN s = 1..Len(s) /\ \A i \in 1..Len(s) : s[i] \in DOMAIN q.verdict
    BY LenProperties DEF IsKey
  <1>2. \A n \in DOMAIN q.verdict : n \in DOMAIN Rank /\ Rank[n] \in Int
    BY QueryFacts, RankAssumption
  <1> QED
    BY <1>1, <1>2

(* KeyLess is a strict total order of keys.                                 *)
LEMMA KeyStrict ==
  ASSUME IsQuery(q), NEW s, IsKey(s)
  PROVE  ~KeyLess(s, s)
  BY KeyFacts DEF KeyLess

(* KeyLess is transitive.                                                   *)
LEMMA KeyTransitive ==
  ASSUME IsQuery(q), NEW s, NEW t, NEW u, IsKey(s), IsKey(t), IsKey(u), KeyLess(s, t), KeyLess(t, u)
  PROVE  KeyLess(s, u)
  <1>1. /\ Len(s) \in Nat /\ Len(t) \in Nat /\ Len(u) \in Nat
        /\ \A i \in 1..Len(s) : Rank[s[i]] \in Int
        /\ \A i \in 1..Len(t) : Rank[t[i]] \in Int
        /\ \A i \in 1..Len(u) : Rank[u[i]] \in Int
    BY KeyFacts
  <1>2. PICK i \in 1..Len(t) : /\ \A j \in 1..(i-1) : j <= Len(s) /\ s[j] = t[j]
                               /\ i <= Len(s) => Rank[s[i]] < Rank[t[i]]
    BY DEF KeyLess
  <1>3. PICK k \in 1..Len(u) : /\ \A j \in 1..(k-1) : j <= Len(t) /\ t[j] = u[j]
                               /\ k <= Len(t) => Rank[t[k]] < Rank[u[k]]
    BY DEF KeyLess
  <1>4. i \in Nat \ {0} /\ k \in Nat \ {0} /\ i <= Len(t) /\ k <= Len(u)
    BY <1>1
  <1>5. CASE i < k
    <2>1. i \in 1..(k-1) /\ i \in 1..Len(u) /\ \A j \in 1..(i-1) : j \in 1..(k-1)
      BY <1>1, <1>4, <1>5
    <2>2. \A j \in 1..(i-1) : j <= Len(s) /\ s[j] = u[j]
      BY <1>2, <1>3, <2>1
    <2>3. i <= Len(s) => Rank[s[i]] < Rank[u[i]]
      BY <1>2, <1>3, <2>1
    <2> QED
      BY <2>1, <2>2, <2>3 DEF KeyLess
  <1>6. CASE k < i
    <2>1. k \in 1..(i-1) /\ k <= Len(t) /\ \A j \in 1..(k-1) : j \in 1..(i-1)
      BY <1>1, <1>4, <1>6
    <2>2. \A j \in 1..(k-1) : j <= Len(s) /\ s[j] = u[j]
      BY <1>2, <1>3, <2>1
    <2>3. Rank[s[k]] < Rank[u[k]]
      BY <1>2, <1>3, <2>1
    <2> QED
      BY <2>2, <2>3 DEF KeyLess
  <1>7. CASE i = k
    <2>1. \A j \in 1..(k-1) : j <= Len(s) /\ s[j] = u[j]
      BY <1>2, <1>3, <1>7
    <2>2. ASSUME k <= Len(s) PROVE Rank[s[k]] < Rank[u[k]]
      <3>1. Rank[s[k]] < Rank[t[k]] /\ Rank[t[k]] < Rank[u[k]]
        BY <1>2, <1>3, <1>4, <1>7, <2>2
      <3>2. k \in 1..Len(s) /\ k \in 1..Len(t)
        BY <1>1, <1>4, <1>7, <2>2
      <3> QED
        BY <1>1, <3>1, <3>2
    <2> QED
      BY <2>1, <2>2 DEF KeyLess
  <1> QED
    BY <1>4, <1>5, <1>6, <1>7

(* Any two keys are in order.                                               *)
LEMMA KeyTotal ==
  ASSUME IsQuery(q), NEW s, NEW t, IsKey(s), IsKey(t), s # t
  PROVE  KeyLess(s, t) \/ KeyLess(t, s)
  <1> DEFINE m == Len(s)
             n == Len(t)
             D == {i \in Nat \ {0} : (i <= m \/ i <= n) /\ ~(i <= m /\ i <= n /\ s[i] = t[i])}
  <1>1. /\ m \in Nat /\ n \in Nat
        /\ \A i \in 1..m : s[i] \in DOMAIN Rank /\ Rank[s[i]] \in Int
        /\ \A i \in 1..n : t[i] \in DOMAIN Rank /\ Rank[t[i]] \in Int
    BY KeyFacts
  <1>2. D # {}
    <2>1. ASSUME D = {} PROVE FALSE
      <3>1. m = n
        <4>1. CASE m < n
          <5>1. m + 1 \in D
            BY <1>1, <4>1
          <5> QED
            BY <2>1, <5>1
        <4>2. CASE n < m
          <5>1. n + 1 \in D
            BY <1>1, <4>2
          <5> QED
            BY <2>1, <5>1
        <4> QED
          BY <1>1, <4>1, <4>2
      <3>2. \A i \in 1..m : s[i] = t[i]
        BY <1>1, <2>1, <3>1
      <3>3. s = t
        BY <3>1, <3>2, SeqEqual DEF IsKey
      <3> QED
        BY <3>3
    <2> QED
      BY <2>1
  <1>3. D \in SUBSET Nat
    OBVIOUS
  <1>4. PICK i \in D : \A j \in D : i <= j
    BY <1>2, <1>3, MinExists
  <1>5. i \in Nat \ {0} /\ (i <= m \/ i <= n) /\ ~(i <= m /\ i <= n /\ s[i] = t[i])
    OBVIOUS
  <1>6. ASSUME NEW j \in 1..(i - 1) PROVE j <= m /\ j <= n /\ s[j] = t[j]
    <2>1. j \in Nat \ {0} /\ ~(i <= j) /\ (j <= m \/ j <= n)
      BY <1>1, <1>5
    <2>2. j \notin D
      BY <1>4, <2>1
    <2> QED
      BY <2>1, <2>2
  <1> HIDE DEF D
  <1>7. CASE ~(i <= m)
    <2>1. i \in 1..n
      BY <1>1, <1>5, <1>7
    <2> QED
      BY <1>6, <1>7, <2>1 DEF KeyLess
  <1>8. CASE ~(i <= n)
    <2>1. i \in 1..m /\ \A j \in 1..(i - 1) : t[j] = s[j]
      BY <1>1, <1>5, <1>6, <1>8
    <2> QED
      BY <1>6, <1>8, <2>1 DEF KeyLess
  <1>9. CASE i <= m /\ i <= n
    <2>1. i \in 1..m /\ i \in 1..n /\ s[i] # t[i] /\ \A j \in 1..(i - 1) : t[j] = s[j]
      BY <1>1, <1>5, <1>6, <1>9
    <2>2. Rank[s[i]] # Rank[t[i]]
      BY <1>1, <2>1, RankAssumption
    <2>3. Rank[s[i]] < Rank[t[i]] \/ Rank[t[i]] < Rank[s[i]]
      BY <1>1, <2>1, <2>2
    <2> QED
      BY <1>6, <2>1, <2>3 DEF KeyLess
  <1> QED
    BY <1>7, <1>8, <1>9

(* The nodes of a path are a key.                                           *)
LEMMA PathKey ==
  ASSUME IsQuery(q), NEW p \in Paths(q)
  PROVE  IsKey(NodesOf(q, p)) /\ PathCost(q, p) \in Int
  <1>1. InGraph(p) /\ IsWalk(p)
    BY PathFacts
  <1>2. IsKey(NodesOf(q, p))
    BY <1>1, NodesFacts DEF IsKey
  <1> DEFINE n == Len(p.edges)
             s == [i \in 1..n |-> q.edges[p.edges[i]].cost]
  <1>3. DOMAIN p.edges = 1..n /\ n \in Nat
    BY <1>1, WalkEdges DEF IsWalk
  <1>4. \A i \in 1..n : q.edges[p.edges[i]].cost \in Int
    BY <1>1, QueryFacts DEF InGraph
  <1>5. s \in [1..n -> Int]
    BY <1>4
  <1>6. PathCost(q, p) = Total(s)
    BY <1>3 DEF PathCost
  <1> HIDE DEF n
  <1>7. Len(s) = n /\ \A i \in 1..n : s[i] \in Int
    BY <1>3, <1>5, LenDomain
  <1> HIDE DEF s
  <1>8. Total(s) \in Int
    BY <1>3, <1>7, TotalInt
  <1> QED
    BY <1>2, <1>6, <1>8

-----------------------------------------------------------------------------
(* The order of the result.                                                 *)

\* Every row once, in the order of the query, before it is reversed.
Ranked(s) ==
  /\ s \in Seq(AllRows(q)) /\ ToSet(s) = AllRows(q) /\ Len(s) = Cardinality(AllRows(q))
  /\ \A i, j \in 1..Len(s) : i < j => InOrder(q, s[i], s[j])

(* Sorted by cost and key, in any order of equals, every row comes once and *)
(* in order.                                                                *)
LEMMA SortRanks ==
  ASSUME IsQuery(q), q.mode = "path", q.costed, NEW s, Lists(s, AllRows(q), PathOrder),
         NEW tie \in Ties
  PROVE  Ranked(SortedByCost(s, tie))
  <1> DEFINE n == Len(s)
             D == DOMAIN s
             cost == [i \in D |-> PathCost(q, s[i])]
             key == [i \in D |-> NodesOf(q, s[i])]
             rank == [i \in D |-> IF i \in DOMAIN tie THEN tie[i] ELSE i]
             Less(i, j) ==
               \/ cost[i] < cost[j]
               \/ cost[i] = cost[j] /\ KeyLess(key[i], key[j])
               \/ cost[i] = cost[j] /\ key[i] = key[j] /\ rank[i] < rank[j]
               \/ cost[i] = cost[j] /\ key[i] = key[j] /\ rank[i] = rank[j] /\ i < j
             before == [j \in D |-> {i \in D : Less(i, j)}]
             order == Listed(D, before)
             t == [i \in D |-> s[order[i]]]
             R == {l \in D \X D : l[1] \in before[l[2]]}
  <1>1. /\ n \in Nat /\ D = 1..n /\ s \in [1..n -> AllRows(q)] /\ ToSet(s) = AllRows(q)
    BY ListsElements
  <1>2. SortedByCost(s, tie) = t
    BY DEF SortedByCost
  <1>4. D \subseteq Nat
    BY <1>1
  <1>3. ASSUME NEW i \in D PROVE cost[i] \in Int /\ IsKey(key[i]) /\ rank[i] \in Int
    <2>1. cost[i] \in Int /\ IsKey(key[i])
      BY <1>1, PathKey DEF AllRows
    <2>2. rank[i] = IF i \in DOMAIN tie THEN tie[i] ELSE i
      OBVIOUS
    <2>3. rank[i] \in Int
      BY <1>4, <2>2, QueryExecAssumption
    <2> QED
      BY <2>1, <2>3
  <1>5. ASSUME NEW i \in D PROVE ~Less(i, i)
    <2> HIDE DEF cost, key, rank, D
    <2> QED
      BY <1>3, <1>4, KeyStrict
  <1>6. ASSUME NEW i \in D, NEW j \in D, NEW k \in D, Less(i, j), Less(j, k) PROVE Less(i, k)
    <2>1. /\ cost[i] \in Int /\ cost[j] \in Int /\ cost[k] \in Int /\ i \in Nat /\ j \in Nat /\ k \in Nat
          /\ IsKey(key[i]) /\ IsKey(key[j]) /\ IsKey(key[k])
          /\ rank[i] \in Int /\ rank[j] \in Int /\ rank[k] \in Int
      BY <1>3, <1>4
    <2> HIDE DEF cost, key, rank, D
    <2>2. CASE cost[i] # cost[j] \/ cost[j] # cost[k]
      BY <1>6, <2>1, <2>2
    <2>3. CASE cost[i] = cost[j] /\ cost[j] = cost[k]
      <3> DEFINE First(a, b) == rank[a] < rank[b] \/ (rank[a] = rank[b] /\ a < b)
      <3>1. /\ KeyLess(key[i], key[j]) \/ (key[i] = key[j] /\ First(i, j))
            /\ KeyLess(key[j], key[k]) \/ (key[j] = key[k] /\ First(j, k))
        BY <1>6, <2>1, <2>3
      <3>2. First(i, j) /\ First(j, k) => First(i, k)
        BY <2>1
      <3> HIDE DEF First
      <3>3. KeyLess(key[i], key[k]) \/ (key[i] = key[k] /\ First(i, k))
        BY <2>1, <3>1, <3>2, KeyTransitive
      <3> QED
        BY <2>3, <3>3 DEF First
    <2> QED
      BY <2>2, <2>3
  <1>7. ASSUME NEW i \in D, NEW j \in D, i # j PROVE Less(i, j) \/ Less(j, i)
    <2>1. /\ cost[i] \in Int /\ cost[j] \in Int /\ i \in Nat /\ j \in Nat
          /\ IsKey(key[i]) /\ IsKey(key[j]) /\ rank[i] \in Int /\ rank[j] \in Int
      BY <1>3, <1>4
    <2> HIDE DEF cost, key, rank, D
    <2>2. CASE cost[i] # cost[j]
      BY <2>1, <2>2
    <2>3. CASE cost[i] = cost[j] /\ key[i] # key[j]
      BY <2>1, <2>3, KeyTotal
    <2>4. CASE cost[i] = cost[j] /\ key[i] = key[j]
      BY <1>7, <2>1, <2>4
    <2> QED
      BY <2>2, <2>3, <2>4
  <1> HIDE DEF cost, key, rank, D, Less
  <1>8. TotalOrder(D, before)
    BY <1>5, <1>6, <1>7 DEF TotalOrder
  <1>9. IsFiniteSet(D) /\ Cardinality(D) = n
    <2>1. IsFiniteSet(1..n) /\ Cardinality(1..n) = n
      BY <1>1, FS_Interval
    <2> QED
      BY <1>1, <2>1
  <1>10. Lists(order, D, R)
    BY <1>8, <1>9, ListedLists
  <1>11. \A x : <<x, x>> \notin R
    BY <1>5
  <1> HIDE DEF order, R
  <1>12. Len(order) = n
    BY <1>9, <1>10, <1>11, ListsCardinality
  <1>13. order \in [1..n -> D] /\ \A x \in D : \E i \in 1..n : order[i] = x
    <2>1. order \in [1..Len(order) -> D]
      BY <1>10, ListsElements
    <2>2. \A x \in D : \E i \in 1..Len(order) : order[i] = x
      BY <1>10 DEF Lists
    <2> QED
      BY <1>12, <2>1, <2>2
  <1>14. t \in [1..n -> AllRows(q)] /\ \A i \in 1..n : t[i] = s[order[i]]
    BY <1>1, <1>13
  <1> HIDE DEF t, n
  <1>15. t \in Seq(AllRows(q)) /\ Len(t) = n /\ DOMAIN t = 1..n
    BY <1>1, <1>14, LenDomain
  <1>16. ToSet(t) = AllRows(q)
    <2>1. \A r \in AllRows(q) : \E i \in D : s[i] = r
      BY <1>1 DEF ToSet, D
    <2>2. \A r \in AllRows(q) : \E i \in 1..n : t[i] = r
      BY <1>13, <1>14, <2>1
    <2> QED
      BY <1>14, <1>15, <2>2 DEF ToSet
  <1>17. n = Cardinality(AllRows(q))
    BY PathOrderStrict, ListsCardinality DEF n
  <1>18. ASSUME NEW i \in 1..n, NEW j \in 1..n, i < j PROVE InOrder(q, t[i], t[j])
    <2>1. order[i] \in D /\ order[j] \in D /\ <<order[i], order[j]>> \in R
      BY <1>10, <1>12, <1>13, <1>18 DEF Lists
    <2>2. Less(order[i], order[j])
      BY <2>1 DEF R
    <2> DEFINE x == order[i]
               y == order[j]
    <2>3. /\ cost[x] = PathCost(q, s[x]) /\ cost[y] = PathCost(q, s[y])
          /\ key[x] = NodesOf(q, s[x]) /\ key[y] = NodesOf(q, s[y])
          /\ IsKey(key[x]) /\ IsKey(key[y])
      BY <1>3, <2>1 DEF cost, key
    <2> HIDE DEF x, y
    <2>4. cost[x] < cost[y] \/ (cost[x] = cost[y] /\ ~KeyLess(key[y], key[x]))
      <3>1. CASE KeyLess(key[x], key[y])
        <4>1. ~KeyLess(key[y], key[x])
          BY <2>3, <3>1, KeyStrict, KeyTransitive
        <4> QED
          BY <2>2, <4>1 DEF Less, x, y
      <3>2. CASE key[x] = key[y]
        <4>1. ~KeyLess(key[y], key[x])
          BY <2>3, <3>2, KeyStrict
        <4> QED
          BY <2>2, <4>1 DEF Less, x, y
      <3>3. CASE cost[x] < cost[y]
        BY <3>3
      <3> QED
        BY <2>2, <3>1, <3>2, <3>3 DEF Less, x, y
    <2>5. t[i] = s[x] /\ t[j] = s[y]
      BY <1>14 DEF x, y
    <2> QED
      BY <2>3, <2>4, <2>5 DEF InOrder
  <1> QED
    BY <1>2, <1>15, <1>16, <1>17, <1>18 DEF Ranked

(* Rows in the order of the search, where no other is asked for.            *)
LEMMA SearchRanks ==
  ASSUME IsQuery(q), ~(q.mode = "path" /\ q.costed), NEW s, Lists(s, AllRows(q), PathOrder)
  PROVE  Ranked(s)
  <1>1. s \in Seq(AllRows(q)) /\ ToSet(s) = AllRows(q)
    BY ListsElements
  <1>2. Len(s) = Cardinality(AllRows(q))
    BY PathOrderStrict, ListsCardinality
  <1>3. \A i, j \in 1..Len(s) : i < j => Before(s[i], s[j])
    BY DEF Lists, PathOrder
  <1> QED
    BY <1>1, <1>2, <1>3 DEF Ranked, InOrder

(* Reversed or not, ranked rows are the result.                             *)
LEMMA RankedIsResult ==
  ASSUME IsQuery(q), NEW s, Ranked(s)
  PROVE  LET rs == IF q.desc THEN Reverse(s) ELSE s
         IN  IsResult(q, rs) /\ rs \in Seq(Paths(q))
  <1> DEFINE n == Len(s)
  <1>1. n \in Nat /\ DOMAIN s = 1..n /\ s \in [1..n -> AllRows(q)] /\ ToSet(s) = AllRows(q)
        /\ n = Cardinality(AllRows(q))
    BY LenProperties DEF Ranked
  <1>2. \A S, u : u \in Seq(S) /\ S \subseteq Paths(q) => u \in Seq(Paths(q))
    BY SeqMonotonic
  <1>3. AllRows(q) \subseteq Paths(q)
    BY DEF AllRows
  <1>4. CASE ~q.desc
    BY <1>1, <1>2, <1>3, <1>4 DEF Ranked, IsResult
  <1>5. CASE q.desc
    <2> DEFINE t == [i \in 1..n |-> s[(n - i) + 1]]
    <2>1. Reverse(s) = t
      BY DEF Reverse
    <2> HIDE DEF n
    <2>2. \A i \in 1..n : (n - i) + 1 \in 1..n /\ (n - ((n - i) + 1)) + 1 = i
      BY <1>1
    <2>3. t \in [1..n -> AllRows(q)] /\ \A i \in 1..n : t[i] = s[(n - i) + 1]
      BY <1>1, <2>2
    <2> HIDE DEF t
    <2>4. t \in Seq(AllRows(q)) /\ Len(t) = n /\ DOMAIN t = 1..n
      BY <1>1, <2>3, LenDomain
    <2>5. ToSet(t) = AllRows(q)
      <3>1. \A r \in AllRows(q) : \E i \in 1..n : s[i] = r
        BY <1>1 DEF ToSet
      <3>2. \A i \in 1..n : t[(n - i) + 1] = s[i]
        BY <2>2, <2>3
      <3>3. \A r \in AllRows(q) : \E i \in 1..n : t[i] = r
        BY <2>2, <3>1, <3>2
      <3> QED
        BY <2>3, <2>4, <3>3 DEF ToSet
    <2>6. ASSUME NEW i \in 1..n, NEW j \in 1..n, i < j PROVE InOrder(q, t[j], t[i])
      <3>1. (n - j) + 1 < (n - i) + 1
        BY <1>1, <2>6
      <3> QED
        BY <2>2, <2>3, <3>1 DEF Ranked, n
    <2> QED
      BY <1>1, <1>2, <1>3, <1>5, <2>1, <2>4, <2>5, <2>6 DEF IsResult
  <1> QED
    BY <1>4, <1>5

(* The rows of the search, put in the order of the query, are the result.   *)
LEMMA ReturnedIsResult ==
  ASSUME IsQuery(q), NEW s, Lists(s, AllRows(q), PathOrder), NEW tie \in Ties
  PROVE  IsResult(q, Ordered(s, tie)) /\ Ordered(s, tie) \in Seq(Paths(q))
  <1>1. CASE q.mode = "path" /\ q.costed
    <2>1. Ranked(SortedByCost(s, tie))
      BY <1>1, SortRanks
    <2> QED
      BY <1>1, <2>1, RankedIsResult DEF Ordered
  <1>2. CASE ~(q.mode = "path" /\ q.costed)
    <2>1. Ranked(s)
      BY <1>2, SearchRanks
    <2> QED
      BY <1>2, <2>1, RankedIsResult DEF Ordered
  <1> QED
    BY <1>1, <1>2

-----------------------------------------------------------------------------
(***************************************************************************)
(* The steps of the executor.                                              *)
(***************************************************************************)

\* A partition p with the seeds S in a scan.
ScanPart(p, S) ==
  /\ S \subseteq SeedSet(q)
  /\ Lists(p.todo, ToSet(p.todo), NumberOrder) /\ ToSet(p.todo) \subseteq S
  /\ \A s \in S \ ToSet(p.todo), t \in ToSet(p.todo) : s < t
  /\ Lists(p.rows, {Start(s) : s \in S \ ToSet(p.todo)}, PathOrder)
  /\ p.queue = <<>> /\ p.adj = <<>>
  /\ p.work = Len(p.rows)

-----------------------------------------------------------------------------
(* The steps of a scan.                                                     *)
LEMMA ScanStarts ==
  ASSUME IsQuery(q), NEW s, NEW S, Lists(s, S, NumberOrder), S \subseteq SeedSet(q)
  PROVE  ScanPart(Part(s), S)
  <1> DEFINE p == Part(s)
  <1>1. p.todo = s /\ p.queue = <<>> /\ p.adj = <<>> /\ p.rows = <<>> /\ p.work = 0
    BY DEF Part
  <1>2. ToSet(s) = S
    BY ListsElements
  <1>3. {Start(x) : x \in S \ S} = {} /\ Len(<<>>) = 0
    OBVIOUS
  <1> HIDE DEF p
  <1> QED
    BY <1>1, <1>2, <1>3, ListsNothing DEF ScanPart, p

(* One more seed is scanned.                                                *)
LEMMA ScanNext ==
  ASSUME IsQuery(q), q.mode = "scan", NEW p, NEW S, ScanPart(p, S), p.todo # <<>>,
         NEW n, n.todo = Tail(p.todo), n.queue = <<>>, n.adj = <<>>,
         n.rows = Append(p.rows, Start(Head(p.todo))), n.work = p.work + 1
  PROVE  /\ ScanPart(n, S)
         /\ Len(p.rows) \in Nat /\ Len(n.rows) = Len(p.rows) + 1
         /\ Len(p.rows) + 1 <= Cardinality(AllRows(q)) /\ Cardinality(AllRows(q)) \in Nat
  <1> DEFINE T == ToSet(p.todo)
             t == Head(p.todo)
             F == {Start(s) : s \in S \ T}
             G == {Start(s) : s \in S \ (T \ {t})}
  <1>1. /\ S \subseteq SeedSet(q) /\ Lists(p.todo, T, NumberOrder) /\ T \subseteq S
        /\ \A s \in S \ T, x \in T : s < x
        /\ Lists(p.rows, F, PathOrder) /\ p.work = Len(p.rows)
    BY DEF ScanPart
  <1>2. t \in T /\ Lists(Tail(p.todo), T \ {t}, NumberOrder) /\ \A x \in T \ {t} : <<t, x>> \in NumberOrder
    BY <1>1, NumberOrderStrict, ListsTail
  <1> HIDE DEF T, t
  <1>3. ToSet(Tail(p.todo)) = T \ {t}
    BY <1>2, ListsElements
  <1>4. G = F \union {Start(t)}
    BY <1>1, <1>2
  <1>5. \A x \in F : <<x, Start(t)>> \in PathOrder
    <2>1. ASSUME NEW s \in S \ T PROVE <<Start(s), Start(t)>> \in PathOrder
      <3>1. Start(s) \in Paths(q) /\ Start(t) \in Paths(q) /\ Start(s).seed = s /\ Start(t).seed = t
        BY <1>1, <1>2, StartPath
      <3>2. s < t
        BY <1>1, <1>2
      <3> QED
        BY <3>1, <3>2 DEF PathOrder, Before
    <2> QED
      BY <2>1
  <1>6. Lists(n.rows, G, PathOrder)
    <2>1. n.rows = Append(p.rows, Start(t))
      BY DEF t
    <2> HIDE DEF F, G
    <2>2. Lists(Append(p.rows, Start(t)), F \union {Start(t)}, PathOrder)
      BY <1>1, <1>5, ListsAppend
    <2> QED
      BY <1>4, <2>1, <2>2
  <1>7. Len(p.rows) \in Nat /\ Len(n.rows) = Len(p.rows) + 1
    <2>1. Len(p.rows) = Cardinality(F) /\ Len(n.rows) = Cardinality(G) /\ IsFiniteSet(F)
      BY <1>1, <1>6, PathOrderStrict, ListsCardinality
    <2>2. Start(t) \notin F
      <3>1. \A s \in S \ T : Start(s).seed = s /\ Start(t).seed = t /\ s # t
        BY <1>1, <1>2, StartPath
      <3> QED
        BY <3>1
    <2> HIDE DEF F, G
    <2> QED
      BY <1>4, <2>1, <2>2, FS_AddElement, FS_CardinalityType
  <1>8. Len(n.rows) <= Cardinality(AllRows(q)) /\ Cardinality(AllRows(q)) \in Nat
    <2>1. G \in SUBSET AllRows(q)
      BY <1>1, ScanRows
    <2>2. IsFiniteSet(AllRows(q))
      BY PathsFinite
    <2> HIDE DEF F, G
    <2> QED
      <3>1. Len(n.rows) = Cardinality(G)
        BY <1>6, PathOrderStrict, ListsCardinality
      <3>2. Cardinality(G) <= Cardinality(AllRows(q)) /\ Cardinality(AllRows(q)) \in Nat
        BY <2>1, <2>2, FS_Subset, FS_CardinalityType
      <3> QED
        BY <3>1, <3>2
  <1>9. \A s \in S \ (T \ {t}), x \in T \ {t} : s < x
    <2>1. \A x \in T \ {t} : t < x
      BY <1>2 DEF NumberOrder
    <2> QED
      BY <1>1, <2>1
  <1>10. ScanPart(n, S)
    <2>1. n.work = Len(n.rows)
      BY <1>1, <1>7
    <2>2. n.todo = Tail(p.todo) /\ Lists(Tail(p.todo), ToSet(Tail(p.todo)), NumberOrder)
      BY <1>2, <1>3
    <2>3. Lists(n.rows, {Start(s) : s \in S \ ToSet(n.todo)}, PathOrder)
      BY <1>3, <1>6
    <2>4. \A s \in S \ ToSet(n.todo), x \in ToSet(n.todo) : s < x
      BY <1>3, <1>9
    <2> HIDE DEF F, G
    <2> QED
      BY <1>1, <1>3, <2>1, <2>2, <2>3, <2>4 DEF ScanPart
  <1> QED
    BY <1>7, <1>8, <1>10

(* A scan that has no seeds left is complete.                               *)
LEMMA ScanEnds ==
  ASSUME IsQuery(q), q.mode = "scan", NEW p, ScanPart(p, SeedSet(q)), p.todo = <<>>
  PROVE  Lists(p.rows, AllRows(q), PathOrder) /\ p.work = AllWork(q)
  <1>1. ToSet(p.todo) = {}
    BY NoElements
  <1>2. {Start(s) : s \in SeedSet(q) \ {}} = AllRows(q)
    BY ScanRows
  <1>3. Lists(p.rows, AllRows(q), PathOrder) /\ p.work = Len(p.rows)
    BY <1>1, <1>2 DEF ScanPart
  <1>4. Len(p.rows) = Cardinality(AllRows(q))
    BY <1>3, PathOrderStrict, ListsCardinality
  <1> QED
    BY <1>3, <1>4 DEF AllWork

-----------------------------------------------------------------------------
\* The seeds of partition k.
Mine(k) == ToSet(IF Concurrent THEN Chunks(seeds)[k] ELSE seeds)

\* Why a partition failed.
Cause(kind) ==
  /\ kind = "work" => ~Concurrent /\ AllWork(q) > q.work
  /\ kind = "rows" => ~Concurrent /\ Cardinality(AllRows(q)) > q.row
  /\ kind = "frontier" => ~FrontierFits(q)
  /\ kind = "type" => ~CostsUsable(q)
  /\ kind = "cancelled" => cancelled

\* What holds of a partition p with the seeds S.
GoodPart(p, S) ==
  /\ IsPart(p)
  /\ p.error \in {"none", "rows", "work", "frontier", "type", "cancelled"} /\ Cause(p.error)
  /\ ~Concurrent => p.work <= q.work /\ Len(p.rows) <= q.row
  /\ IF q.mode = "scan" THEN ScanPart(p, S) ELSE SearchPart(p, S)

InvParts ==
  parts # <<>> =>
    /\ pc \in {"expand", "done"} /\ ~TooManyHops
    /\ PredicateUsable(q) /\ Lists(seeds, SeedSet(q), NumberOrder)
    /\ DOMAIN parts = 1..Len(parts) /\ Len(parts) \in 1..MaxWorkers
    /\ Len(parts) = IF Concurrent THEN Len(Chunks(seeds)) ELSE 1
    /\ \A k \in DOMAIN parts : GoodPart(parts[k], Mine(k))

InvSeeds ==
  /\ pc = "start" => seeds = <<>>
  /\ pc = "plan" => PredicateUsable(q) /\ Lists(seeds, SeedSet(q), NumberOrder)
  /\ pc \in {"start", "plan"} => parts = <<>>
  /\ pc = "expand" => parts # <<>>
  /\ seeds # <<>> => Lists(seeds, SeedSet(q), NumberOrder)

InvCursor ==
  /\ pc \in {"start", "plan", "expand", "done"}
  /\ outcome = "none" <=> pc # "done"
  /\ outcome \in Kinds \union {"none", "result"}
  /\ outcome # "result" => rows = <<>> /\ offset = 0
  /\ rows \in Seq(Paths(q)) /\ offset \in 0..Len(rows)
  /\ delivered = SubSeq(rows, 1, offset)
  /\ offset > 0 => (complete <=> offset = Len(rows))
  /\ {cancelled, complete, closed} \subseteq BOOLEAN

IInv == IsQuery(q) /\ InvSeeds /\ InvParts /\ InvCursor /\ ErrorHasCause /\ ResultIsExact

-----------------------------------------------------------------------------
(* The steps of a partition.                                                *)

(* A new partition is good.                                                 *)
LEMMA GoodStarts ==
  ASSUME IsQuery(q), NEW s, NEW S, Lists(s, S, NumberOrder), S \subseteq SeedSet(q)
  PROVE  GoodPart(Part(s), S)
  <1>1. IsPart(Part(s)) /\ Part(s).error = "none" /\ Part(s).work = 0 /\ Part(s).rows = <<>>
    BY DEF IsPart, Part
  <1>2. Cause("none")
    BY DEF Cause
  <1>3. Len(<<>>) = 0 /\ q.work \in Nat /\ q.row \in Nat
    BY DEF IsQuery
  <1>4. IF q.mode = "scan" THEN ScanPart(Part(s), S) ELSE SearchPart(Part(s), S)
    BY ScanStarts, SearchStarts
  <1> HIDE DEF Part
  <1> QED
    BY <1>1, <1>2, <1>3, <1>4 DEF GoodPart

(* So is one that fails for a reason.                                       *)
LEMMA GoodFails ==
  ASSUME NEW p, NEW S, GoodPart(p, S), NEW kind \in {"rows", "work", "frontier", "type", "cancelled"}, Cause(kind)
  PROVE  GoodPart([p EXCEPT !.error = kind], S)
  <1> DEFINE n == [p EXCEPT !.error = kind]
  <1>1. IsPart(p)
    BY DEF GoodPart
  <1>2. n = [todo |-> p.todo, queue |-> p.queue, cur |-> p.cur, adj |-> p.adj,
             rows |-> p.rows, work |-> p.work, error |-> kind]
    BY <1>1 DEF IsPart
  <1>3. /\ IsPart(n) /\ n.error = kind /\ n.todo = p.todo /\ n.queue = p.queue /\ n.cur = p.cur
        /\ n.adj = p.adj /\ n.rows = p.rows /\ n.work = p.work
    BY <1>2 DEF IsPart
  <1> HIDE DEF n
  <1>4. ScanPart(p, S) => ScanPart(n, S)
    BY <1>3 DEF ScanPart
  <1>5. SearchPart(p, S) => SearchPart(n, S)
    BY <1>3 DEF SearchPart
  <1> QED
    BY <1>3, <1>4, <1>5 DEF GoodPart, n

(* How far a partition is depends on the query only.                        *)
LEMMA SameSearch ==
  ASSUME UNCHANGED <<q, seeds>>
  PROVE  /\ \A p, S : ScanPart(p, S)' <=> ScanPart(p, S)
         /\ \A p, S : SearchPart(p, S)' <=> SearchPart(p, S)
         /\ \A k : Mine(k)' = Mine(k)
         /\ Concurrent' = Concurrent
  <1>1. PathOrder' = PathOrder /\ Concurrent' = Concurrent /\ \A k : Mine(k)' = Mine(k)
    BY DEF PathOrder, Concurrent, Mine
  <1>2. \A p : Onward(p)' = Onward(p)
    BY DEF Onward
  <1>3. \A S, c : ExpandedTo(S, c)' = ExpandedTo(S, c)
    BY DEF ExpandedTo
  <1>4. \A S, c, A : LookedTo(S, c, A)' = LookedTo(S, c, A) /\ FoundTo(S, c, A)' = FoundTo(S, c, A)
    BY DEF LookedTo, FoundTo
  <1>5. \A S, c, A : Ahead(S, c, A)' = Ahead(S, c, A) /\ WorkTo(S, c, A)' = WorkTo(S, c, A)
    BY <1>3, <1>4 DEF Ahead, WorkTo
  <1>6. \A S, c, A : FitsSoFar(S, c, A)' <=> FitsSoFar(S, c, A)
    BY <1>4 DEF FitsSoFar
  <1>7. \A S, c : At(S, c)' <=> At(S, c)
    BY DEF At
  <1>8. \A p, S : SearchPart(p, S)' <=> SearchPart(p, S)
    BY <1>1, <1>2, <1>4, <1>5, <1>6, <1>7 DEF SearchPart
  <1>9. \A p, S : ScanPart(p, S)' <=> ScanPart(p, S)
    BY <1>1 DEF ScanPart
  <1> QED
    BY <1>1, <1>8, <1>9

(* Whether it is good depends on the token too, which is only ever set.     *)
LEMMA SameParts ==
  ASSUME UNCHANGED <<q, seeds>>, cancelled => cancelled'
  PROVE  /\ \A p, S : GoodPart(p, S) => GoodPart(p, S)'
         /\ \A k : Mine(k)' = Mine(k)
         /\ Concurrent' = Concurrent
  <1>1. \A kind : Cause(kind) => Cause(kind)'
    BY SameSearch DEF Cause
  <1> QED
    BY <1>1, SameSearch DEF GoodPart

(* Another step of one partition, which is good again.                      *)
LEMMA PartStep ==
  ASSUME IInv, pc = "expand", NEW k \in DOMAIN parts, NEW n, Become(k, n), GoodPart(n, Mine(k))
  PROVE  IInv'
  <1>1. /\ q' = q /\ pc' = pc /\ cancelled' = cancelled /\ seeds' = seeds /\ outcome' = outcome
        /\ rows' = rows /\ offset' = offset /\ delivered' = delivered /\ complete' = complete
        /\ closed' = closed /\ parts' = [parts EXCEPT ![k] = n]
    BY DEF Become, cursor
  <1>2. parts # <<>>
    BY DEF IInv, InvSeeds
  <1>3. /\ pc \in {"expand", "done"} /\ ~TooManyHops
        /\ PredicateUsable(q) /\ Lists(seeds, SeedSet(q), NumberOrder)
        /\ DOMAIN parts = 1..Len(parts) /\ Len(parts) \in 1..MaxWorkers
        /\ Len(parts) = IF Concurrent THEN Len(Chunks(seeds)) ELSE 1
        /\ \A j \in DOMAIN parts : GoodPart(parts[j], Mine(j))
    BY <1>2 DEF IInv, InvParts
  <1>4. DOMAIN parts' = DOMAIN parts /\ Len(parts') = Len(parts) /\ parts' # <<>>
    <2>1. DOMAIN parts' = DOMAIN parts
      BY <1>1
    <2>2. Len(parts) \in Nat
      BY <1>3, QueryExecAssumption
    <2>3. Len(parts') = Len(parts)
      BY <1>3, <2>1, <2>2, LenDomain
    <2>4. k \in DOMAIN parts'
      BY <2>1
    <2> QED
      BY <2>1, <2>3, <2>4
  <1>5. \A j \in DOMAIN parts : GoodPart(parts'[j], Mine(j))
    BY <1>1, <1>3
  <1>6. /\ \A p, S : GoodPart(p, S) => GoodPart(p, S)'
        /\ \A j : Mine(j)' = Mine(j)
        /\ Concurrent' = Concurrent
    BY <1>1, SameParts
  <1>7. \A j \in DOMAIN parts' : GoodPart(parts[j], Mine(j))'
    BY <1>4, <1>5, <1>6
  <1>8. TooManyHops' = TooManyHops
    BY <1>1 DEF TooManyHops
  <1>9. InvParts'
    BY <1>1, <1>3, <1>4, <1>6, <1>7, <1>8 DEF InvParts
  <1>10. InvSeeds'
    BY <1>1, <1>3, <1>4 DEF InvSeeds
  <1>11. InvCursor' /\ ErrorHasCause' /\ ResultIsExact'
    BY <1>1 DEF IInv, InvCursor, ErrorHasCause, ResultIsExact
  <1> QED
    BY <1>1, <1>9, <1>10, <1>11 DEF IInv

(* A partition keeps its fields.                                            *)
LEMMA PartFields ==
  ASSUME NEW p, IsPart(p)
  PROVE  DOMAIN p = {"todo", "queue", "cur", "adj", "rows", "work", "error"}
  BY DEF IsPart

(* A function with the fields of a partition is one.                        *)
LEMMA PartChanged ==
  ASSUME NEW p, IsPart(p), NEW n, DOMAIN n = DOMAIN p, n = [f \in DOMAIN n |-> n[f]]
  PROVE  IsPart(n)
  <1>1. DOMAIN n = {"todo", "queue", "cur", "adj", "rows", "work", "error"}
    BY PartFields
  <1> QED
    BY <1>1 DEF IsPart

(* A partition that is not finished.                                        *)
LEMMA Running ==
  ASSUME IInv, NEW k \in DOMAIN parts, Runs(k)
  PROVE  LET p == parts[k]
         IN  /\ pc = "expand" /\ IsQuery(q) /\ IsPart(p) /\ GoodPart(p, Mine(k)) /\ p.error = "none"
             /\ IF q.mode = "scan" THEN ScanPart(p, Mine(k)) ELSE SearchPart(p, Mine(k))
             /\ p.work \in Nat /\ Len(p.rows) \in Nat
             /\ ~Concurrent => p.work <= q.work /\ Len(p.rows) <= q.row
             /\ q.work \in Nat /\ q.row \in Nat /\ q.frontier \in Nat
             /\ ~(p.todo = <<>> /\ p.queue = <<>> /\ p.adj = <<>>)
  <1> DEFINE p == parts[k]
  <1>1. pc = "expand" /\ p.error = "none" /\ ~(p.todo = <<>> /\ p.queue = <<>> /\ p.adj = <<>>)
    BY DEF Runs, Exhausted
  <1>2. parts # <<>>
    BY <1>1 DEF IInv, InvSeeds
  <1>3. IsQuery(q) /\ GoodPart(p, Mine(k))
    BY <1>2 DEF IInv, InvParts
  <1>4. /\ IsPart(p) /\ (~Concurrent => p.work <= q.work /\ Len(p.rows) <= q.row)
        /\ IF q.mode = "scan" THEN ScanPart(p, Mine(k)) ELSE SearchPart(p, Mine(k))
    BY <1>3 DEF GoodPart
  <1>5. q.work \in Nat /\ q.row \in Nat /\ q.frontier \in Nat
    BY <1>3 DEF IsQuery
  <1>6. p.work \in Nat /\ Len(p.rows) \in Nat
    <2>1. CASE q.mode = "scan"
      <3>1. ScanPart(p, Mine(k))
        BY <1>4, <2>1
      <3>2. p.work = Len(p.rows) /\ p.rows \in Seq({Start(s) : s \in Mine(k) \ ToSet(p.todo)})
        BY <3>1 DEF ScanPart, Lists
      <3> QED
        BY <3>2, LenProperties
    <2>2. CASE q.mode # "scan"
      BY <1>3, <1>4, <2>2, RowsOfSearch
    <2> QED
      BY <2>1, <2>2
  <1> HIDE DEF p
  <1> QED
    BY <1>1, <1>3, <1>4, <1>5, <1>6 DEF p

(* A worker fails for a reason.                                             *)
LEMMA FailStep ==
  ASSUME IInv, NEW k \in DOMAIN parts, Runs(k),
         NEW kind \in {"rows", "work", "frontier", "type", "cancelled"}, Cause(kind), Fail(k, kind)
  PROVE  IInv'
  <1> DEFINE n == [parts[k] EXCEPT !.error = kind]
  <1>1. pc = "expand" /\ GoodPart(parts[k], Mine(k))
    BY Running
  <1>2. Become(k, n)
    BY DEF Fail
  <1>3. GoodPart(n, Mine(k))
    BY <1>1, GoodFails
  <1> QED
    BY <1>1, <1>2, <1>3, PartStep

(* A worker sees the token.                                                 *)
LEMMA PollStep ==
  ASSUME IInv, NEW k \in DOMAIN parts, PollSeesCancel(k)
  PROVE  IInv'
  <1>1. Runs(k) /\ Fail(k, "cancelled") /\ cancelled
    BY DEF PollSeesCancel
  <1>2. Cause("cancelled")
    BY <1>1 DEF Cause
  <1> QED
    BY <1>1, <1>2, FailStep

(* Work or rows beyond a limit that the whole query would not keep either.  *)
LEMMA TooMuchWork ==
  ASSUME NEW n \in Nat, OverWork(n), n <= AllWork(q), AllWork(q) \in Nat, q.work \in Nat
  PROVE  Cause("work")
  BY DEF OverWork, Cause

(* The same of the rows.                                                    *)
LEMMA TooManyRows ==
  ASSUME NEW n \in Nat, OverRows(n), n <= Cardinality(AllRows(q)), Cardinality(AllRows(q)) \in Nat,
         q.row \in Nat
  PROVE  Cause("rows")
  BY DEF OverRows, Cause

(* A partition that took a step within its limits is good.                  *)
LEMMA GoodNext ==
  ASSUME NEW n, NEW S, IsPart(n), n.error = "none",
         ~OverWork(n.work), ~OverRows(Len(n.rows)), n.work \in Nat, Len(n.rows) \in Nat,
         q.work \in Nat, q.row \in Nat,
         IF q.mode = "scan" THEN ScanPart(n, S) ELSE SearchPart(n, S)
  PROVE  GoodPart(n, S)
  <1>1. Cause("none")
    BY DEF Cause
  <1>2. ~Concurrent => n.work <= q.work /\ Len(n.rows) <= q.row
    BY DEF OverWork, OverRows
  <1> QED
    BY <1>1, <1>2 DEF GoodPart

(* ScanSeed keeps the invariant.                                            *)
LEMMA ScanStep ==
  ASSUME IInv, NEW k \in DOMAIN parts, ScanSeed(k)
  PROVE  IInv'
  <1> DEFINE p == parts[k]
             S == Mine(k)
             n == [p EXCEPT !.todo = Tail(@), !.work = @ + 1, !.rows = Append(@, Start(Head(p.todo)))]
  <1>1. Runs(k) /\ q.mode = "scan"
    BY DEF ScanSeed
  <1>2. /\ pc = "expand" /\ IsQuery(q) /\ IsPart(p) /\ p.error = "none" /\ ScanPart(p, S)
        /\ p.work \in Nat /\ Len(p.rows) \in Nat
        /\ q.work \in Nat /\ q.row \in Nat
        /\ ~(p.todo = <<>> /\ p.queue = <<>> /\ p.adj = <<>>)
    BY <1>1, Running
  <1>3. p.queue = <<>> /\ p.adj = <<>> /\ p.todo # <<>> /\ p.work = Len(p.rows)
    BY <1>2 DEF ScanPart
  <1>6. \/ OverWork(p.work + 1) /\ Fail(k, "work")
        \/ OverRows(Len(p.rows) + 1) /\ Fail(k, "rows")
        \/ ~OverWork(p.work + 1) /\ ~OverRows(Len(p.rows) + 1) /\ Become(k, n)
    BY DEF ScanSeed
  <1> HIDE DEF p, S
  <1>4. /\ n.todo = Tail(p.todo) /\ n.queue = <<>> /\ n.adj = <<>> /\ n.error = "none"
        /\ n.rows = Append(p.rows, Start(Head(p.todo))) /\ n.work = p.work + 1
    BY <1>2, <1>3, PartFields
  <1>5. IsPart(n)
    BY <1>2, PartChanged
  <1> HIDE DEF n
  <1>7. ScanPart(n, S) /\ Len(n.rows) = Len(p.rows) + 1 /\ Len(p.rows) + 1 <= Cardinality(AllRows(q))
        /\ Cardinality(AllRows(q)) \in Nat
    <2>1. /\ IsQuery(q) /\ q.mode = "scan" /\ ScanPart(p, S) /\ p.todo # <<>> /\ n.todo = Tail(p.todo)
          /\ n.queue = <<>> /\ n.adj = <<>>
          /\ n.rows = Append(p.rows, Start(Head(p.todo))) /\ n.work = p.work + 1
      BY <1>1, <1>2, <1>3, <1>4
    <2> QED
      BY ONLY <2>1, ScanNext
  <1>8. AllWork(q) = Cardinality(AllRows(q))
    BY <1>1 DEF AllWork
  <1>9. CASE OverWork(p.work + 1) /\ Fail(k, "work")
    <2>1. Cause("work")
      BY <1>2, <1>3, <1>7, <1>8, <1>9, TooMuchWork
    <2> QED
      BY <1>1, <1>9, <2>1, FailStep
  <1>10. CASE OverRows(Len(p.rows) + 1) /\ Fail(k, "rows")
    <2>1. Cause("rows")
      BY <1>2, <1>7, <1>10, TooManyRows
    <2> QED
      BY <1>1, <1>10, <2>1, FailStep
  <1>11. CASE ~OverWork(p.work + 1) /\ ~OverRows(Len(p.rows) + 1) /\ Become(k, n)
    <2>1. GoodPart(n, S)
      <3>1. ~OverWork(n.work) /\ ~OverRows(Len(n.rows)) /\ n.work \in Nat /\ Len(n.rows) \in Nat
        BY <1>2, <1>4, <1>7, <1>11
      <3> QED
        BY <1>1, <1>2, <1>4, <1>5, <1>7, <3>1, GoodNext
    <2> QED
      BY <1>2, <1>11, <2>1, PartStep DEF S
  <1> QED
    BY <1>6, <1>9, <1>10, <1>11

(* The edges that lead on from the next path.                               *)
LEMMA OnwardLists ==
  ASSUME IsQuery(q), NEW f \in Expanded(q)
  PROVE  /\ Len(f.edges) < MaxEdges(q) => Lists(Adjacent(q, EndOf(q, f)), Onward(f), NumberOrder)
         /\ ~(Len(f.edges) < MaxEdges(q)) => Lists(<<>>, Onward(f), NumberOrder)
  <1>1. CASE Len(f.edges) < MaxEdges(q)
    <2>1. Onward(f) = {e \in DOMAIN q.edges : Source(q, e) = EndOf(q, f)}
      BY <1>1 DEF Onward
    <2> QED
      BY <1>1, <2>1, AdjacentLists
  <1>2. CASE ~(Len(f.edges) < MaxEdges(q))
    <2>1. Onward(f) = {}
      BY <1>2 DEF Onward
    <2> QED
      BY <1>2, <2>1, ListsNothing
  <1> QED
    BY <1>1, <1>2

(* A partition that goes on to the next path within its limits.             *)
LEMMA GoodExpand ==
  ASSUME IsQuery(q), q.mode # "scan", NEW p, NEW S, SearchPart(p, S), p.adj = <<>>,
         NEW f, NextPath(S, p.cur, f), q.mode = "path" => q.frontier > 0,
         NEW n, IsPart(n), n.error = "none", n.cur = f, n.rows = p.rows, n.work = p.work + 1,
         Lists(n.todo, {s \in S : f.seed < s}, NumberOrder), Lists(n.adj, Onward(f), NumberOrder),
         IF q.mode = "path" THEN Lists(n.queue, Ahead(S, f, Onward(f)), PathOrder) ELSE n.queue = <<>>,
         ~OverWork(p.work + 1), ~Concurrent => Len(p.rows) <= q.row
  PROVE  GoodPart(n, S)
  <1>1. f \in Expanded(q) /\ f.seed \in S /\ Before(p.cur, f)
        /\ \A x \in Expanded(q) : x.seed \in S => ~(Before(p.cur, x) /\ Before(x, f))
    BY DEF NextPath
  <1>2. SearchPart(n, S)
    <2>1. /\ IsQuery(q) /\ q.mode # "scan" /\ SearchPart(p, S) /\ p.adj = <<>>
          /\ f \in Expanded(q) /\ f.seed \in S /\ Before(p.cur, f)
          /\ \A x \in Expanded(q) : x.seed \in S => ~(Before(p.cur, x) /\ Before(x, f))
          /\ n.cur = f /\ n.rows = p.rows /\ n.work = p.work + 1
          /\ Lists(n.todo, {s \in S : f.seed < s}, NumberOrder) /\ Lists(n.adj, Onward(f), NumberOrder)
          /\ IF q.mode = "path" THEN Lists(n.queue, Ahead(S, f, Onward(f)), PathOrder) ELSE n.queue = <<>>
          /\ q.mode = "path" => q.frontier > 0
      BY <1>1
    <2> QED
      BY ONLY <2>1, ExpandNext
  <1>3. p.work \in Nat /\ Len(p.rows) \in Nat /\ q.work \in Nat /\ q.row \in Nat
    BY RowsOfSearch DEF IsQuery
  <1>4. ~OverWork(n.work) /\ ~OverRows(Len(n.rows)) /\ n.work \in Nat /\ Len(n.rows) \in Nat
    BY <1>3 DEF OverRows
  <1> QED
    BY <1>2, <1>3, <1>4, GoodNext

(* StepSeed keeps the invariant.                                            *)
LEMMA StepSeedStep ==
  ASSUME IInv, NEW k \in DOMAIN parts, StepSeed(k)
  PROVE  IInv'
  <1> DEFINE p == parts[k]
             S == Mine(k)
             f == Start(Head(p.todo))
             n == [p EXCEPT !.todo = Tail(@), !.work = @ + 1, !.cur = Start(Head(p.todo)),
                            !.adj = Adjacent(q, Head(p.todo))]
  <1>1. Runs(k) /\ q.mode = "step" /\ p.adj = <<>>
    BY DEF StepSeed
  <1>2. /\ pc = "expand" /\ IsQuery(q) /\ IsPart(p) /\ p.error = "none" /\ SearchPart(p, S)
        /\ p.work \in Nat /\ q.work \in Nat
        /\ ~Concurrent => Len(p.rows) <= q.row
        /\ ~(p.todo = <<>> /\ p.queue = <<>> /\ p.adj = <<>>)
    BY <1>1, Running
  <1>3. \/ OverWork(p.work + 1) /\ Fail(k, "work")
        \/ ~OverWork(p.work + 1) /\ Become(k, n)
    BY DEF StepSeed
  <1> HIDE DEF p, S
  <1>4. p.queue = <<>> /\ p.todo # <<>>
    BY <1>1, <1>2 DEF SearchPart
  <1>5. /\ n.todo = Tail(p.todo) /\ n.work = p.work + 1 /\ n.cur = f /\ n.error = "none"
        /\ n.adj = Adjacent(q, Head(p.todo)) /\ n.queue = <<>> /\ n.rows = p.rows
    BY <1>2, <1>4, PartFields
  <1>6. IsPart(n)
    BY <1>2, PartChanged
  <1> HIDE DEF n
  <1>7. /\ NextPath(S, p.cur, f) /\ Lists(Tail(p.todo), {s \in S : f.seed < s}, NumberOrder)
        /\ Head(p.todo) \in SeedSet(q)
    <2>1. IsQuery(q) /\ q.mode # "scan" /\ SearchPart(p, S) /\ p.adj = <<>> /\ p.queue = <<>> /\ p.todo # <<>>
      BY <1>1, <1>2, <1>4
    <2> QED
      BY ONLY <2>1, TakeSeed
  <1>8. Lists(Adjacent(q, Head(p.todo)), Onward(f), NumberOrder)
    <2>1. f \in Expanded(q) /\ Len(f.edges) = 0 /\ f.seed = Head(p.todo)
      BY <1>2, <1>7, StartPath
    <2>2. MaxEdges(q) = 1
      BY <1>1 DEF MaxEdges
    <2>3. EndOf(q, f) = f.seed
      <3>1. Head(p.todo) \in DOMAIN q.verdict
        BY <1>7 DEF SeedSet
      <3>2. InGraph(f)
        BY <1>2, <3>1, StartInGraph
      <3>3. EndOf(q, f) = NodesOf(q, f)[Len(f.edges) + 1] /\ NodesOf(q, f)[1] = f.seed
        BY <1>2, <3>2, NodesFacts
      <3>4. Len(f.edges) + 1 = 1
        BY <2>1
      <3> QED
        BY ONLY <3>3, <3>4
    <2> HIDE DEF f
    <2>4. Len(f.edges) < MaxEdges(q)
      BY <2>1, <2>2
    <2>5. Lists(Adjacent(q, EndOf(q, f)), Onward(f), NumberOrder)
      BY <1>2, <2>1, <2>4, OnwardLists
    <2> QED
      BY <2>1, <2>3, <2>5
  <1> HIDE DEF f
  <1>9. AllWork(q) \in Nat /\ p.work + 1 <= AllWork(q)
    BY <1>1, <1>2, <1>7, WorkOfNext
  <1>10. CASE OverWork(p.work + 1) /\ Fail(k, "work")
    <2>1. Cause("work")
      BY <1>2, <1>9, <1>10, TooMuchWork
    <2> QED
      BY <1>1, <1>10, <2>1, FailStep
  <1>11. CASE ~OverWork(p.work + 1) /\ Become(k, n)
    <2>1. /\ IsQuery(q) /\ q.mode # "scan" /\ SearchPart(p, S) /\ p.adj = <<>>
          /\ NextPath(S, p.cur, f) /\ (q.mode = "path" => q.frontier > 0)
          /\ IsPart(n) /\ n.error = "none" /\ n.cur = f /\ n.rows = p.rows /\ n.work = p.work + 1
          /\ Lists(n.todo, {s \in S : f.seed < s}, NumberOrder) /\ Lists(n.adj, Onward(f), NumberOrder)
          /\ IF q.mode = "path" THEN Lists(n.queue, Ahead(S, f, Onward(f)), PathOrder) ELSE n.queue = <<>>
          /\ ~OverWork(p.work + 1) /\ (~Concurrent => Len(p.rows) <= q.row)
      BY <1>1, <1>2, <1>5, <1>6, <1>7, <1>8, <1>11
    <2>2. GoodPart(n, S)
      BY ONLY <2>1, GoodExpand
    <2> QED
      BY <1>2, <1>11, <2>2, PartStep DEF S
  <1> QED
    BY <1>3, <1>10, <1>11

(* Dequeue keeps the invariant: the next path, of the queue or a new seed.  *)
LEMMA DequeueStep ==
  ASSUME IInv, NEW k \in DOMAIN parts, Dequeue(k)
  PROVE  IInv'
  <1> DEFINE p == parts[k]
             S == Mine(k)
             F == Frontier(p)
             f == Head(F)
             adj == IF Len(f.edges) >= q.hops THEN <<>> ELSE Adjacent(q, EndOf(q, f))
             todo == IF p.queue = <<>> THEN Tail(p.todo) ELSE p.todo
             n == [p EXCEPT !.todo = todo, !.queue = Tail(F), !.work = @ + 1, !.cur = f, !.adj = adj]
  <1>1. Runs(k) /\ q.mode = "path" /\ p.adj = <<>>
    BY DEF Dequeue
  <1>2. /\ pc = "expand" /\ IsQuery(q) /\ IsPart(p) /\ p.error = "none" /\ SearchPart(p, S)
        /\ p.work \in Nat /\ q.work \in Nat /\ q.frontier \in Nat
        /\ ~Concurrent => Len(p.rows) <= q.row
        /\ ~(p.todo = <<>> /\ p.queue = <<>> /\ p.adj = <<>>)
    BY <1>1, Running
  <1>3. \/ OverWork(p.work + 1) /\ Fail(k, "work")
        \/ Len(F) > q.frontier /\ Fail(k, "frontier")
        \/ ~OverWork(p.work + 1) /\ Len(F) <= q.frontier /\ Become(k, n)
    BY DEF Dequeue
  <1> HIDE DEF p, S
  <1>4. /\ n.todo = todo /\ n.work = p.work + 1 /\ n.cur = f /\ n.error = "none"
        /\ n.adj = adj /\ n.queue = Tail(F) /\ n.rows = p.rows
    <2> HIDE DEF todo, F, f, adj
    <2> QED
      BY <1>2, PartFields
  <1>5. IsPart(n)
    <2> HIDE DEF todo, F, f, adj
    <2> QED
      BY <1>2, PartChanged
  <1> HIDE DEF n
  <1>6. /\ NextPath(S, p.cur, f) /\ Lists(Tail(F), Ahead(S, f, Onward(f)), PathOrder)
        /\ Lists(todo, {s \in S : f.seed < s}, NumberOrder)
        /\ Len(F) > q.frontier => ~FrontierFits(q)
        /\ Len(F) <= q.frontier => q.frontier > 0
    <2>1. CASE p.queue # <<>>
      <3>1. F = p.queue /\ todo = p.todo
        BY <2>1 DEF Frontier
      <3>2. IsQuery(q) /\ q.mode = "path" /\ SearchPart(p, S) /\ p.adj = <<>> /\ p.queue # <<>>
        BY <1>1, <1>2, <2>1
      <3>3. LET g == Head(p.queue)
            IN  /\ NextPath(S, p.cur, g) /\ g.seed = p.cur.seed
                /\ Lists(Tail(p.queue), Ahead(S, g, Onward(g)), PathOrder)
                /\ Lists(p.todo, {s \in S : g.seed < s}, NumberOrder)
        BY ONLY <3>2, TakeFromQueue
      <3>4. Len(p.queue) > q.frontier => ~FrontierFits(q)
        BY <3>2, QueueTooLong
      <3>5. Len(p.queue) \in Nat \ {0}
        <4>1. p.queue \in Seq(Ahead(S, p.cur, ToSet(p.adj)))
          BY <3>2 DEF SearchPart, Lists
        <4> HIDE DEF F
        <4> QED
          BY <2>1, <4>1, EmptySeq, LenProperties
      <3> QED
        BY <1>2, <3>1, <3>3, <3>4, <3>5
    <2>2. CASE p.queue = <<>>
      <3>1. F = <<Start(Head(p.todo))>> /\ todo = Tail(p.todo) /\ p.todo # <<>>
        BY <1>1, <1>2, <2>2 DEF Frontier
      <3>2. f = Start(Head(p.todo)) /\ Tail(F) = <<>> /\ Len(F) = 1
        BY <3>1
      <3>3. /\ IsQuery(q) /\ q.mode # "scan" /\ SearchPart(p, S) /\ p.adj = <<>> /\ p.queue = <<>>
            /\ p.todo # <<>>
        BY <1>1, <1>2, <2>2, <3>1
      <3>4. LET g == Start(Head(p.todo))
            IN  /\ NextPath(S, p.cur, g)
                /\ q.mode = "path" => Lists(<<>>, Ahead(S, g, Onward(g)), PathOrder)
                /\ Lists(Tail(p.todo), {s \in S : g.seed < s}, NumberOrder)
                /\ SeedSet(q) # {}
        BY ONLY <3>3, TakeSeed
      <3>5. ~(q.frontier > 0) => ~FrontierFits(q)
        BY <1>1, <3>4 DEF FrontierFits
      <3> HIDE DEF F, f
      <3>6. /\ Len(F) > q.frontier => ~(q.frontier > 0)
            /\ Len(F) <= q.frontier => q.frontier > 0
        BY <1>2, <3>2
      <3> QED
        BY <1>1, <3>1, <3>2, <3>4, <3>5, <3>6
    <2> QED
      BY <2>1, <2>2
  <1>7. Lists(adj, Onward(f), NumberOrder)
    <2>1. f \in Expanded(q)
      BY <1>6 DEF NextPath
    <2>2. Len(f.edges) \in Nat /\ MaxEdges(q) = q.hops /\ q.hops \in Nat
      <3>1. f \in Paths(q)
        BY <1>2, <2>1, ExpandedFacts
      <3> HIDE DEF f
      <3> QED
        BY <1>1, <1>2, <3>1, PathFacts DEF MaxEdges, IsQuery
    <2> HIDE DEF f, F
    <2>3. Len(f.edges) >= q.hops <=> ~(Len(f.edges) < MaxEdges(q))
      BY <2>2
    <2> QED
      BY <1>2, <2>1, <2>3, OnwardLists
  <1> HIDE DEF F, f, adj, todo
  <1>8. AllWork(q) \in Nat /\ p.work + 1 <= AllWork(q)
    BY <1>1, <1>2, <1>6, WorkOfNext
  <1>9. CASE OverWork(p.work + 1) /\ Fail(k, "work")
    <2>1. Cause("work")
      BY <1>2, <1>8, <1>9, TooMuchWork
    <2> QED
      BY <1>1, <1>9, <2>1, FailStep
  <1>10. CASE Len(F) > q.frontier /\ Fail(k, "frontier")
    <2>1. Cause("frontier")
      BY <1>6, <1>10 DEF Cause
    <2> QED
      BY <1>1, <1>10, <2>1, FailStep
  <1>11. CASE ~OverWork(p.work + 1) /\ Len(F) <= q.frontier /\ Become(k, n)
    <2>1. /\ IsQuery(q) /\ q.mode # "scan" /\ SearchPart(p, S) /\ p.adj = <<>>
          /\ NextPath(S, p.cur, f) /\ (q.mode = "path" => q.frontier > 0)
          /\ IsPart(n) /\ n.error = "none" /\ n.cur = f /\ n.rows = p.rows /\ n.work = p.work + 1
          /\ Lists(n.todo, {s \in S : f.seed < s}, NumberOrder) /\ Lists(n.adj, Onward(f), NumberOrder)
          /\ IF q.mode = "path" THEN Lists(n.queue, Ahead(S, f, Onward(f)), PathOrder) ELSE n.queue = <<>>
          /\ ~OverWork(p.work + 1) /\ (~Concurrent => Len(p.rows) <= q.row)
      BY <1>1, <1>2, <1>4, <1>5, <1>6, <1>7, <1>11
    <2>2. GoodPart(n, S)
      BY ONLY <2>1, GoodExpand
    <2> QED
      BY <1>2, <1>11, <2>2, PartStep DEF S
  <1> QED
    BY <1>3, <1>9, <1>10, <1>11

(* What is known when an edge is looked at.                                 *)
LEMMA AtEdge ==
  ASSUME IInv, NEW k \in DOMAIN parts, Runs(k), q.mode # "scan", parts[k].adj # <<>>
  PROVE  LET p == parts[k]
             r == Along(p.cur, Head(p.adj))
         IN  /\ p.work + 1 <= AllWork(q) /\ AllWork(q) \in Nat
             /\ r \in AllRows(q) <=>
                  (q.mode = "path" => Target(q, Head(p.adj)) \notin ToSet(NodesOf(q, p.cur)))
             /\ r \in AllRows(q) =>
                  /\ p.work + 2 <= AllWork(q) /\ Len(p.rows) + 1 <= Cardinality(AllRows(q))
                  /\ Last(r.edges) = Head(p.adj)
                  /\ q.mode = "path" /\ Len(p.queue) >= q.frontier => ~FrontierFits(q)
             /\ Cardinality(AllRows(q)) \in Nat
             /\ q.mode # "path" => p.queue = <<>>
             /\ q.mode = "path" => p.queue \in Seq(AllRows(q)) /\ Len(p.queue) \in Nat
             /\ p.rows \in Seq(AllRows(q))
  <1> DEFINE p == parts[k]
             S == Mine(k)
  <1>1. IsQuery(q) /\ SearchPart(p, S)
    BY Running
  <1>2. p.adj # <<>>
    OBVIOUS
  <1> HIDE DEF p, S
  <1>3. /\ p.work + 1 <= AllWork(q) /\ AllWork(q) \in Nat
        /\ Along(p.cur, Head(p.adj)) \in AllRows(q) =>
             p.work + 2 <= AllWork(q) /\ Len(p.rows) + 1 <= Cardinality(AllRows(q))
    BY <1>1, <1>2, WorkOfEdge
  <1>4. p.cur \in Expanded(q) /\ Head(p.adj) \in Onward(p.cur)
    BY <1>1, <1>2, FirstEdge
  <1>5. /\ Last(Along(p.cur, Head(p.adj)).edges) = Head(p.adj)
        /\ Along(p.cur, Head(p.adj)) \in AllRows(q) <=>
             (q.mode = "path" => Target(q, Head(p.adj)) \notin ToSet(NodesOf(q, p.cur)))
    BY <1>1, <1>4, RowAlong
  <1>6. q.mode = "path" /\ Len(p.queue) >= q.frontier /\ Along(p.cur, Head(p.adj)) \in AllRows(q)
          => ~FrontierFits(q)
    BY <1>1, <1>2, NoRoomToJoin
  <1>7. Cardinality(AllRows(q)) \in Nat
    BY <1>1, DoneFinite
  <1>8. /\ q.mode # "path" => p.queue = <<>>
        /\ q.mode = "path" => p.queue \in Seq(Ahead(S, p.cur, ToSet(p.adj)))
        /\ p.rows \in Seq(FoundTo(S, p.cur, ToSet(p.adj)))
    BY <1>1 DEF SearchPart, Lists
  <1>9. Ahead(S, p.cur, ToSet(p.adj)) \subseteq AllRows(q) /\ FoundTo(S, p.cur, ToSet(p.adj)) \subseteq AllRows(q)
    BY DEF Ahead, FoundTo
  <1>10. /\ q.mode = "path" => p.queue \in Seq(AllRows(q)) /\ Len(p.queue) \in Nat
         /\ p.rows \in Seq(AllRows(q))
    BY <1>8, <1>9, SeqMonotonic, LenProperties
  <1> QED
    BY <1>3, <1>5, <1>6, <1>7, <1>8, <1>10 DEF p

(* SkipEdge keeps the invariant.                                            *)
LEMMA SkipEdgeStep ==
  ASSUME IInv, NEW k \in DOMAIN parts, SkipEdge(k)
  PROVE  IInv'
  <1> DEFINE p == parts[k]
             S == Mine(k)
             n == [p EXCEPT !.adj = Tail(@), !.work = @ + 1]
  <1>1. Runs(k) /\ q.mode = "path" /\ p.adj # <<>> /\ Target(q, Head(p.adj)) \in ToSet(NodesOf(q, p.cur))
    BY DEF SkipEdge, OnPath
  <1>2. /\ pc = "expand" /\ IsQuery(q) /\ IsPart(p) /\ p.error = "none" /\ SearchPart(p, S)
        /\ p.work \in Nat /\ q.work \in Nat /\ q.row \in Nat /\ Len(p.rows) \in Nat
        /\ ~Concurrent => Len(p.rows) <= q.row
    BY <1>1, Running
  <1>3. \/ OverWork(p.work + 1) /\ Fail(k, "work")
        \/ ~OverWork(p.work + 1) /\ Become(k, n)
    BY DEF SkipEdge
  <1>4. /\ p.work + 1 <= AllWork(q) /\ AllWork(q) \in Nat
        /\ Along(p.cur, Head(p.adj)) \notin AllRows(q)
    BY <1>1, AtEdge
  <1> HIDE DEF p, S
  <1>5. /\ n.todo = p.todo /\ n.work = p.work + 1 /\ n.cur = p.cur /\ n.error = "none"
        /\ n.adj = Tail(p.adj) /\ n.queue = p.queue /\ n.rows = p.rows
    BY <1>2, PartFields
  <1>6. IsPart(n)
    BY <1>2, PartChanged
  <1> HIDE DEF n
  <1>7. CASE OverWork(p.work + 1) /\ Fail(k, "work")
    <2>1. Cause("work")
      BY <1>2, <1>4, <1>7, TooMuchWork
    <2> QED
      BY <1>1, <1>7, <2>1, FailStep
  <1>8. CASE ~OverWork(p.work + 1) /\ Become(k, n)
    <2>1. /\ IsQuery(q) /\ q.mode # "scan" /\ SearchPart(p, S) /\ p.adj # <<>>
          /\ Along(p.cur, Head(p.adj)) \notin AllRows(q)
          /\ n.cur = p.cur /\ n.rows = p.rows /\ n.work = p.work + 1 /\ n.todo = p.todo
          /\ n.adj = Tail(p.adj) /\ n.queue = p.queue
      BY <1>1, <1>2, <1>4, <1>5
    <2>2. SearchPart(n, S)
      BY ONLY <2>1, SkipFirstEdge
    <2>3. ~OverWork(n.work) /\ ~OverRows(Len(n.rows)) /\ n.work \in Nat /\ Len(n.rows) \in Nat
      BY <1>2, <1>5, <1>8 DEF OverRows
    <2>4. GoodPart(n, S)
      BY <1>1, <1>2, <1>5, <1>6, <2>2, <2>3, GoodNext
    <2> QED
      BY <1>2, <1>8, <2>4, PartStep DEF S
  <1> QED
    BY <1>3, <1>7, <1>8

(* A partition that finds a row within its limits.                          *)
LEMMA GoodRow ==
  ASSUME IsQuery(q), q.mode # "scan", NEW p, NEW S, SearchPart(p, S), p.adj # <<>>, p.rows \in Seq(AllRows(q)),
         NEW r, r = Along(p.cur, Head(p.adj)), r \in AllRows(q),
         NEW n, IsPart(n), n.error = "none", n.cur = p.cur, n.rows = Append(p.rows, r),
         n.work = p.work + 2, n.todo = p.todo, n.adj = Tail(p.adj),
         n.queue = IF q.mode = "path" THEN Append(p.queue, r) ELSE p.queue,
         q.mode = "path" => /\ Len(p.queue) < q.frontier
                            /\ q.costed => q.edges[Head(p.adj)].cost # BadCost,
         ~OverWork(p.work + 2), ~OverRows(Len(p.rows) + 1)
  PROVE  GoodPart(n, S)
  <1>1. SearchPart(n, S)
    <2>1. /\ IsQuery(q) /\ q.mode # "scan" /\ SearchPart(p, S) /\ p.adj # <<>>
          /\ Along(p.cur, Head(p.adj)) \in AllRows(q)
          /\ n.cur = p.cur /\ n.rows = Append(p.rows, Along(p.cur, Head(p.adj)))
          /\ n.work = p.work + 2 /\ n.todo = p.todo /\ n.adj = Tail(p.adj)
          /\ n.queue = IF q.mode = "path" THEN Append(p.queue, Along(p.cur, Head(p.adj))) ELSE p.queue
          /\ q.mode = "path" => /\ Len(p.queue) < q.frontier
                                /\ q.costed => q.edges[Head(p.adj)].cost # BadCost
      OBVIOUS
    <2> QED
      BY ONLY <2>1, FollowFirstEdge
  <1>2. Len(n.rows) = Len(p.rows) + 1 /\ Len(p.rows) \in Nat
    BY AppendProperties, LenProperties
  <1>3. p.work \in Nat /\ q.work \in Nat /\ q.row \in Nat
    BY RowsOfSearch DEF IsQuery
  <1>4. ~OverWork(n.work) /\ ~OverRows(Len(n.rows)) /\ n.work \in Nat /\ Len(n.rows) \in Nat
    BY <1>2, <1>3
  <1> QED
    BY <1>1, <1>3, <1>4, GoodNext

(* StepEdge keeps the invariant.                                            *)
LEMMA StepEdgeStep ==
  ASSUME IInv, NEW k \in DOMAIN parts, StepEdge(k)
  PROVE  IInv'
  <1> DEFINE p == parts[k]
             S == Mine(k)
             r == Along(p.cur, Head(p.adj))
             n == [p EXCEPT !.adj = Tail(@), !.work = @ + 2, !.rows = Append(@, Along(p.cur, Head(p.adj)))]
  <1>1. Runs(k) /\ q.mode = "step" /\ p.adj # <<>>
    BY DEF StepEdge
  <1>2. /\ pc = "expand" /\ IsQuery(q) /\ IsPart(p) /\ p.error = "none" /\ SearchPart(p, S)
        /\ p.work \in Nat /\ q.work \in Nat /\ q.row \in Nat /\ Len(p.rows) \in Nat
    BY <1>1, Running
  <1>3. \/ OverWork(p.work + 2) /\ Fail(k, "work")
        \/ OverRows(Len(p.rows) + 1) /\ Fail(k, "rows")
        \/ ~OverWork(p.work + 2) /\ ~OverRows(Len(p.rows) + 1) /\ Become(k, n)
    BY DEF StepEdge
  <1>4. /\ p.work + 2 <= AllWork(q) /\ AllWork(q) \in Nat /\ r \in AllRows(q)
        /\ Len(p.rows) + 1 <= Cardinality(AllRows(q)) /\ Cardinality(AllRows(q)) \in Nat
        /\ p.rows \in Seq(AllRows(q))
    BY <1>1, AtEdge
  <1> HIDE DEF p, S
  <1>5. /\ n.todo = p.todo /\ n.work = p.work + 2 /\ n.cur = p.cur /\ n.error = "none"
        /\ n.adj = Tail(p.adj) /\ n.queue = p.queue /\ n.rows = Append(p.rows, r)
    BY <1>2, PartFields
  <1>6. IsPart(n)
    BY <1>2, PartChanged
  <1> HIDE DEF n
  <1>7. CASE OverWork(p.work + 2) /\ Fail(k, "work")
    <2>1. Cause("work")
      BY <1>2, <1>4, <1>7, TooMuchWork
    <2> QED
      BY <1>1, <1>7, <2>1, FailStep
  <1>8. CASE OverRows(Len(p.rows) + 1) /\ Fail(k, "rows")
    <2>1. Cause("rows")
      BY <1>2, <1>4, <1>8, TooManyRows
    <2> QED
      BY <1>1, <1>8, <2>1, FailStep
  <1>9. CASE ~OverWork(p.work + 2) /\ ~OverRows(Len(p.rows) + 1) /\ Become(k, n)
    <2> HIDE DEF r
    <2>1. GoodPart(n, S)
      <3>1. r = Along(p.cur, Head(p.adj))
        BY DEF r
      <3>2. /\ IsQuery(q) /\ q.mode # "scan" /\ SearchPart(p, S) /\ p.adj # <<>> /\ p.rows \in Seq(AllRows(q))
            /\ r = Along(p.cur, Head(p.adj)) /\ r \in AllRows(q)
            /\ IsPart(n) /\ n.error = "none" /\ n.cur = p.cur /\ n.rows = Append(p.rows, r)
            /\ n.work = p.work + 2 /\ n.todo = p.todo /\ n.adj = Tail(p.adj)
            /\ n.queue = IF q.mode = "path" THEN Append(p.queue, r) ELSE p.queue
            /\ q.mode = "path" => /\ Len(p.queue) < q.frontier
                                  /\ q.costed => q.edges[Head(p.adj)].cost # BadCost
            /\ ~OverWork(p.work + 2) /\ ~OverRows(Len(p.rows) + 1)
        BY <1>1, <1>2, <1>4, <1>5, <1>6, <1>9, <3>1
      <3> QED
        BY ONLY <3>2, GoodRow
    <2> QED
      BY <1>2, <1>9, <2>1, PartStep DEF S
  <1> QED
    BY <1>3, <1>7, <1>8, <1>9

(* ExtendPath keeps the invariant: the cost, the row and the frontier fail  *)
(* only where the whole query does.                                         *)
LEMMA ExtendPathStep ==
  ASSUME IInv, NEW k \in DOMAIN parts, ExtendPath(k)
  PROVE  IInv'
  <1> DEFINE p == parts[k]
             S == Mine(k)
             e == Head(p.adj)
             r == Along(p.cur, e)
             n == [p EXCEPT !.adj = Tail(@), !.work = @ + 2, !.rows = Append(@, r), !.queue = Append(@, r)]
  <1>1. Runs(k) /\ q.mode = "path" /\ p.adj # <<>> /\ ~OnPath(p, e)
    BY DEF ExtendPath
  <1>2. /\ pc = "expand" /\ IsQuery(q) /\ IsPart(p) /\ p.error = "none" /\ SearchPart(p, S)
        /\ p.work \in Nat /\ q.work \in Nat /\ q.row \in Nat /\ Len(p.rows) \in Nat /\ q.frontier \in Nat
    BY <1>1, Running
  <1>3. \/ OverWork(p.work + 1) /\ Fail(k, "work")
        \/ UnusableCost(e) /\ Fail(k, "type")
        \/ OverWork(p.work + 2) /\ Fail(k, "work")
        \/ OverRows(Len(p.rows) + 1) /\ Fail(k, "rows")
        \/ Len(p.queue) >= q.frontier /\ Fail(k, "frontier")
        \/ /\ ~OverWork(p.work + 2) /\ ~OverRows(Len(p.rows) + 1) /\ ~UnusableCost(e)
           /\ Len(p.queue) < q.frontier /\ Become(k, n)
    BY DEF ExtendPath
  <1>4. /\ p.work + 1 <= AllWork(q) /\ p.work + 2 <= AllWork(q) /\ AllWork(q) \in Nat /\ r \in AllRows(q)
        /\ Len(p.rows) + 1 <= Cardinality(AllRows(q)) /\ Cardinality(AllRows(q)) \in Nat
        /\ p.rows \in Seq(AllRows(q)) /\ Last(r.edges) = e
        /\ Len(p.queue) >= q.frontier => ~FrontierFits(q)
    BY <1>1, AtEdge DEF OnPath
  <1> HIDE DEF p, S
  <1>5. /\ n.todo = p.todo /\ n.work = p.work + 2 /\ n.cur = p.cur /\ n.error = "none"
        /\ n.adj = Tail(p.adj) /\ n.queue = Append(p.queue, r) /\ n.rows = Append(p.rows, r)
    <2> HIDE DEF r
    <2> QED
      BY <1>2, PartFields
  <1>6. IsPart(n)
    <2> HIDE DEF r
    <2> QED
      BY <1>2, PartChanged
  <1> HIDE DEF n
  <1>7. ASSUME Cause("work"), Fail(k, "work") PROVE IInv'
    BY <1>1, <1>7, FailStep
  <1>8. CASE OverWork(p.work + 1) /\ Fail(k, "work")
    BY <1>2, <1>4, <1>7, <1>8, TooMuchWork
  <1>9. CASE OverWork(p.work + 2) /\ Fail(k, "work")
    BY <1>2, <1>4, <1>7, <1>9, TooMuchWork
  <1>10. CASE UnusableCost(e) /\ Fail(k, "type")
    <2>1. ~CostsUsable(q)
      BY <1>1, <1>4, <1>10 DEF UnusableCost, CostsUsable
    <2>2. Cause("type")
      BY <2>1 DEF Cause
    <2> QED
      BY <1>1, <1>10, <2>2, FailStep
  <1>11. CASE OverRows(Len(p.rows) + 1) /\ Fail(k, "rows")
    <2>1. Cause("rows")
      BY <1>2, <1>4, <1>11, TooManyRows
    <2> QED
      BY <1>1, <1>11, <2>1, FailStep
  <1>12. CASE Len(p.queue) >= q.frontier /\ Fail(k, "frontier")
    <2>1. Cause("frontier")
      BY <1>4, <1>12 DEF Cause
    <2> QED
      BY <1>1, <1>12, <2>1, FailStep
  <1>13. CASE /\ ~OverWork(p.work + 2) /\ ~OverRows(Len(p.rows) + 1) /\ ~UnusableCost(e)
              /\ Len(p.queue) < q.frontier /\ Become(k, n)
    <2>0. r = Along(p.cur, Head(p.adj)) /\ (q.costed => q.edges[Head(p.adj)].cost # BadCost)
      BY <1>13 DEF UnusableCost
    <2> HIDE DEF r
    <2>1. GoodPart(n, S)
      <3>1. /\ IsQuery(q) /\ q.mode # "scan" /\ SearchPart(p, S) /\ p.adj # <<>> /\ p.rows \in Seq(AllRows(q))
            /\ r = Along(p.cur, Head(p.adj)) /\ r \in AllRows(q)
            /\ IsPart(n) /\ n.error = "none" /\ n.cur = p.cur /\ n.rows = Append(p.rows, r)
            /\ n.work = p.work + 2 /\ n.todo = p.todo /\ n.adj = Tail(p.adj)
            /\ n.queue = IF q.mode = "path" THEN Append(p.queue, r) ELSE p.queue
            /\ q.mode = "path" => /\ Len(p.queue) < q.frontier
                                  /\ q.costed => q.edges[Head(p.adj)].cost # BadCost
            /\ ~OverWork(p.work + 2) /\ ~OverRows(Len(p.rows) + 1)
        BY <1>1, <1>2, <1>4, <1>5, <1>6, <1>13, <2>0
      <3> QED
        BY ONLY <3>1, GoodRow
    <2> QED
      BY <1>2, <1>13, <2>1, PartStep DEF S
  <1> QED
    BY <1>3, <1>8, <1>9, <1>10, <1>11, <1>12, <1>13

(* A step of a worker.                                                      *)
LEMMA WorkerKeeps ==
  ASSUME IInv, NEW k \in DOMAIN parts, WorkerStep(k)
  PROVE  IInv'
  BY PollStep, ScanStep, StepSeedStep, StepEdgeStep, DequeueStep, SkipEdgeStep, ExtendPathStep
     DEF WorkerStep

\* Why an execution failed.
Why(kind) ==
  /\ kind = "rows" => Cardinality(AllRows(q)) > q.row
  /\ kind = "work" => AllWork(q) > q.work
  /\ kind = "frontier" => ~FrontierFits(q)
  /\ kind = "hops" => TooManyHops
  /\ kind = "type" => ~(PredicateUsable(q) /\ CostsUsable(q))
  /\ kind = "cancelled" => cancelled

-----------------------------------------------------------------------------
(* The limits one by one.                                                   *)
LEMMA NotFits ==
  ASSUME IsQuery(q), NEW kind \in DOMAIN Fits(q), Why(kind)
  PROVE  ~Fits(q)[kind]
  <1>1. kind \in {"rows", "work", "frontier", "hops", "type"}
    BY DEF Fits
  <1>2. {q.row, q.work, q.hops, q.hopLimit} \subseteq Nat
    BY DEF IsQuery
  <1>3. Cardinality(AllRows(q)) \in Nat
    BY DoneFinite
  <1>4. AllWork(q) \in Nat
    <2>1. CASE q.mode = "scan"
      BY <1>3, <2>1 DEF AllWork
    <2>2. CASE q.mode # "scan"
      <3>1. /\ Cardinality(Expanded(q)) \in Nat /\ Cardinality(Looked(q)) \in Nat
            /\ Cardinality(AllRows(q)) \in Nat
        BY DoneFinite
      <3> QED
        BY <2>2, <3>1, WorkOfSearch
    <2> QED
      BY <2>1, <2>2
  <1>5. CASE kind = "rows"
    <2>1. ~(Cardinality(AllRows(q)) <= q.row)
      BY <1>2, <1>3, <1>5 DEF Why
    <2> QED
      BY <1>5, <2>1 DEF Fits
  <1>6. CASE kind = "work"
    <2>1. ~(AllWork(q) <= q.work)
      BY <1>2, <1>4, <1>6 DEF Why
    <2> QED
      BY <1>6, <2>1 DEF Fits
  <1>7. CASE kind = "frontier"
    BY <1>7 DEF Fits, Why
  <1>8. CASE kind = "hops"
    <2>1. ~(q.mode = "path" => q.hops <= q.hopLimit)
      BY <1>2, <1>8 DEF Why, TooManyHops
    <2> QED
      BY <1>8, <2>1 DEF Fits
  <1>9. CASE kind = "type"
    BY <1>9 DEF Fits, Why
  <1> QED
    BY <1>1, <1>5, <1>6, <1>7, <1>8, <1>9

(* A query that keeps each limit fits.                                      *)
LEMMA AllFit ==
  ASSUME IsQuery(q), Cardinality(AllRows(q)) <= q.row, AllWork(q) <= q.work, FrontierFits(q), ~TooManyHops,
         PredicateUsable(q), CostsUsable(q)
  PROVE  \A kind \in DOMAIN Fits(q) : Fits(q)[kind]
  <1>1. q.hops \in Nat /\ q.hopLimit \in Nat
    BY DEF IsQuery
  <1>2. q.mode = "path" => q.hops <= q.hopLimit
    BY <1>1 DEF TooManyHops
  <1>3. DOMAIN Fits(q) = {"rows", "work", "frontier", "hops", "type"}
    BY DEF Fits
  <1>4. Fits(q)["rows"] /\ Fits(q)["work"] /\ Fits(q)["frontier"] /\ Fits(q)["hops"] /\ Fits(q)["type"]
    BY <1>2 DEF Fits
  <1> QED
    BY <1>3, <1>4

(* The end of an execution.                                                 *)
LEMMA NotDone ==
  ASSUME IInv, pc # "done"
  PROVE  outcome = "none" /\ rows = <<>> /\ offset = 0 /\ delivered = <<>> /\ IsQuery(q)
  <1>1. /\ outcome = "none" /\ rows = <<>> /\ offset = 0 /\ IsQuery(q)
        /\ delivered = SubSeq(rows, 1, offset)
    BY DEF IInv, InvCursor
  <1>2. SubSeq(<<>>, 1, 0) = <<>>
    BY SubSeqEmpty
  <1> QED
    BY <1>1, <1>2

(* The partitions and the seeds stay as they are.                           *)
LEMMA DoneParts ==
  ASSUME IInv, pc' = "done", UNCHANGED <<q, cancelled, seeds, parts>>
  PROVE  InvParts' /\ InvSeeds'
  <1>1. InvParts'
    <2>1. /\ \A p, S : GoodPart(p, S) => GoodPart(p, S)'
          /\ \A j : Mine(j)' = Mine(j)
          /\ Concurrent' = Concurrent /\ TooManyHops' = TooManyHops
      BY SameParts DEF TooManyHops
    <2>2. parts # <<>> =>
            /\ ~TooManyHops /\ PredicateUsable(q) /\ Lists(seeds, SeedSet(q), NumberOrder)
            /\ DOMAIN parts = 1..Len(parts) /\ Len(parts) \in 1..MaxWorkers
            /\ Len(parts) = IF Concurrent THEN Len(Chunks(seeds)) ELSE 1
            /\ \A k \in DOMAIN parts : GoodPart(parts[k], Mine(k))
      BY DEF IInv, InvParts
    <2>3. parts' # <<>> => \A k \in DOMAIN parts' : GoodPart(parts[k], Mine(k))'
      BY <2>1, <2>2
    <2> QED
      BY <2>1, <2>2, <2>3 DEF InvParts
  <1>2. InvSeeds'
    BY DEF IInv, InvSeeds
  <1> QED
    BY <1>1, <1>2

(* An error that the whole query explains keeps the invariant.              *)
LEMMA FinishStep ==
  ASSUME IInv, pc # "done", NEW kind \in Kinds, Why(kind), Finish(kind)
  PROVE  IInv'
  <1>1. /\ q' = q /\ pc' = "done" /\ cancelled' = cancelled /\ seeds' = seeds /\ outcome' = kind
        /\ rows' = rows /\ offset' = offset /\ delivered' = delivered /\ complete' = complete
        /\ closed' = closed /\ parts' = parts
    BY DEF Finish, cursor
  <1>2. outcome = "none" /\ rows = <<>> /\ offset = 0 /\ IsQuery(q)
    BY NotDone
  <1>3. kind # "none" /\ kind # "result"
    BY DEF Kinds
  <1>4. InvParts' /\ InvSeeds'
    BY <1>1, DoneParts
  <1>5. InvCursor'
    BY <1>1, <1>2, <1>3 DEF IInv, InvCursor
  <1>6. ErrorHasCause'
    <2>1. kind \in DOMAIN Fits(q) => ~Fits(q)[kind]
      BY <1>2, NotFits
    <2>2. kind = "cancelled" => cancelled
      BY DEF Why
    <2> QED
      BY <1>1, <1>3, <2>1, <2>2 DEF ErrorHasCause
  <1>7. ResultIsExact'
    BY <1>1, <1>3 DEF ResultIsExact
  <1> QED
    BY <1>1, <1>2, <1>4, <1>5, <1>6, <1>7 DEF IInv

(* So does a complete list of rows when the query fits.                     *)
LEMMA ReturnStep ==
  ASSUME IInv, pc = "expand", NEW s, Lists(s, AllRows(q), PathOrder),
         \A kind \in DOMAIN Fits(q) : Fits(q)[kind], Return(s)
  PROVE  IInv'
  <1>0. PICK tie \in Ties : rows' = Ordered(s, tie)
    BY DEF Return
  <1>1. /\ q' = q /\ pc' = "done" /\ cancelled' = cancelled /\ seeds' = seeds /\ outcome' = "result"
        /\ rows' = Ordered(s, tie) /\ offset' = offset /\ delivered' = delivered /\ complete' = complete
        /\ closed' = closed /\ parts' = parts
    BY <1>0 DEF Return, cursor
  <1>2. outcome = "none" /\ rows = <<>> /\ offset = 0 /\ IsQuery(q) /\ delivered = <<>>
    BY NotDone
  <1>3. IsResult(q, Ordered(s, tie)) /\ Ordered(s, tie) \in Seq(Paths(q))
    BY <1>2, ReturnedIsResult
  <1>4. InvParts' /\ InvSeeds'
    BY <1>1, DoneParts
  <1>5. InvCursor'
    <2>1. Len(Ordered(s, tie)) \in Nat
      BY <1>3, LenProperties
    <2>2. SubSeq(Ordered(s, tie), 1, 0) = <<>>
      BY SubSeqEmpty
    <2>3. {cancelled, complete, closed} \subseteq BOOLEAN
      BY DEF IInv, InvCursor
    <2> QED
      BY <1>1, <1>2, <1>3, <2>1, <2>2, <2>3 DEF InvCursor
  <1>6. ErrorHasCause'
    <2>1. "result" \notin DOMAIN Fits(q)
      BY DEF Fits
    <2> QED
      BY <1>1, <2>1 DEF ErrorHasCause
  <1>7. ResultIsExact'
    BY <1>1, <1>3 DEF ResultIsExact
  <1> QED
    BY <1>1, <1>2, <1>4, <1>5, <1>6, <1>7 DEF IInv

(* The steps of the caller before the search.                               *)
LEMMA EarlyStops ==
  ASSUME IInv, Unbound \/ FilterFails \/ HopBoundFails \/ CancelledBeforeLaunch
  PROVE  IInv'
  <1>0. IsQuery(q) /\ {"type", "hops", "cancelled"} \subseteq Kinds
    BY DEF IInv, Kinds
  <1>1. CASE Unbound
    <2>1. Finish("type") /\ pc # "done"
      BY <1>1 DEF Unbound
    <2>2. Why("type")
      BY <1>1 DEF Unbound, Why, PredicateUsable
    <2> QED
      BY <1>0, <2>1, <2>2, FinishStep
  <1>2. CASE FilterFails
    <2>1. Finish("type") /\ pc # "done"
      BY <1>2 DEF FilterFails
    <2>2. PICK i \in DOMAIN Candidates : q.verdict[Candidates[i]] = "error"
      BY <1>2 DEF FilterFails
    <2>3. Candidates[i] \in DOMAIN q.verdict
      <3> DEFINE C == {n \in DOMAIN q.verdict : q.verdict[n] # "other"}
      <3>1. Lists(Candidates, C, NumberOrder)
        BY <1>0, CandidatesLists
      <3>2. C \subseteq DOMAIN q.verdict
        OBVIOUS
      <3> HIDE DEF C
      <3>3. DOMAIN Candidates = 1..Len(Candidates) /\ Candidates \in [1..Len(Candidates) -> C]
        BY <3>1, ListsElements
      <3> QED
        BY <3>2, <3>3
    <2>4. Why("type")
      BY <2>2, <2>3 DEF Why, PredicateUsable
    <2> QED
      BY <1>0, <2>1, <2>4, FinishStep
  <1>3. CASE HopBoundFails
    <2>1. Finish("hops") /\ pc # "done" /\ Why("hops")
      BY <1>3 DEF HopBoundFails, Why
    <2> QED
      BY <1>0, <2>1, FinishStep
  <1>4. CASE CancelledBeforeLaunch
    <2>1. Finish("cancelled") /\ pc # "done" /\ Why("cancelled")
      BY <1>4 DEF CancelledBeforeLaunch, Why
    <2> QED
      BY <1>0, <2>1, FinishStep
  <1> QED
    BY <1>1, <1>2, <1>3, <1>4

(* FindSeeds keeps the invariant: every candidate could be compared.        *)
LEMMA FindSeedsStep ==
  ASSUME IInv, FindSeeds
  PROVE  IInv'
  <1>1. /\ pc = "start" /\ pc' = "plan" /\ q' = q /\ cancelled' = cancelled /\ outcome' = outcome
        /\ rows' = rows /\ offset' = offset /\ delivered' = delivered /\ complete' = complete
        /\ closed' = closed /\ parts' = parts
    BY DEF FindSeeds, cursor
  <1>2. IsQuery(q) /\ parts = <<>>
    BY <1>1 DEF IInv, InvSeeds
  <1>3. PredicateUsable(q)
    <2>1. ASSUME NEW n \in DOMAIN q.verdict, q.verdict[n] = "error" PROVE FALSE
      <3> DEFINE C == {m \in DOMAIN q.verdict : q.verdict[m] # "other"}
      <3>1. Lists(Candidates, C, NumberOrder)
        BY <1>2, CandidatesLists
      <3>2. n \in C
        BY <2>1
      <3> HIDE DEF C
      <3>3. PICK i \in 1..Len(Candidates) : Candidates[i] = n
        BY <3>1, <3>2 DEF Lists
      <3>4. i \in DOMAIN Candidates
        BY <3>1, ListsElements
      <3> QED
        BY <2>1, <3>3, <3>4 DEF FindSeeds
    <2> QED
      BY <2>1 DEF FindSeeds, PredicateUsable
  <1>4. Lists(seeds', SeedSet(q), NumberOrder)
    BY <1>2, SeedsLists DEF FindSeeds
  <1>5. InvSeeds'
    BY <1>1, <1>2, <1>3, <1>4 DEF InvSeeds
  <1>6. InvParts'
    BY <1>1, <1>2 DEF InvParts
  <1>7. InvCursor' /\ ErrorHasCause' /\ ResultIsExact'
    BY <1>1 DEF IInv, InvCursor, ErrorHasCause, ResultIsExact
  <1> QED
    BY <1>1, <1>2, <1>5, <1>6, <1>7 DEF IInv

(* Launch keeps the invariant: each worker has its chunk of the seeds.      *)
LEMMA LaunchStep ==
  ASSUME IInv, Launch
  PROVE  IInv'
  <1>1. /\ pc = "plan" /\ ~TooManyHops /\ pc' = "expand" /\ q' = q /\ cancelled' = cancelled /\ seeds' = seeds
        /\ outcome' = outcome /\ rows' = rows /\ offset' = offset /\ delivered' = delivered
        /\ complete' = complete /\ closed' = closed
        /\ parts' = IF Concurrent THEN [i \in DOMAIN Chunks(seeds) |-> Part(Chunks(seeds)[i])]
                    ELSE <<Part(seeds)>>
    BY DEF Launch, cursor
  <1>2. IsQuery(q) /\ PredicateUsable(q) /\ Lists(seeds, SeedSet(q), NumberOrder)
    BY <1>1 DEF IInv, InvSeeds
  <1>3. /\ DOMAIN parts' = 1..Len(parts') /\ Len(parts') \in 1..MaxWorkers
        /\ Len(parts') = IF Concurrent THEN Len(Chunks(seeds)) ELSE 1
        /\ \A k \in DOMAIN parts' : GoodPart(parts'[k], Mine(k))
    <2>1. CASE Concurrent
      <3> DEFINE cs == Chunks(seeds)
                 ps == [i \in DOMAIN cs |-> Part(cs[i])]
      <3>1. seeds # <<>>
        <4>1. Len(seeds) >= 2 /\ Len(<<>>) = 0
          BY <2>1 DEF Concurrent
        <4> QED
          BY <4>1
      <3>2. /\ DOMAIN cs = 1..Len(cs) /\ Len(cs) \in Nat \ {0} /\ Len(cs) <= MaxWorkers
            /\ \A k \in 1..Len(cs) : Lists(cs[k], ToSet(cs[k]), NumberOrder) /\ ToSet(cs[k]) \subseteq SeedSet(q)
        BY <1>2, <3>1, ChunksFacts
      <3>3. parts' = ps
        BY <1>1, <2>1
      <3> HIDE DEF cs
      <3>4. DOMAIN ps = 1..Len(cs) /\ Len(ps) = Len(cs)
        <4>1. ps \in [1..Len(cs) -> {Part(cs[i]) : i \in 1..Len(cs)}]
          BY <3>2
        <4> HIDE DEF ps
        <4> QED
          BY <3>2, <4>1, LenDomain
      <3>5. \A k \in 1..Len(cs) : GoodPart(Part(cs[k]), ToSet(cs[k]))
        BY <1>2, <3>2, GoodStarts
      <3>6. \A k \in 1..Len(cs) : Mine(k) = ToSet(cs[k])
        BY <2>1 DEF Mine, cs
      <3>7. Len(cs) \in 1..MaxWorkers
        BY <3>2, QueryExecAssumption
      <3> QED
        BY <2>1, <3>2, <3>3, <3>4, <3>5, <3>6, <3>7 DEF cs
    <2>2. CASE ~Concurrent
      <3>1. parts' = <<Part(seeds)>> /\ DOMAIN parts' = 1..1 /\ Len(parts') = 1 /\ parts'[1] = Part(seeds)
        BY <1>1, <2>2
      <3>2. ToSet(seeds) = SeedSet(q)
        BY <1>2, ListsElements
      <3>3. GoodPart(Part(seeds), SeedSet(q))
        BY <1>2, GoodStarts
      <3>4. \A k : Mine(k) = SeedSet(q)
        BY <2>2, <3>2 DEF Mine
      <3>5. 1 \in 1..MaxWorkers
        BY QueryExecAssumption
      <3> QED
        BY <2>2, <3>1, <3>3, <3>4, <3>5
    <2> QED
      BY <2>1, <2>2
  <1>4. parts' # <<>>
    <2>1. Len(parts') # 0 /\ Len(<<>>) = 0
      BY <1>3, QueryExecAssumption
    <2> QED
      BY <2>1
  <1>5. InvSeeds'
    BY <1>1, <1>2, <1>4 DEF InvSeeds
  <1>6. InvParts'
    <2>1. /\ \A p, S : GoodPart(p, S) => GoodPart(p, S)'
          /\ \A j : Mine(j)' = Mine(j)
          /\ Concurrent' = Concurrent /\ TooManyHops' = TooManyHops
      BY <1>1, SameParts DEF TooManyHops
    <2>2. \A k \in DOMAIN parts' : GoodPart(parts[k], Mine(k))'
      BY <1>3, <2>1
    <2>3. Chunks(seeds)' = Chunks(seeds)
      BY <1>1
    <2> QED
      BY <1>1, <1>2, <1>3, <2>1, <2>2, <2>3 DEF InvParts
  <1>7. InvCursor' /\ ErrorHasCause' /\ ResultIsExact'
    BY <1>1 DEF IInv, InvCursor, ErrorHasCause, ResultIsExact
  <1> QED
    BY <1>1, <1>2, <1>5, <1>6, <1>7 DEF IInv

(* The partitions when all of them are finished and none has failed.        *)
LEMMA Ended ==
  ASSUME IInv, AllFinished, NEW k \in DOMAIN parts, parts[k].error = "none"
  PROVE  LET p == parts[k]
         IN  /\ p.todo = <<>> /\ p.queue = <<>> /\ p.adj = <<>>
             /\ ~Concurrent => p.work <= q.work /\ Len(p.rows) <= q.row
             /\ q.mode = "scan" => ScanPart(p, Mine(k))
             /\ q.mode # "scan" =>
                  /\ Lists(p.rows, {r \in AllRows(q) : r.seed \in Mine(k)}, PathOrder)
                  /\ p.work = WorkFrom(Mine(k))
                  /\ q.mode = "path" =>
                       /\ Mine(k) # {} => q.frontier > 0
                       /\ \A r \in AllRows(q) : r.seed \in Mine(k) => Cardinality(Waiting(q, r)) < q.frontier
                       /\ q.costed => \A r \in AllRows(q) :
                                        r.seed \in Mine(k) => q.edges[Last(r.edges)].cost # BadCost
  <1> DEFINE p == parts[k]
             S == Mine(k)
  <1>1. IsQuery(q) /\ GoodPart(p, S)
    BY DEF IInv, InvParts
  <1>2. p.todo = <<>> /\ p.queue = <<>> /\ p.adj = <<>>
    BY DEF AllFinished, Finished, Exhausted
  <1> HIDE DEF p, S
  <1>3. q.mode # "scan" =>
          /\ Lists(p.rows, {r \in AllRows(q) : r.seed \in S}, PathOrder)
          /\ p.work = WorkFrom(S)
          /\ q.mode = "path" =>
               /\ S # {} => q.frontier > 0
               /\ \A r \in AllRows(q) : r.seed \in S => Cardinality(Waiting(q, r)) < q.frontier
               /\ q.costed => \A r \in AllRows(q) : r.seed \in S => q.edges[Last(r.edges)].cost # BadCost
    <2>1. ASSUME q.mode # "scan"
          PROVE  /\ IsQuery(q) /\ q.mode # "scan" /\ SearchPart(p, S)
                 /\ p.adj = <<>> /\ p.queue = <<>> /\ p.todo = <<>>
      BY <1>1, <1>2, <2>1 DEF GoodPart
    <2>2. ASSUME /\ IsQuery(q) /\ q.mode # "scan" /\ SearchPart(p, S)
                 /\ p.adj = <<>> /\ p.queue = <<>> /\ p.todo = <<>>
          PROVE  /\ Lists(p.rows, {r \in AllRows(q) : r.seed \in S}, PathOrder)
                 /\ p.work = Cardinality({x \in Expanded(q) : x.seed \in S})
                               + Cardinality({l \in Looked(q) : l[1].seed \in S})
                               + Cardinality({r \in AllRows(q) : r.seed \in S})
                 /\ q.mode = "path" =>
                      /\ S # {} => q.frontier > 0
                      /\ \A r \in AllRows(q) : r.seed \in S => Cardinality(Waiting(q, r)) < q.frontier
                      /\ q.costed => \A r \in AllRows(q) : r.seed \in S => q.edges[Last(r.edges)].cost # BadCost
      BY ONLY <2>2, SearchEnds
    <2> QED
      BY <2>1, <2>2 DEF WorkFrom
  <1>4. /\ ~Concurrent => p.work <= q.work /\ Len(p.rows) <= q.row
        /\ q.mode = "scan" => ScanPart(p, S)
    BY <1>1 DEF GoodPart
  <1> QED
    BY <1>2, <1>3, <1>4 DEF p, S

(* A limit of the queue, or a cost, that every set of seeds keeps.          *)
LEMMA SearchFits ==
  ASSUME IsQuery(q), q.mode # "scan", NEW M, NEW m, Divides(M, m),
         q.mode = "path" => \A k \in 1..m :
           /\ M[k] # {} => q.frontier > 0
           /\ \A r \in AllRows(q) : r.seed \in M[k] => Cardinality(Waiting(q, r)) < q.frontier
           /\ q.costed => \A r \in AllRows(q) : r.seed \in M[k] => q.edges[Last(r.edges)].cost # BadCost
  PROVE  FrontierFits(q) /\ CostsUsable(q)
  <1>1. \A x \in SeedSet(q) : \E k \in 1..m : x \in M[k]
    BY DEF Divides
  <1>2. \A r \in AllRows(q) : r.seed \in SeedSet(q)
    BY RowFacts
  <1>3. FrontierFits(q)
    BY <1>1, <1>2 DEF FrontierFits
  <1>4. CostsUsable(q)
    BY <1>1, <1>2 DEF CostsUsable
  <1> QED
    BY <1>3, <1>4

(* ReturnSerial keeps the invariant: the only partition has all the seeds.  *)
LEMMA ReturnSerialStep ==
  ASSUME IInv, ReturnSerial
  PROVE  IInv'
  <1> DEFINE p == parts[1]
  <1>1. pc = "expand" /\ AllFinished /\ ~Concurrent
    BY DEF ReturnSerial, AllFinished
  <1>2. parts # <<>>
    BY <1>1 DEF IInv, InvSeeds
  <1>3. /\ IsQuery(q) /\ ~TooManyHops /\ PredicateUsable(q) /\ Lists(seeds, SeedSet(q), NumberOrder)
        /\ DOMAIN parts = 1..Len(parts) /\ Len(parts) = 1 /\ \A k \in DOMAIN parts : GoodPart(parts[k], Mine(k))
    BY <1>1, <1>2 DEF IInv, InvParts
  <1>4. 1 \in DOMAIN parts /\ Mine(1) = SeedSet(q)
    <2>1. ToSet(seeds) = SeedSet(q)
      BY <1>3, ListsElements
    <2> QED
      BY <1>1, <1>3, <2>1 DEF Mine
  <1>5. CASE p.error # "none" /\ Finish(p.error)
    <2>1. p.error \in Kinds /\ Why(p.error)
      <3>1. p.error \in {"none", "rows", "work", "frontier", "type", "cancelled"} /\ Cause(p.error)
        BY <1>3, <1>4 DEF GoodPart
      <3> QED
        BY <1>5, <3>1 DEF Kinds, Cause, Why
    <2> QED
      BY <1>1, <1>5, <2>1, FinishStep
  <1>6. CASE p.error = "none" /\ Return(p.rows)
    <2>1. /\ p.todo = <<>> /\ p.work <= q.work /\ Len(p.rows) <= q.row
      BY <1>1, <1>4, <1>6, Ended
    <2>2. Lists(p.rows, AllRows(q), PathOrder) /\ p.work = AllWork(q) /\ FrontierFits(q) /\ CostsUsable(q)
      <3>1. CASE q.mode = "scan"
        <4>1. ScanPart(p, SeedSet(q))
          BY <1>1, <1>4, <1>6, <3>1, Ended
        <4>2. Lists(p.rows, AllRows(q), PathOrder) /\ p.work = AllWork(q)
          BY <1>3, <2>1, <3>1, <4>1, ScanEnds
        <4>3. FrontierFits(q) /\ CostsUsable(q)
          BY <3>1 DEF FrontierFits, CostsUsable
        <4> QED
          BY <4>2, <4>3
      <3>2. CASE q.mode # "scan"
        <4>1. /\ Lists(p.rows, {r \in AllRows(q) : r.seed \in SeedSet(q)}, PathOrder)
              /\ p.work = WorkFrom(SeedSet(q))
              /\ q.mode = "path" =>
                   /\ SeedSet(q) # {} => q.frontier > 0
                   /\ \A r \in AllRows(q) : r.seed \in SeedSet(q) => Cardinality(Waiting(q, r)) < q.frontier
                   /\ q.costed => \A r \in AllRows(q) :
                                    r.seed \in SeedSet(q) => q.edges[Last(r.edges)].cost # BadCost
          <5>1. /\ IInv /\ AllFinished /\ 1 \in DOMAIN parts /\ parts[1].error = "none" /\ q.mode # "scan"
            BY <1>1, <1>4, <1>6, <3>2
          <5> QED
            BY <1>4, <5>1, Ended
        <4>2. \A r \in AllRows(q) : r.seed \in SeedSet(q)
          BY <1>3, <3>2, RowFacts
        <4>3. {r \in AllRows(q) : r.seed \in SeedSet(q)} = AllRows(q)
          BY <4>2
        <4>4. WorkFrom(SeedSet(q)) = AllWork(q)
          BY <1>3, <3>2, WholeWork
        <4>5. FrontierFits(q) /\ CostsUsable(q)
          BY <4>1, <4>2 DEF FrontierFits, CostsUsable
        <4> QED
          BY <4>1, <4>3, <4>4, <4>5
      <3> QED
        BY <3>1, <3>2
    <2>3. Len(p.rows) = Cardinality(AllRows(q))
      BY <1>3, <2>2, PathOrderStrict, ListsCardinality
    <2>4. \A kind \in DOMAIN Fits(q) : Fits(q)[kind]
      BY <1>3, <2>1, <2>2, <2>3, AllFit
    <2> QED
      BY <1>1, <1>6, <2>2, <2>4, ReturnStep
  <1> QED
    BY <1>5, <1>6 DEF ReturnSerial

(* Merge keeps the invariant: what the workers found and did adds up.       *)
LEMMA MergeStep ==
  ASSUME IInv, Merge
  PROVE  IInv'
  <1> DEFINE cs == Chunks(seeds)
             m  == Len(cs)
             M  == [k \in 1..m |-> Mine(k)]
  <1>1. pc = "expand" /\ AllFinished /\ Concurrent
    BY DEF Merge, AllFinished
  <1>2. parts # <<>>
    BY <1>1 DEF IInv, InvSeeds
  <1>3. /\ IsQuery(q) /\ ~TooManyHops /\ PredicateUsable(q) /\ Lists(seeds, SeedSet(q), NumberOrder)
        /\ DOMAIN parts = 1..m /\ \A k \in DOMAIN parts : GoodPart(parts[k], Mine(k))
    BY <1>1, <1>2 DEF IInv, InvParts
  <1>4. q.mode # "scan" /\ seeds # <<>>
    <2>1. q.mode # "scan" /\ Len(seeds) >= 2 /\ Len(<<>>) = 0
      BY <1>1 DEF Concurrent
    <2> QED
      BY <2>1
  <1>5. Divides(M, m) /\ m \in Nat
    <2>1. /\ DOMAIN cs = 1..Len(cs) /\ Len(cs) \in Nat \ {0} /\ Len(cs) <= MaxWorkers
          /\ \A k \in 1..Len(cs) : Lists(cs[k], ToSet(cs[k]), NumberOrder) /\ ToSet(cs[k]) \subseteq SeedSet(q)
          /\ \A k, l \in 1..Len(cs) : k < l => \A x \in ToSet(cs[k]), y \in ToSet(cs[l]) : x < y
          /\ \A x \in SeedSet(q) : \E k \in 1..Len(cs) : x \in ToSet(cs[k])
      BY <1>3, <1>4, ChunksFacts
    <2>2. \A k \in 1..m : M[k] = ToSet(cs[k])
      BY <1>1 DEF Mine
    <2> HIDE DEF cs, M
    <2> QED
      BY <2>1, <2>2 DEF Divides
  <1> HIDE DEF cs, m
  <1>6. CASE (\E k \in DOMAIN parts : parts[k].error # "none") /\ Finish(FirstError)
    <2> DEFINE E == {k \in 1..m : parts[k].error # "none"}
    <2>1. E \in SUBSET Nat /\ E # {}
      BY <1>3, <1>6
    <2>2. PICK f \in E : \A k \in E : f <= k
      BY <2>1, MinExists
    <2>3. \A j \in 1..(f - 1) : parts[j].error = "none"
      <3> TAKE j \in 1..(f - 1)
      <3>1. f \in 1..m /\ j \in 1..m /\ ~(f <= j)
        BY <1>5, <2>2
      <3>2. j \notin E
        BY <2>2, <3>1
      <3> QED
        BY <3>1, <3>2
    <2>4. \E k \in DOMAIN parts : parts[k].error # "none" /\ \A j \in 1..(k - 1) : parts[j].error = "none"
      BY <1>3, <2>2, <2>3
    <2>5. PICK k \in DOMAIN parts : parts[k].error # "none" /\ FirstError = parts[k].error
      BY <2>4 DEF FirstError
    <2>6. FirstError \in {"rows", "work", "frontier", "type", "cancelled"} /\ Cause(FirstError)
      BY <1>3, <2>5 DEF GoodPart
    <2>7. FirstError \in Kinds /\ Why(FirstError)
      BY <2>6 DEF Kinds, Cause, Why
    <2> QED
      BY <1>1, <1>6, <2>7, FinishStep
  <1>7. ASSUME \A k \in DOMAIN parts : parts[k].error = "none"
        PROVE  /\ Lists(MergedRows, AllRows(q), PathOrder) /\ MergedWork = AllWork(q)
               /\ FrontierFits(q) /\ CostsUsable(q)
    <2>1. \A k \in 1..m :
            /\ Lists(parts[k].rows, {r \in AllRows(q) : r.seed \in M[k]}, PathOrder)
            /\ parts[k].work = WorkFrom(M[k])
            /\ q.mode = "path" =>
                 /\ M[k] # {} => q.frontier > 0
                 /\ \A r \in AllRows(q) : r.seed \in M[k] => Cardinality(Waiting(q, r)) < q.frontier
                 /\ q.costed => \A r \in AllRows(q) : r.seed \in M[k] => q.edges[Last(r.edges)].cost # BadCost
      <3> TAKE k \in 1..m
      <3>1. IInv /\ AllFinished /\ k \in DOMAIN parts /\ parts[k].error = "none" /\ q.mode # "scan" /\ M[k] = Mine(k)
        BY <1>1, <1>3, <1>4, <1>7
      <3> HIDE DEF M
      <3> QED
        BY <3>1, Ended
    <2> DEFINE ss == [k \in DOMAIN parts |-> parts[k].rows]
               ws == [k \in DOMAIN parts |-> parts[k].work]
    <2>2. Len(ss) = m /\ Len(ws) = m
      <3>1. ss \in [1..m -> {parts[k].rows : k \in 1..m}] /\ ws \in [1..m -> {parts[k].work : k \in 1..m}]
        BY <1>3
      <3> HIDE DEF ss, ws
      <3> QED
        BY <1>5, <3>1, LenDomain
    <2>3. \A k \in 1..m : Lists(ss[k], {r \in AllRows(q) : r.seed \in M[k]}, PathOrder) /\ ws[k] = WorkFrom(M[k])
      BY <1>3, <2>1
    <2>4. MergedRows = FlattenSeq(ss) /\ MergedWork = Total(ws)
      BY DEF MergedRows, MergedWork
    <2> HIDE DEF ss, ws, M
    <2>5. Lists(FlattenSeq(ss), AllRows(q), PathOrder)
      BY <1>3, <1>4, <1>5, <2>2, <2>3, RowsAddUp
    <2>6. Total(ws) = AllWork(q)
      BY <1>3, <1>4, <1>5, <2>2, <2>3, WorkAddsUp
    <2>7. FrontierFits(q) /\ CostsUsable(q)
      BY <1>3, <1>4, <1>5, <2>1, SearchFits
    <2> QED
      BY <2>4, <2>5, <2>6, <2>7
  <1>8. ASSUME \A k \in DOMAIN parts : parts[k].error = "none"
        PROVE  /\ Len(MergedRows) = Cardinality(AllRows(q)) /\ MergedWork = AllWork(q)
    BY <1>3, <1>7, <1>8, PathOrderStrict, ListsCardinality
  <1>9. CASE (\A k \in DOMAIN parts : parts[k].error = "none") /\ MergedWork > q.work /\ Finish("work")
    <2>1. Why("work") /\ "work" \in Kinds
      BY <1>8, <1>9 DEF Why, Kinds
    <2> QED
      BY <1>1, <1>9, <2>1, FinishStep
  <1>10. CASE (\A k \in DOMAIN parts : parts[k].error = "none") /\ Len(MergedRows) > q.row /\ Finish("rows")
    <2>1. Why("rows") /\ "rows" \in Kinds
      BY <1>8, <1>10 DEF Why, Kinds
    <2> QED
      BY <1>1, <1>10, <2>1, FinishStep
  <1>11. CASE /\ \A k \in DOMAIN parts : parts[k].error = "none"
              /\ MergedWork <= q.work /\ Len(MergedRows) <= q.row /\ Return(MergedRows)
    <2>1. Lists(MergedRows, AllRows(q), PathOrder) /\ FrontierFits(q) /\ CostsUsable(q)
      BY <1>7, <1>11
    <2>2. \A kind \in DOMAIN Fits(q) : Fits(q)[kind]
      BY <1>3, <1>8, <1>11, <2>1, AllFit
    <2> QED
      BY <1>1, <1>11, <2>1, <2>2, ReturnStep
  <1> QED
    BY <1>6, <1>9, <1>10, <1>11 DEF Merge

(* The token and the cursor.                                                *)
LEMMA CancelStep ==
  ASSUME IInv, Cancel
  PROVE  IInv'
  <1>1. /\ pc # "done" /\ pc' = pc /\ q' = q /\ cancelled' = TRUE /\ seeds' = seeds /\ parts' = parts
        /\ outcome' = outcome /\ rows' = rows /\ offset' = offset /\ delivered' = delivered
        /\ complete' = complete /\ closed' = closed
    BY DEF Cancel, cursor
  <1>2. InvParts'
    <2>1. /\ \A p, S : GoodPart(p, S) => GoodPart(p, S)'
          /\ \A j : Mine(j)' = Mine(j)
          /\ Concurrent' = Concurrent /\ TooManyHops' = TooManyHops
      BY <1>1, SameParts DEF TooManyHops
    <2>2. parts # <<>> => \A k \in DOMAIN parts' : GoodPart(parts[k], Mine(k))'
      BY <1>1, <2>1 DEF IInv, InvParts
    <2> QED
      BY <1>1, <2>1, <2>2 DEF IInv, InvParts
  <1>3. InvSeeds'
    BY <1>1 DEF IInv, InvSeeds
  <1>4. InvCursor' /\ ErrorHasCause' /\ ResultIsExact'
    BY <1>1 DEF IInv, InvCursor, ErrorHasCause, ResultIsExact
  <1> QED
    BY <1>1, <1>2, <1>3, <1>4 DEF IInv

(* Two sections of a sequence that follow each other are one.               *)
LEMMA SectionsJoin ==
  ASSUME NEW S, NEW s \in Seq(S), NEW a \in Nat, NEW b \in Nat, a + b <= Len(s)
  PROVE  SubSeq(s, 1, a) \o SubSeq(s, a + 1, a + b) = SubSeq(s, 1, a + b)
  <1> DEFINE t == SubSeq(s, 1, a)
             u == SubSeq(s, a + 1, a + b)
             v == SubSeq(s, 1, a + b)
  <1>1. Len(s) \in Nat /\ \A i \in 1..(a + b) : s[i] \in S
    BY LenProperties, ElementOfSeq
  <1>2. /\ t \in Seq(S) /\ Len(t) = a /\ \A i \in 1..a : t[i] = s[i]
    <2>1. \A i \in 1..a : s[i] \in S
      BY <1>1
    <2>2. /\ t \in Seq(S) /\ Len(t) = IF 1 <= a THEN a - 1 + 1 ELSE 0
          /\ \A i \in 1..(a - 1 + 1) : t[i] = s[1 + i - 1]
      BY <2>1, SubSeqProperties
    <2> HIDE DEF t
    <2> QED
      BY <2>2
  <1>3. /\ u \in Seq(S) /\ Len(u) = b /\ \A i \in 1..b : u[i] = s[a + i]
    <2>1. \A i \in (a + 1)..(a + b) : s[i] \in S
      BY <1>1
    <2>2. /\ u \in Seq(S) /\ Len(u) = IF a + 1 <= a + b THEN (a + b) - (a + 1) + 1 ELSE 0
          /\ \A i \in 1..((a + b) - (a + 1) + 1) : u[i] = s[(a + 1) + i - 1]
      BY <2>1, SubSeqProperties
    <2>3. (a + b) - (a + 1) + 1 = b /\ (a + 1 <= a + b <=> 1 <= b) /\ \A i \in 1..b : (a + 1) + i - 1 = a + i
      OBVIOUS
    <2> HIDE DEF u
    <2>4. Len(u) = b
      BY <2>2, <2>3
    <2>5. \A i \in 1..b : u[i] = s[a + i]
      BY <2>2, <2>3
    <2> QED
      BY <2>2, <2>4, <2>5
  <1>4. /\ v \in Seq(S) /\ Len(v) = a + b /\ \A i \in 1..(a + b) : v[i] = s[i]
    <2>2. /\ v \in Seq(S) /\ Len(v) = IF 1 <= a + b THEN a + b - 1 + 1 ELSE 0
          /\ \A i \in 1..(a + b - 1 + 1) : v[i] = s[1 + i - 1]
      BY <1>1, SubSeqProperties
    <2> HIDE DEF v
    <2> QED
      BY <2>2
  <1> HIDE DEF t, u, v
  <1>5. /\ t \o u \in Seq(S) /\ Len(t \o u) = a + b
        /\ \A i \in 1..(a + b) : (t \o u)[i] = IF i <= a THEN t[i] ELSE u[i - a]
    BY <1>2, <1>3, ConcatProperties
  <1>6. \A i \in 1..(a + b) : (t \o u)[i] = v[i]
    <2> TAKE i \in 1..(a + b)
    <2>1. CASE i <= a
      BY <1>2, <1>4, <1>5, <2>1
    <2>2. CASE ~(i <= a)
      <3>1. i - a \in 1..b /\ a + (i - a) = i
        BY <2>2
      <3> QED
        BY <1>3, <1>4, <1>5, <2>2, <3>1
    <2> QED
      BY <2>1, <2>2
  <1>7. t \o u = v
    BY <1>4, <1>5, <1>6, SeqEqual
  <1> QED
    BY <1>7 DEF t, u, v

(* NextBatch keeps the invariant.                                           *)
LEMMA NextBatchStep ==
  ASSUME IInv, NEW b \in Budgets, NextBatch(b)
  PROVE  IInv'
  <1> DEFINE left == Len(rows) - offset
             take == IF b < left THEN b ELSE left
  <1>1. /\ outcome = "result" /\ offset < Len(rows)
        /\ delivered' = delivered \o SubSeq(rows, offset + 1, offset + take)
        /\ offset' = offset + take /\ complete' = (offset + take >= Len(rows))
        /\ pc' = pc /\ q' = q /\ cancelled' = cancelled /\ seeds' = seeds /\ parts' = parts
        /\ outcome' = outcome /\ rows' = rows /\ closed' = closed
    BY DEF NextBatch, Batch
  <1>2. /\ pc = "done" /\ rows \in Seq(Paths(q)) /\ offset \in 0..Len(rows) /\ outcome \in Kinds \union {"none", "result"}
        /\ delivered = SubSeq(rows, 1, offset) /\ {cancelled, complete, closed} \subseteq BOOLEAN
    BY <1>1 DEF IInv, InvCursor
  <1>3. Len(rows) \in Nat /\ offset \in Nat /\ b \in Nat \ {0}
    BY <1>2, LenProperties, QueryExecAssumption
  <1>4. take \in Nat \ {0} /\ offset + take <= Len(rows)
    BY <1>1, <1>3
  <1> HIDE DEF take
  <1>5. InvParts' /\ InvSeeds'
    BY <1>1, <1>2, DoneParts
  <1>6. InvCursor'
    <2>1. delivered' = SubSeq(rows, 1, offset + take)
      BY <1>1, <1>2, <1>3, <1>4, SectionsJoin
    <2>2. offset' \in 0..Len(rows) /\ (offset + take >= Len(rows) <=> offset' = Len(rows))
      BY <1>1, <1>3, <1>4
    <2>4. complete' <=> offset' = Len(rows)
      BY <1>1, <2>2, Zenon
    <2>3. complete' \in BOOLEAN
      BY <1>1
    <2> QED
      BY <1>1, <1>2, <2>1, <2>2, <2>3, <2>4 DEF InvCursor
  <1>7. ErrorHasCause' /\ ResultIsExact'
    BY <1>1 DEF IInv, ErrorHasCause, ResultIsExact
  <1> QED
    BY <1>1, <1>5, <1>6, <1>7 DEF IInv

(* CancelCursor keeps the invariant.                                        *)
LEMMA CancelCursorStep ==
  ASSUME IInv, CancelCursor
  PROVE  IInv'
  <1>1. /\ outcome = "result" /\ closed' = TRUE
        /\ pc' = pc /\ q' = q /\ cancelled' = cancelled /\ seeds' = seeds /\ parts' = parts
        /\ outcome' = outcome /\ rows' = rows /\ offset' = offset /\ delivered' = delivered
        /\ complete' = complete
    BY DEF CancelCursor
  <1>2. pc = "done"
    BY <1>1 DEF IInv, InvCursor
  <1>3. InvParts' /\ InvSeeds'
    BY <1>1, <1>2, DoneParts
  <1>4. InvCursor' /\ ErrorHasCause' /\ ResultIsExact'
    BY <1>1 DEF IInv, InvCursor, ErrorHasCause, ResultIsExact
  <1> QED
    BY <1>1, <1>3, <1>4 DEF IInv

-----------------------------------------------------------------------------
(* The invariant holds when a query starts, and every step keeps it.        *)
LEMMA InitInvariant ==
  ASSUME IsQuery(q), pc = "start", cancelled = FALSE, seeds = <<>>, parts = <<>>, outcome = "none",
         rows = <<>>, offset = 0, delivered = <<>>, complete = FALSE, closed = FALSE
  PROVE  IInv
  <1>1. InvSeeds /\ InvParts
    BY DEF InvSeeds, InvParts
  <1>2. InvCursor
    <2>1. Len(<<>>) = 0 /\ <<>> \in Seq(Paths(q)) /\ SubSeq(<<>>, 1, 0) = <<>>
      BY SubSeqEmpty
    <2>2. {cancelled, complete, closed} \subseteq BOOLEAN
      BY Zenon
    <2>3. offset \in 0..Len(rows)
      BY <2>1
    <2> QED
      BY <2>1, <2>2, <2>3 DEF InvCursor
  <1>3. ErrorHasCause /\ ResultIsExact
    BY DEF ErrorHasCause, ResultIsExact
  <1> QED
    BY <1>1, <1>2, <1>3 DEF IInv

(* Every step keeps the invariant.                                          *)
LEMMA StepInvariant ==
  ASSUME IInv, Next
  PROVE  IInv'
  <1>1. CASE CallerStep
    BY <1>1, EarlyStops, FindSeedsStep, LaunchStep, ReturnSerialStep, MergeStep DEF CallerStep
  <1>2. CASE \E k \in DOMAIN parts : WorkerStep(k)
    BY <1>2, WorkerKeeps
  <1>3. CASE Cancel
    BY <1>3, CancelStep
  <1>4. CASE \E b \in Budgets : NextBatch(b)
    BY <1>4, NextBatchStep
  <1>5. CASE CancelCursor
    BY <1>5, CancelCursorStep
  <1> QED
    BY <1>1, <1>2, <1>3, <1>4, <1>5 DEF Next

(* So does a step that changes nothing.                                     *)
LEMMA StutterInvariant ==
  ASSUME IInv, UNCHANGED vars
  PROVE  IInv'
  <1>1. /\ pc' = pc /\ q' = q /\ cancelled' = cancelled /\ seeds' = seeds /\ parts' = parts
        /\ outcome' = outcome /\ rows' = rows /\ offset' = offset /\ delivered' = delivered
        /\ complete' = complete /\ closed' = closed
    BY DEF vars
  <1>2. InvParts'
    <2>1. /\ \A p, S : GoodPart(p, S) => GoodPart(p, S)'
          /\ \A j : Mine(j)' = Mine(j)
          /\ Concurrent' = Concurrent /\ TooManyHops' = TooManyHops
      BY <1>1, SameParts DEF TooManyHops
    <2>2. parts # <<>> => \A k \in DOMAIN parts' : GoodPart(parts[k], Mine(k))'
      BY <1>1, <2>1 DEF IInv, InvParts
    <2> QED
      BY <1>1, <2>1, <2>2 DEF IInv, InvParts
  <1>3. InvSeeds' /\ InvCursor' /\ ErrorHasCause' /\ ResultIsExact'
    BY <1>1 DEF IInv, InvSeeds, InvCursor, ErrorHasCause, ResultIsExact
  <1> QED
    BY <1>1, <1>2, <1>3 DEF IInv

-----------------------------------------------------------------------------
(* What the invariant says.                                                 *)
LEMMA InvariantTypes ==
  ASSUME IInv
  PROVE  TypeOK
  <1>1. /\ pc \in {"start", "plan", "expand", "done"} /\ cancelled \in BOOLEAN
        /\ (outcome = "none" <=> pc # "done") /\ outcome \in Kinds \union {"none", "result"}
        /\ offset \in 0..Len(rows) /\ complete \in BOOLEAN /\ closed \in BOOLEAN
    BY DEF IInv, InvCursor
  <1>2. \A i \in DOMAIN seeds : seeds[i] \in DOMAIN q.verdict
    <2>1. SeedSet(q) \subseteq DOMAIN q.verdict
      BY DEF SeedSet
    <2>2. CASE seeds # <<>>
      <3>1. Lists(seeds, SeedSet(q), NumberOrder)
        BY <2>2 DEF IInv, InvSeeds
      <3>2. seeds \in [1..Len(seeds) -> SeedSet(q)]
        BY <3>1, ListsElements
      <3> QED
        BY <2>1, <3>2
    <2>3. CASE seeds = <<>>
      BY <2>3
    <2> QED
      BY <2>2, <2>3
  <1>3. Len(parts) <= MaxWorkers
    <2>1. Len(<<>>) = 0 /\ MaxWorkers \in Nat
      BY QueryExecAssumption
    <2>2. parts # <<>> => Len(parts) \in 1..MaxWorkers
      BY DEF IInv, InvParts
    <2> QED
      BY <2>1, <2>2
  <1>4. ASSUME NEW k \in DOMAIN parts
        PROVE  /\ parts[k].error \in Kinds \union {"none"} /\ parts[k].work \in Nat
               /\ \A i \in DOMAIN parts[k].adj : parts[k].adj[i] \in DOMAIN q.edges
    <2> DEFINE p == parts[k]
               S == Mine(k)
    <2>1. GoodPart(p, S) /\ IsQuery(q)
      BY DEF IInv, InvParts
    <2> HIDE DEF p, S
    <2>2. p.error \in Kinds \union {"none"}
      BY <2>1 DEF GoodPart, Kinds
    <2>3. CASE q.mode = "scan"
      <3>1. ScanPart(p, S)
        BY <2>1, <2>3 DEF GoodPart
      <3>2. p.adj = <<>> /\ p.work = Len(p.rows) /\ p.rows \in Seq({Start(s) : s \in S \ ToSet(p.todo)})
        BY <3>1 DEF ScanPart, Lists
      <3>3. p.work \in Nat
        BY <3>2, LenProperties
      <3>4. \A i \in DOMAIN p.adj : p.adj[i] \in DOMAIN q.edges
        BY <3>2
      <3> QED
        BY <2>2, <3>3, <3>4 DEF p
    <2>4. CASE q.mode # "scan"
      <3>1. SearchPart(p, S)
        BY <2>1, <2>4 DEF GoodPart
      <3>2. p.work \in Nat
        BY <2>1, <3>1, RowsOfSearch
      <3>3. ToSet(p.adj) \subseteq DOMAIN q.edges
        BY <3>1 DEF SearchPart, Onward
      <3>4. \A i \in DOMAIN p.adj : p.adj[i] \in ToSet(p.adj)
        BY DEF ToSet
      <3> QED
        BY <2>2, <3>2, <3>3, <3>4 DEF p
    <2> QED
      BY <2>3, <2>4
  <1> QED
    BY <1>1, <1>2, <1>3, <1>4 DEF TypeOK

(* The kinds of errors other than a cancellation are those of the limits.   *)
LEMMA InvariantDecides ==
  ASSUME IInv
  PROVE  SucceedsIffFits
  <1> SUFFICES ASSUME pc = "done", ~cancelled
               PROVE  outcome = "result" <=> \A kind \in DOMAIN Fits(q) : Fits(q)[kind]
    BY DEF SucceedsIffFits
  <1>1. /\ outcome \in DOMAIN Fits(q) => ~Fits(q)[outcome]
        /\ outcome = "result" => \A kind \in DOMAIN Fits(q) : Fits(q)[kind]
        /\ outcome # "cancelled"
    BY DEF IInv, ErrorHasCause
  <1>2. outcome \in {"rows", "work", "frontier", "hops", "type", "result"}
    BY <1>1 DEF IInv, InvCursor, Kinds
  <1>3. DOMAIN Fits(q) = {"rows", "work", "frontier", "hops", "type"}
    BY DEF Fits
  <1> QED
    BY <1>1, <1>2, <1>3

(* All rows are delivered when the offset is at their end.                  *)
LEMMA InvariantCompletes ==
  ASSUME IInv
  PROVE  CompleteMeansAll
  <1> SUFFICES ASSUME offset > 0
               PROVE  complete <=> delivered = rows
    BY DEF CompleteMeansAll
  <1>1. /\ rows \in Seq(Paths(q)) /\ offset \in 0..Len(rows) /\ delivered = SubSeq(rows, 1, offset)
        /\ complete <=> offset = Len(rows)
    BY DEF IInv, InvCursor
  <1>2. Len(rows) \in Nat /\ offset \in Nat /\ \A i \in 1..Len(rows) : rows[i] \in Paths(q)
    BY <1>1, LenProperties, ElementOfSeq
  <1>3. /\ delivered \in Seq(Paths(q)) /\ Len(delivered) = offset
        /\ \A i \in 1..offset : delivered[i] = rows[i]
    <2>1. \A i \in 1..offset : rows[i] \in Paths(q)
      BY <1>1, <1>2
    <2>2. /\ delivered \in Seq(Paths(q)) /\ Len(delivered) = IF 1 <= offset THEN offset - 1 + 1 ELSE 0
          /\ \A i \in 1..(offset - 1 + 1) : delivered[i] = rows[1 + i - 1]
      BY <1>1, <1>2, <2>1, SubSeqProperties
    <2> QED
      BY <1>2, <2>2
  <1>4. offset = Len(rows) => delivered = rows
    BY <1>1, <1>3, SeqEqual
  <1> QED
    BY <1>1, <1>3, <1>4

-----------------------------------------------------------------------------
(* The invariant holds in every reachable state.                            *)
THEOREM ExecInvariant == Spec => []IInv
  <1>1. Init => IInv
    <2> SUFFICES ASSUME Init PROVE IInv
      OBVIOUS
    <2>1. IsQuery(q)
      BY QueryExecAssumption DEF Init
    <2> QED
      BY <2>1, InitInvariant DEF Init
  <1>2. IInv /\ [Next]_vars => IInv'
    BY StepInvariant, StutterInvariant
  <1> QED
    BY <1>1, <1>2, PTL DEF Spec

(* The executor's variables keep their types (TypeOK), with any number of   *)
(* workers and seeds.                                                       *)
THEOREM ExecTypes == Spec => []TypeOK
  BY ExecInvariant, InvariantTypes, PTL

(* The rows of a result are the reference's, in its order, whether one      *)
(* thread searches or several do, for every query (ResultIsExact).          *)
THEOREM ExecResult == Spec => []ResultIsExact
  <1>1. IInv => ResultIsExact
    BY DEF IInv
  <1> QED
    BY <1>1, ExecInvariant, PTL

(* An error names a limit that the whole query exceeds, however the workers *)
(* are interleaved (ErrorHasCause).                                         *)
THEOREM ExecCauses == Spec => []ErrorHasCause
  <1>1. IInv => ErrorHasCause
    BY DEF IInv
  <1> QED
    BY <1>1, ExecInvariant, PTL

(* Without a cancellation the limits alone decide whether a query succeeds  *)
(* (SucceedsIffFits).                                                       *)
THEOREM ExecSucceeds == Spec => []SucceedsIffFits
  BY ExecInvariant, InvariantDecides, PTL

(* A batch is the last one exactly if all rows are delivered                *)
(* (CompleteMeansAll).                                                      *)
THEOREM ExecComplete == Spec => []CompleteMeansAll
  BY ExecInvariant, InvariantCompletes, PTL

=============================================================================
