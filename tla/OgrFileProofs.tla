--------------------------- MODULE OgrFileProofs ---------------------------
(***************************************************************************)
(* Facts about files of records of any length: what appending a record     *)
(* does to the part of the file that a scan reaches.                       *)
(***************************************************************************)
EXTENDS OgrFile, SequenceTheorems, WellFoundedInduction, TLAPS

(* The order of the naturals is well founded, as a set of pairs.            *)
LEMMA LessThanWellFounded ==
  IsWellFoundedOn({p \in Nat \X Nat : p[1] < p[2]}, Nat)
  <1>1. IsWellFoundedOn(OpToRel(<, Nat), Nat)
    BY NatLessThanWellFounded
  <1> QED
    BY <1>1 DEF OpToRel

(* A non-empty set of naturals has a smallest element.                      *)
LEMMA MinExists ==
  ASSUME NEW T \in SUBSET Nat, T # {}
  PROVE  \E x \in T : \A y \in T : x <= y
  <1> DEFINE R == {p \in Nat \X Nat : p[1] < p[2]}
  <1>1. IsWellFoundedOn(R, Nat)
    BY LessThanWellFounded
  <1> HIDE DEF R
  <1>2. PICK x \in T : \A y \in T : ~(<<y, x>> \in R)
    BY <1>1, WFMin
  <1>3. \A y \in T : x <= y
    <2>1. SUFFICES ASSUME NEW y \in T, y < x PROVE FALSE
      OBVIOUS
    <2>2. <<y, x>> \in R
      BY <2>1 DEF R
    <2> QED
      BY <1>2, <2>2
  <1> QED
    BY <1>3

(* A non-empty bounded set of naturals has a largest element.               *)
LEMMA MaxExists ==
  ASSUME NEW n \in Nat, NEW T \in SUBSET (0..n), T # {}
  PROVE  \E x \in T : \A y \in T : y <= x
  <1> DEFINE U == {n - x : x \in T}
  <1>1. U \in SUBSET Nat /\ U # {}
    OBVIOUS
  <1>2. PICK u \in U : \A v \in U : u <= v
    BY <1>1, MinExists
  <1>3. PICK x \in T : u = n - x
    OBVIOUS
  <1>4. \A y \in T : y <= x
    <2>1. TAKE y \in T
    <2>2. n - y \in U
      OBVIOUS
    <2> QED
      BY <1>2, <1>3, <2>2
  <1> QED
    BY <1>4

-----------------------------------------------------------------------------
(* Append leaves what is there and adds one record at the end.              *)
LEMMA AppendAt ==
  ASSUME NEW S, NEW file \in Seq(S), NEW r \in S
  PROVE  /\ Append(file, r) \in Seq(S)
         /\ Len(file) \in Nat /\ DOMAIN file = 1..Len(file)
         /\ Len(Append(file, r)) = Len(file) + 1
         /\ DOMAIN Append(file, r) = 1..(Len(file) + 1)
         /\ \A i \in 1..Len(file) : Append(file, r)[i] = file[i]
         /\ Append(file, r)[Len(file) + 1] = r
  BY AppendProperties, LenProperties

(* What follows a record cannot take it out of, or into, the scan.          *)
LEMMA ScanKeepsPrefix ==
  ASSUME NEW S, NEW file \in Seq(S), NEW r \in S, NEW i \in 1..Len(file)
  PROVE  /\ i \in Scanned(Append(file, r)) <=> i \in Scanned(file)
         /\ i \in CommitPoints(Append(file, r)) <=> i \in CommitPoints(file)
  <1> DEFINE g == Append(file, r)
  <1>1. /\ i \in DOMAIN file /\ i \in DOMAIN g
        /\ \A k \in 1..i : g[k] = file[k]
    BY AppendAt
  <1> HIDE DEF g
  <1>2. i \in Scanned(g) <=> i \in Scanned(file)
    BY <1>1 DEF Scanned
  <1>3. g[i] = file[i]
    BY <1>1, AppendAt
  <1>4. i \in CommitPoints(g) <=> i \in CommitPoints(file)
    BY <1>2, <1>3 DEF CommitPoints
  <1> QED
    BY <1>2, <1>4 DEF g

(* The commit points are positions of the file.                             *)
LEMMA CommitPointsInDomain ==
  ASSUME NEW file
  PROVE  /\ CommitPoints(file) \subseteq DOMAIN file
         /\ \A j \in CommitPoints(file) : file[j].type = "TxnCommit"
  BY DEF CommitPoints, Scanned

(* The start of a group is the last TXN_BEGIN, if there is one at all.      *)
LEMMA GroupStartUnique ==
  ASSUME NEW file, NEW j \in Nat, NEW b \in 1..j,
         file[b].type = "TxnBegin",
         \A k \in (b+1)..j : file[k].type # "TxnBegin"
  PROVE  GroupStart(file, j) = b
  <1> DEFINE P(x) == /\ file[x].type = "TxnBegin"
                     /\ \A k \in (x+1)..j : file[k].type # "TxnBegin"
  <1>1. \A x \in 1..j : P(x) => x = b
    <2>1. SUFFICES ASSUME NEW x \in 1..j, P(x), x # b PROVE FALSE
      OBVIOUS
    <2>2. CASE x < b
      BY <2>1, <2>2
    <2>3. CASE b < x
      BY <2>1, <2>3
    <2> QED
      BY <2>1, <2>2, <2>3
  <1>2. P(b)
    OBVIOUS
  <1> HIDE DEF P
  <1>3. (CHOOSE x \in 1..j : P(x)) = b
    BY <1>1, <1>2
  <1> QED
    BY <1>3 DEF GroupStart, P

LEMMA GroupStartExists ==
  ASSUME NEW file, NEW j \in Nat, NEW c \in 1..j, file[c].type = "TxnBegin"
  PROVE  \E b \in 1..j : /\ file[b].type = "TxnBegin"
                         /\ \A k \in (b+1)..j : file[k].type # "TxnBegin"
  <1> DEFINE T == {x \in 1..j : file[x].type = "TxnBegin"}
  <1>1. T \in SUBSET (0..j) /\ T # {}
    OBVIOUS
  <1>2. PICK b \in T : \A y \in T : y <= b
    BY <1>1, MaxExists
  <1>3. \A k \in (b+1)..j : file[k].type # "TxnBegin"
    <2>1. SUFFICES ASSUME NEW k \in (b+1)..j, file[k].type = "TxnBegin" PROVE FALSE
      OBVIOUS
    <2>2. k \in T
      BY <2>1
    <2> QED
      BY <1>2, <2>1, <2>2
  <1>4. b \in 1..j /\ file[b].type = "TxnBegin"
    BY <1>2
  <1> QED
    BY <1>3, <1>4

(* A group that has a start is not changed by what is appended after it.    *)
LEMMA GroupKeepsPrefix ==
  ASSUME NEW S, NEW file \in Seq(S), NEW r \in S, NEW j \in 1..Len(file),
         NEW c \in 1..j, file[c].type = "TxnBegin"
  PROVE  /\ GroupStart(file, j) \in 1..j
         /\ GroupStart(Append(file, r), j) = GroupStart(file, j)
         /\ GroupBodies(Append(file, r), j) = GroupBodies(file, j)
         /\ Group(Append(file, r), j) = Group(file, j)
  <1> DEFINE g == Append(file, r)
  <1>1. j \in Nat /\ \A k \in 1..j : g[k] = file[k]
    BY AppendAt
  <1> HIDE DEF g
  <1>2. PICK b \in 1..j : /\ file[b].type = "TxnBegin"
                          /\ \A k \in (b+1)..j : file[k].type # "TxnBegin"
    BY GroupStartExists, <1>1
  <1>3. GroupStart(file, j) = b
    BY <1>1, <1>2, GroupStartUnique
  <1>4. GroupStart(g, j) = b
    <2>1. g[b].type = "TxnBegin" /\ \A k \in (b+1)..j : g[k].type # "TxnBegin"
      BY <1>1, <1>2
    <2> QED
      BY <1>1, <2>1, GroupStartUnique
  <1>5. GroupBodies(g, j) = GroupBodies(file, j)
    <2>1. ASSUME NEW i \in 1..(j - b - 1) PROVE g[b + i] = file[b + i]
      <3>1. b + i \in 1..j
        BY <1>1
      <3> QED
        BY <1>1, <3>1
    <2> QED
      BY <1>3, <1>4, <2>1 DEF GroupBodies
  <1>6. g[j].commit = file[j].commit
    BY <1>1
  <1> QED
    BY <1>3, <1>4, <1>5, <1>6 DEF Group, g

(* The latest commit is that of the last commit point.                      *)
LEMMA LatestCommitIs ==
  ASSUME NEW S, NEW file \in Seq(S)
  PROVE  \/ CommitPoints(file) = {} /\ LatestCommit(file) = 0
         \/ \E j \in CommitPoints(file) :
              /\ \A k \in CommitPoints(file) : k <= j
              /\ LatestCommit(file) = file[j].commit
  <1>1. CASE CommitPoints(file) = {}
    BY <1>1 DEF LatestCommit
  <1>2. CASE CommitPoints(file) # {}
    <2>1. Len(file) \in Nat /\ CommitPoints(file) \in SUBSET (0..Len(file))
      BY LenProperties, CommitPointsInDomain
    <2>2. \E j \in CommitPoints(file) : \A k \in CommitPoints(file) : k <= j
      BY <1>2, <2>1, MaxExists
    <2> DEFINE m == CHOOSE j \in CommitPoints(file) : \A k \in CommitPoints(file) : k <= j
    <2>3. m \in CommitPoints(file) /\ \A k \in CommitPoints(file) : k <= m
      BY <2>2
    <2>4. LatestCommit(file) = file[m].commit
      BY <1>2 DEF LatestCommit
    <2> QED
      BY <2>3, <2>4
  <1> QED
    BY <1>1, <1>2
=============================================================================
