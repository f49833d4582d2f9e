-------------------------- MODULE CommitLogProofs --------------------------
(***************************************************************************)
(* Proofs about CommitLog for any transactions, sizes, kinds and numbers   *)
(* of failures, tears and undecodable contents.                            *)
(***************************************************************************)
EXTENDS CommitLog, OgrFileProofs, FiniteSetTheorems

Payloads == (Nat \X Nat) \union (Txns \X Nat)
Bodies == Payloads \union (Nat \X Seq(Payloads))
RecordTypes == {"TxnBegin", "Version", "TxnCommit", "Torn"}
RecordSet == [type : RecordTypes, commit : Nat, body : Bodies, missing : Nat]

(* The strengthening.  A commit record has a TXN_BEGIN somewhere before it; *)
(* inside commit() the end of the file is the part written so far of the    *)
(* group being appended.                                                    *)
FileTyped == file \in Seq(RecordSet)

GroupsHaveStart ==
  \A j \in DOMAIN file : file[j].type = "TxnCommit" =>
    \E b \in 1..j : file[b].type = "TxnBegin"

WrittenPrefix ==
  pc # "idle" =>
    /\ up
    /\ pos <= Len(Records) /\ pos <= Len(file)
    /\ \A i \in 1..pos : file[Len(file) - pos + i] = Records[i]

\* A group that read_store accepts if it can decode its payloads.
WellFormedGroup(f, j) ==
  LET b == GroupStart(f, j) IN
  /\ b \in 1..j
  /\ f[j].body[1] = j - b + 1
  /\ f[j].body[2] = <<f[b].body>> \o GroupBodies(f, j)
  /\ \A i \in (b + 1)..(j - 1) : f[i].type = "Version"

GroupsGood ==
  \A j \in CommitPoints(file) :
    /\ \E t \in Txns : Group(file, j) = GroupOf(Commit(t, file[j].commit))
    /\ WellFormedGroup(file, j)

\* A TXN_BEGIN or a version stands before every record but a TXN_BEGIN.
NothingOutside ==
  \A i \in DOMAIN file :
    file[i].type \in {"Version", "TxnCommit"} => i > 1 /\ file[i - 1].type # "TxnCommit"

IInv ==
  /\ TypeOK
  /\ FileTyped
  /\ GroupsHaveStart
  /\ WrittenPrefix
  /\ GroupsGood
  /\ NothingOutside

\* The action RecoverableNeverRewritten says every step is.
KeepsGroups ==
  \A j \in CommitPoints(file) :
    /\ j \in CommitPoints(file')
    /\ Group(file', j) = Group(file, j)

-----------------------------------------------------------------------------
IsEncoding(r, c, t, n) ==
  /\ r \in Seq(RecordSet)
  /\ Len(r) = n + 2
  /\ r[1].type = "TxnBegin"
  /\ \A i \in 1..n : r[i + 1] = Record("Version", c, Change(t, i), 0)
  /\ r[n + 2].type = "TxnCommit" /\ r[n + 2].commit = c
  /\ r[n + 2].body = <<n + 2, <<r[1].body>> \o [i \in 1..n |-> Change(t, i)]>>

(* What append_transaction encodes: a TXN_BEGIN, the mutations in order and *)
(* a TXN_COMMIT, and nothing between them.                                  *)
LEMMA EncodedShape ==
  ASSUME NEW parent \in Nat, NEW c \in Nat, NEW t \in Txns, NEW n \in Nat
  PROVE  IsEncoding(EncodeTransaction(parent, c, t, n), c, t, n)
  <1> DEFINE begin   == Record("TxnBegin", c, <<parent, n>>, 0)
             changes == [i \in 1..n |-> Record("Version", c, Change(t, i), 0)]
             bodies  == [i \in 1..n |-> Change(t, i)]
             digest  == <<begin.body>> \o bodies
             end     == Record("TxnCommit", c, <<n + 2, digest>>, 0)
             r       == EncodeTransaction(parent, c, t, n)
  <1>1. begin \in RecordSet /\ begin.type = "TxnBegin" /\ begin.body \in Payloads
    BY DEF Record, RecordSet, RecordTypes, Bodies, Payloads
  <1>2. changes \in Seq(RecordSet) /\ Len(changes) = n
    BY DEF Record, Change, RecordSet, RecordTypes, Bodies, Payloads
  <1>3. bodies \in Seq(Payloads)
    BY DEF Change, Payloads
  <1>4. digest \in Seq(Payloads)
    <2>1. <<begin.body>> \in Seq(Payloads)
      BY <1>1
    <2> QED
      BY <1>3, <2>1, ConcatProperties
  <1>5. /\ end \in RecordSet /\ end.type = "TxnCommit" /\ end.commit = c
        /\ end.body = <<n + 2, digest>>
    <2> HIDE DEF digest
    <2> QED
      BY <1>4 DEF Record, RecordSet, RecordTypes, Bodies
  <1>6. r = <<begin>> \o changes \o <<end>>
    BY DEF EncodeTransaction
  <1>7. \A i \in 1..n : changes[i] = Record("Version", c, Change(t, i), 0)
    OBVIOUS
  <1>11. digest = <<begin.body>> \o [i \in 1..n |-> Change(t, i)]
    OBVIOUS
  <1> HIDE DEF begin, changes, bodies, digest, end, r
  <1>8. /\ <<begin>> \o changes \in Seq(RecordSet)
        /\ Len(<<begin>> \o changes) = n + 1
        /\ (<<begin>> \o changes)[1] = begin
        /\ \A i \in 1..n : (<<begin>> \o changes)[i + 1] = changes[i]
    BY <1>1, <1>2
  <1>9. /\ r \in Seq(RecordSet)
        /\ Len(r) = n + 2
        /\ \A i \in 1..(n + 1) : r[i] = (<<begin>> \o changes)[i]
        /\ r[n + 2] = end
    BY <1>5, <1>6, <1>8
  <1>10. r[1] = begin /\ \A i \in 1..n : r[i + 1] = changes[i]
    BY <1>8, <1>9
  <1> QED
    BY <1>1, <1>5, <1>7, <1>9, <1>10, <1>11 DEF r, IsEncoding

(* The same of the records of the transaction being committed.              *)
LEMMA RecordsShape ==
  ASSUME TypeOK, pc # "idle"
  PROVE  /\ cur \in Txns /\ Size[cur] \in Nat /\ latest + 1 \in Nat
         /\ IsEncoding(Records, latest + 1, cur, Size[cur])
  <1>1. cur \in Txns /\ Size[cur] \in Nat /\ latest \in Nat /\ latest + 1 \in Nat
    BY CommitLogAssumption DEF TypeOK
  <1> QED
    BY <1>1, EncodedShape DEF Records

(* Appending a record changes no group that a scan reaches.                 *)
LEMMA AppendKeepsGroups ==
  ASSUME FileTyped, GroupsHaveStart, GroupsGood, NEW r \in RecordSet, file' = Append(file, r)
  PROVE  /\ KeepsGroups
         /\ \A j \in CommitPoints(file') \ {Len(file) + 1} :
              /\ \E t \in Txns : Group(file', j) = GroupOf(Commit(t, file'[j].commit))
              /\ WellFormedGroup(file', j)
  <1>1. /\ file \in Seq(RecordSet) /\ Len(file) \in Nat /\ DOMAIN file = 1..Len(file)
        /\ DOMAIN file' = 1..(Len(file) + 1)
        /\ \A i \in 1..Len(file) : file'[i] = file[i]
    BY AppendAt DEF FileTyped
  <1>2. ASSUME NEW j \in CommitPoints(file)
        PROVE  /\ j \in 1..Len(file)
               /\ GroupStart(file, j) \in 1..j
               /\ GroupStart(file', j) = GroupStart(file, j)
               /\ GroupBodies(file', j) = GroupBodies(file, j)
               /\ Group(file', j) = Group(file, j)
    <2>1. j \in 1..Len(file) /\ file[j].type = "TxnCommit"
      BY <1>1, CommitPointsInDomain
    <2>2. PICK b \in 1..j : file[b].type = "TxnBegin"
      BY <1>1, <2>1 DEF GroupsHaveStart
    <2> QED
      BY <1>1, <2>1, <2>2, GroupKeepsPrefix
  <1>3. ASSUME NEW j \in 1..Len(file)
        PROVE  j \in CommitPoints(file') <=> j \in CommitPoints(file)
    BY <1>1, ScanKeepsPrefix
  <1>4. CommitPoints(file') \subseteq 1..(Len(file) + 1)
    BY <1>1, CommitPointsInDomain
  <1>5. KeepsGroups
    BY <1>2, <1>3 DEF KeepsGroups
  <1>6. ASSUME NEW j \in CommitPoints(file') \ {Len(file) + 1}
        PROVE  /\ \E t \in Txns : Group(file', j) = GroupOf(Commit(t, file'[j].commit))
               /\ WellFormedGroup(file', j)
    <2>1. j \in 1..Len(file)
      BY <1>1, <1>4
    <2>2. j \in CommitPoints(file) /\ file'[j] = file[j]
      BY <1>1, <1>3, <2>1
    <2>3. \E t \in Txns : Group(file', j) = GroupOf(Commit(t, file'[j].commit))
      BY <1>2, <2>2 DEF GroupsGood
    <2>4. WellFormedGroup(file, j)
      BY <2>2 DEF GroupsGood
    <2> DEFINE b == GroupStart(file, j)
    <2>5. /\ b \in 1..j /\ b \in 1..Len(file)
          /\ GroupStart(file', j) = b /\ GroupBodies(file', j) = GroupBodies(file, j)
      BY <1>2, <2>1, <2>2
    <2> HIDE DEF b
    <2>6. file'[b] = file[b]
      BY <1>1, <2>5
    <2>7. \A i \in (b + 1)..(j - 1) : file'[i] = file[i]
      BY <1>1, <2>1, <2>5
    <2>8. WellFormedGroup(file', j)
      <3>1. /\ file[j].body[1] = j - b + 1
            /\ file[j].body[2] = <<file[b].body>> \o GroupBodies(file, j)
            /\ \A i \in (b + 1)..(j - 1) : file[i].type = "Version"
        BY <2>4 DEF WellFormedGroup, b
      <3> QED
        BY <2>2, <2>5, <2>6, <2>7, <3>1 DEF WellFormedGroup
    <2> QED
      BY <2>3, <2>8
  <1> QED
    BY <1>5, <1>6

(* An append of anything but a TXN_COMMIT keeps the invariants of the file. *)
LEMMA AppendOther ==
  ASSUME FileTyped, GroupsHaveStart, GroupsGood,
         NEW r \in RecordSet, r.type # "TxnCommit", file' = Append(file, r)
  PROVE  FileTyped' /\ GroupsHaveStart' /\ GroupsGood' /\ KeepsGroups
  <1>1. /\ file \in Seq(RecordSet) /\ Len(file) \in Nat /\ DOMAIN file = 1..Len(file)
        /\ file' \in Seq(RecordSet)
        /\ DOMAIN file' = 1..(Len(file) + 1)
        /\ \A i \in 1..Len(file) : file'[i] = file[i]
        /\ file'[Len(file) + 1] = r
    BY AppendAt DEF FileTyped
  <1>2. GroupsHaveStart'
    <2>1. SUFFICES ASSUME NEW j \in DOMAIN file', file'[j].type = "TxnCommit"
                   PROVE  \E b \in 1..j : file'[b].type = "TxnBegin"
      BY DEF GroupsHaveStart
    <2>2. j \in 1..Len(file) /\ file[j].type = "TxnCommit"
      BY <1>1, <2>1
    <2>3. PICK b \in 1..j : file[b].type = "TxnBegin"
      BY <1>1, <2>2 DEF GroupsHaveStart
    <2> QED
      BY <1>1, <2>2, <2>3
  <1>3. Len(file) + 1 \notin CommitPoints(file')
    BY <1>1, CommitPointsInDomain
  <1>4. GroupsGood'
    BY <1>3, AppendKeepsGroups DEF GroupsGood
  <1> QED
    BY <1>1, <1>2, <1>4, AppendKeepsGroups DEF FileTyped

(* The record appended stands in its group.                                 *)
LEMMA AppendInside ==
  ASSUME FileTyped, NothingOutside, NEW r \in RecordSet, file' = Append(file, r),
         \/ r.type \notin {"Version", "TxnCommit"}
         \/ Len(file) > 0 /\ file[Len(file)].type # "TxnCommit"
  PROVE  NothingOutside'
  <1>1. /\ Len(file) \in Nat /\ DOMAIN file = 1..Len(file)
        /\ DOMAIN file' = 1..(Len(file) + 1)
        /\ \A i \in 1..Len(file) : file'[i] = file[i]
        /\ file'[Len(file) + 1] = r
    BY AppendAt DEF FileTyped
  <1>2. SUFFICES ASSUME NEW i \in DOMAIN file', file'[i].type \in {"Version", "TxnCommit"}
                 PROVE  i > 1 /\ file'[i - 1].type # "TxnCommit"
    BY DEF NothingOutside
  <1>3. CASE i = Len(file) + 1
    <2>1. r.type \in {"Version", "TxnCommit"}
      BY <1>1, <1>2, <1>3
    <2>2. Len(file) > 0 /\ file[Len(file)].type # "TxnCommit"
      BY <2>1
    <2>3. i > 1 /\ i - 1 = Len(file) /\ Len(file) \in 1..Len(file)
      BY <1>1, <1>3, <2>2
    <2>4. file'[Len(file)] = file[Len(file)]
      BY <1>1, <2>3
    <2> QED
      BY <2>2, <2>3, <2>4
  <1>4. CASE i # Len(file) + 1
    <2>1. i \in 1..Len(file) /\ file[i].type \in {"Version", "TxnCommit"}
      BY <1>1, <1>2, <1>4
    <2>2. i > 1 /\ file[i - 1].type # "TxnCommit"
      BY <1>1, <2>1 DEF NothingOutside
    <2>3. i - 1 \in 1..Len(file)
      BY <1>1, <2>1, <2>2
    <2>4. file'[i - 1] = file[i - 1]
      BY <1>1, <2>3
    <2> QED
      BY <2>2, <2>4
  <1> QED
    BY <1>3, <1>4

LEMMA RecordFields ==
  ASSUME NEW type, NEW c, NEW body, NEW missing
  PROVE  /\ Record(type, c, body, missing).type = type
         /\ Record(type, c, body, missing).commit = c
         /\ Record(type, c, body, missing).body = body
  BY DEF Record

(* The TXN_COMMIT closes the group of the transaction being committed: what *)
(* lies between its TXN_BEGIN and it is that transaction's mutations.       *)
LEMMA ClosedGroup ==
  ASSUME NEW f \in Seq(RecordSet), NEW r, NEW c, NEW t \in Txns, NEW n \in Nat,
         IsEncoding(r, c, t, n), n = Size[t],
         Len(f) >= n + 2,
         \A i \in 1..(n + 2) : f[Len(f) - (n + 2) + i] = r[i]
  PROVE  /\ Group(f, Len(f)) = GroupOf(Commit(t, c))
         /\ f[Len(f)].commit = c
         /\ WellFormedGroup(f, Len(f))
  <1> DEFINE L == Len(f)
             b == L - (n + 2) + 1
  <1>0. L \in Nat /\ L >= n + 2
    BY LenProperties
  <1>1. L \in Nat /\ b \in 1..L /\ L = b + n + 1
    <2> HIDE DEF L
    <2> QED
      BY <1>0
  <1>2. f[b].type = "TxnBegin"
    <2>1. 1 \in 1..(n + 2)
      OBVIOUS
    <2> QED
      BY <2>1 DEF IsEncoding
  <1>3. \A i \in 1..n : f[b + i] = Record("Version", c, Change(t, i), 0)
    <2>1. SUFFICES ASSUME NEW i \in 1..n
                   PROVE  f[b + i] = Record("Version", c, Change(t, i), 0)
      OBVIOUS
    <2>2. i + 1 \in 1..(n + 2) /\ L - (n + 2) + (i + 1) = b + i
      <3> HIDE DEF L, b
      <3>1. i \in Int /\ n \in Int /\ L \in Int /\ b \in Int /\ L = b + n + 1
        BY <1>1
      <3>2. i + 1 \in 1..(n + 2)
        OBVIOUS
      <3>3. L - (n + 2) + (i + 1) = b + i
        BY ONLY <3>1
      <3> QED
        BY <3>2, <3>3
    <2> QED
      BY <2>2 DEF IsEncoding
  <1>4. /\ f[L].type = "TxnCommit" /\ f[L].commit = c
        /\ f[L].body = <<n + 2, <<f[b].body>> \o [i \in 1..n |-> Change(t, i)]>>
    <2>0. f[b] = r[1]
      <3>1. 1 \in 1..(n + 2)
        OBVIOUS
      <3> QED
        BY <3>1
    <2>1. n + 2 \in 1..(n + 2) /\ L - (n + 2) + (n + 2) = L
      <3> HIDE DEF L, b
      <3>1. n \in Nat /\ L \in Nat
        BY <1>1
      <3> QED
        BY ONLY <3>1
    <2> QED
      BY <2>0, <2>1 DEF IsEncoding
  <1> HIDE DEF L, b
  <1>5. \A k \in (b + 1)..L : f[k].type # "TxnBegin"
    <2>1. SUFFICES ASSUME NEW k \in (b + 1)..L PROVE f[k].type # "TxnBegin"
      OBVIOUS
    <2>2. CASE k = L
      BY <1>4, <2>2
    <2>3. CASE k # L
      <3>1. k - b \in 1..n /\ b + (k - b) = k
        BY <1>1, <2>3
      <3>2. f[k] = Record("Version", c, Change(t, k - b), 0)
        BY <1>3, <3>1
      <3> QED
        BY <3>2, RecordFields
    <2> QED
      BY <2>2, <2>3
  <1>6. GroupStart(f, L) = b
    BY <1>1, <1>2, <1>5, GroupStartUnique
  <1>7. GroupBodies(f, L) = [i \in 1..n |-> Change(t, i)]
    <2>1. L - b - 1 = n
      BY <1>1
    <2>2. GroupBodies(f, L) = [i \in 1..n |-> f[b + i].body]
      BY <1>6, <2>1 DEF GroupBodies
    <2>3. \A i \in 1..n : f[b + i].body = Change(t, i)
      BY <1>3, RecordFields
    <2> QED
      BY <2>2, <2>3
  <1>8. WellFormedGroup(f, L)
    <2>1. f[L].body[1] = L - b + 1
      BY <1>1, <1>4, SMTT(30)
    <2>2. f[L].body[2] = <<f[b].body>> \o GroupBodies(f, L)
      BY <1>4, <1>7
    <2>3. \A i \in (b + 1)..(L - 1) : f[i].type = "Version"
      <3>1. SUFFICES ASSUME NEW i \in (b + 1)..(L - 1) PROVE f[i].type = "Version"
        OBVIOUS
      <3>2. i - b \in 1..n /\ b + (i - b) = i
        BY <1>1
      <3>3. f[i] = Record("Version", c, Change(t, i - b), 0)
        BY <1>3, <3>2
      <3> QED
        BY <3>3, RecordFields
    <2> QED
      BY <1>1, <1>6, <2>1, <2>2, <2>3 DEF WellFormedGroup
  <1> QED
    BY <1>4, <1>7, <1>8 DEF Group, GroupOf, Commit, L

(* Writing the next record of the group.                                    *)
LEMMA WriteKeepsFile ==
  ASSUME IInv, WriteRecord
  PROVE  FileTyped' /\ GroupsHaveStart' /\ WrittenPrefix' /\ GroupsGood' /\ NothingOutside' /\ KeepsGroups
  <1> DEFINE n == Size[cur]
             r == Records[pos + 1]
  <1>1. /\ pc = "writing" /\ pos < Len(Records) /\ up
        /\ file' = Append(file, r) /\ pos' = pos + 1
        /\ UNCHANGED <<pc, cur, latest, up>>
        /\ pos \in Nat
    BY DEF WriteRecord, IInv, WrittenPrefix, TypeOK
  <1>2. /\ cur \in Txns /\ n \in Nat /\ latest + 1 \in Nat
        /\ IsEncoding(Records, latest + 1, cur, n)
    BY <1>1, RecordsShape DEF IInv
  <1>3. Records \in Seq(RecordSet) /\ Len(Records) = n + 2 /\ r \in RecordSet
    <2>1. Records \in Seq(RecordSet) /\ Len(Records) = n + 2
      BY <1>2 DEF IsEncoding
    <2>2. pos + 1 \in 1..Len(Records)
      BY <1>1, <1>2, <2>1
    <2> QED
      BY <2>1, <2>2, ElementOfSeq
  <1>4. Records' = Records
    BY <1>1 DEF Records
  <1> HIDE DEF n, r
  <1>5. /\ file \in Seq(RecordSet) /\ Len(file) \in Nat /\ DOMAIN file = 1..Len(file)
        /\ file' \in Seq(RecordSet) /\ Len(file') = Len(file) + 1
        /\ DOMAIN file' = 1..(Len(file) + 1)
        /\ \A i \in 1..Len(file) : file'[i] = file[i]
        /\ file'[Len(file) + 1] = r
    BY <1>1, <1>3, AppendAt DEF FileTyped, IInv
  <1>6. /\ pos' <= Len(Records) /\ pos' <= Len(file')
        /\ \A i \in 1..pos' : file'[Len(file') - pos' + i] = Records[i]
    <2>1. /\ pos <= Len(file)
          /\ \A i \in 1..pos : file[Len(file) - pos + i] = Records[i]
      BY <1>1 DEF IInv, WrittenPrefix
    <2>2. pos' <= Len(Records) /\ pos' <= Len(file')
      BY <1>1, <1>2, <1>3, <1>5, <2>1
    <2>3. ASSUME NEW i \in 1..pos'
          PROVE  file'[Len(file') - pos' + i] = Records[i]
      <3>1. Len(file') - pos' + i = Len(file) - pos + i
        BY <1>1, <1>5
      <3>2. CASE i = pos + 1
        <4>1. Len(file) - pos + i = Len(file) + 1
          BY <1>1, <1>5, <3>2
        <4> QED
          BY <1>5, <3>1, <3>2, <4>1 DEF r
      <3>3. CASE i # pos + 1
        <4>1. i \in 1..pos /\ Len(file) - pos + i \in 1..Len(file)
          BY <1>1, <1>5, <2>1, <3>3
        <4> QED
          BY <1>5, <2>1, <3>1, <4>1
      <3> QED
        BY <3>2, <3>3
    <2> QED
      BY <2>2, <2>3
  <1>7. WrittenPrefix'
    BY <1>1, <1>4, <1>6 DEF WrittenPrefix
  <1>10. NothingOutside'
    <2>1. CASE pos = 0
      BY <1>1, <1>2, <1>3, <2>1, AppendInside DEF IsEncoding, r, IInv
    <2>2. CASE pos > 0
      <3>1. pos \in 1..pos /\ Len(file) - pos + pos = Len(file) /\ Len(file) > 0
        BY <1>1, <1>5, <2>2 DEF IInv, WrittenPrefix
      <3>2. file[Len(file)] = Records[pos]
        BY <1>1, <3>1 DEF IInv, WrittenPrefix
      <3>3. Records[pos].type # "TxnCommit"
        <4>1. CASE pos = 1
          BY <1>2, <4>1 DEF IsEncoding
        <4>2. CASE pos > 1
          <5>1. pos - 1 \in 1..n /\ (pos - 1) + 1 = pos
            BY <1>1, <1>2, <1>3, <4>2
          <5>2. Records[pos] = Record("Version", latest + 1, Change(cur, pos - 1), 0)
            BY <1>2, <5>1 DEF IsEncoding
          <5> QED
            BY <5>2, RecordFields
        <4> QED
          BY <1>1, <2>2, <4>1, <4>2
      <3> QED
        BY <1>1, <1>3, <3>1, <3>2, <3>3, AppendInside DEF IInv
    <2> QED
      BY <1>1, <2>1, <2>2
  <1>8. CASE r.type # "TxnCommit"
    BY <1>1, <1>3, <1>7, <1>8, <1>10, AppendOther DEF IInv
  <1>9. CASE r.type = "TxnCommit"
    <2>1. pos + 1 = n + 2
      <3>1. Records[1].type = "TxnBegin"
        BY <1>2 DEF IsEncoding
      <3>2. \A i \in 1..n : Records[i + 1].type = "Version"
        <4>1. SUFFICES ASSUME NEW i \in 1..n PROVE Records[i + 1].type = "Version"
          OBVIOUS
        <4>2. Records[i + 1] = Record("Version", latest + 1, Change(cur, i), 0)
          BY <1>2 DEF IsEncoding
        <4> QED
          BY <4>2, RecordFields
      <3>3. CASE pos = 0
        BY <1>9, <3>1, <3>3 DEF r
      <3>4. CASE pos \in 1..n
        BY <1>9, <3>2, <3>4 DEF r
      <3> QED
        BY <1>1, <1>2, <1>3, <3>3, <3>4
    <2>2. Len(file') >= n + 2 /\ pos' = n + 2
      BY <1>1, <1>2, <1>5, <1>6, <2>1
    <2>3. \A i \in 1..(n + 2) : file'[Len(file') - (n + 2) + i] = Records[i]
      BY <1>6, <2>2
    <2>4. /\ Group(file', Len(file')) = GroupOf(Commit(cur, latest + 1))
          /\ file'[Len(file')].commit = latest + 1
          /\ WellFormedGroup(file', Len(file'))
      BY <1>2, <1>5, <2>2, <2>3, ClosedGroup DEF n
    <2>6. GroupsGood'
      <3>1. SUFFICES ASSUME NEW j \in CommitPoints(file')
                     PROVE  /\ \E t \in Txns : Group(file', j) = GroupOf(Commit(t, file'[j].commit))
                            /\ WellFormedGroup(file', j)
        BY DEF GroupsGood
      <3>2. CASE j = Len(file) + 1
        BY <1>2, <1>5, <2>4, <3>2
      <3>3. CASE j # Len(file) + 1
        BY <1>1, <1>3, <3>3, AppendKeepsGroups DEF IInv
      <3> QED
        BY <3>2, <3>3
    <2>7. GroupsHaveStart'
      <3>1. SUFFICES ASSUME NEW j \in DOMAIN file', file'[j].type = "TxnCommit"
                     PROVE  \E b \in 1..j : file'[b].type = "TxnBegin"
        BY DEF GroupsHaveStart
      <3>2. CASE j = Len(file) + 1
        <4>1. Len(file') - (n + 2) + 1 \in 1..j
          BY <1>2, <1>5, <2>2, <3>2
        <4>2. file'[Len(file') - (n + 2) + 1].type = "TxnBegin"
          <5>1. 1 \in 1..(n + 2)
            BY <1>2
          <5> QED
            BY <1>2, <2>3, <5>1 DEF IsEncoding
        <4> QED
          BY <4>1, <4>2
      <3>3. CASE j # Len(file) + 1
        <4>1. j \in 1..Len(file) /\ file[j].type = "TxnCommit"
          BY <1>5, <3>1, <3>3
        <4>2. PICK b \in 1..j : file[b].type = "TxnBegin"
          BY <1>5, <4>1 DEF GroupsHaveStart, IInv
        <4> QED
          BY <1>5, <4>1, <4>2
      <3> QED
        BY <3>2, <3>3
    <2>8. KeepsGroups
      BY <1>1, <1>3, AppendKeepsGroups DEF IInv
    <2> QED
      BY <1>5, <1>7, <1>10, <2>6, <2>7, <2>8 DEF FileTyped
  <1> QED
    BY <1>8, <1>9

(* Leaving the file alone keeps the invariants of the file.                 *)
LEMMA UnchangedFile ==
  ASSUME FileTyped, GroupsHaveStart, GroupsGood, NothingOutside, file' = file
  PROVE  FileTyped' /\ GroupsHaveStart' /\ GroupsGood' /\ NothingOutside' /\ KeepsGroups
  BY DEF FileTyped, GroupsHaveStart, GroupsGood, NothingOutside, KeepsGroups

(* What an interrupted write leaves keeps the invariants of the file.       *)
LEMMA TailKeepsFile ==
  ASSUME FileTyped, GroupsHaveStart, GroupsGood, NothingOutside, LeaveTail
  PROVE  FileTyped' /\ GroupsHaveStart' /\ GroupsGood' /\ NothingOutside' /\ KeepsGroups
  <1>1. CASE UNCHANGED file
    BY <1>1, UnchangedFile
  <1>2. ASSUME NEW m \in Tears, file' = Append(file, Torn(m))
        PROVE  FileTyped' /\ GroupsHaveStart' /\ GroupsGood' /\ NothingOutside' /\ KeepsGroups
    <2>1. Torn(m) \in RecordSet /\ Torn(m).type = "Torn"
      BY CommitLogAssumption DEF Torn, Record, RecordSet, RecordTypes, Bodies, Payloads
    <2> QED
      BY <1>2, <2>1, AppendOther, AppendInside
  <1> QED
    BY <1>1, <1>2 DEF LeaveTail

(* Inside commit() nothing moves but the program counter.                   *)
LEMMA PrefixKept ==
  ASSUME WrittenPrefix, UNCHANGED <<file, up, latest, cur, pos>>,
         pc' # "idle" => pc # "idle"
  PROVE  WrittenPrefix'
  BY DEF WrittenPrefix, Records

LEMMA IdlePrefix ==
  ASSUME pc' = "idle"
  PROVE  WrittenPrefix'
  BY DEF WrittenPrefix

(* A commit begins with nothing written.                                    *)
LEMMA BeginPrefix ==
  ASSUME IInv, NEW t \in Txns, BeginAppend(t)
  PROVE  WrittenPrefix'
  <1>1. /\ up' /\ pos' = 0 /\ file' = file
        /\ latest' \in Nat /\ latest' + 1 \in Nat /\ cur' \in Txns /\ Size[cur'] \in Nat
    BY CommitLogAssumption DEF BeginAppend, IInv, TypeOK
  <1>2. Records' = EncodeTransaction(latest', latest' + 1, cur', Size[cur'])
    BY DEF Records
  <1>3. IsEncoding(Records', latest' + 1, cur', Size[cur'])
    BY <1>1, <1>2, EncodedShape
  <1>4. pos' <= Len(Records')
    BY <1>1, <1>3 DEF IsEncoding
  <1>5. Len(file') \in Nat
    BY <1>1, LenProperties DEF IInv, FileTyped
  <1> QED
    BY <1>1, <1>4, <1>5 DEF WrittenPrefix

-----------------------------------------------------------------------------
(* Type correctness of the file follows from what its records are.          *)
LEMMA FileTypes ==
  ASSUME NEW f \in Seq(RecordSet)
  PROVE  \A i \in DOMAIN f :
           /\ f[i].type \in {"TxnBegin", "Version", "TxnCommit", "Torn"}
           /\ f[i].commit \in Nat /\ f[i].missing \in Nat
  <1>1. \A i \in DOMAIN f : f[i] \in RecordSet
    BY ElementOfSeq, LenProperties
  <1> QED
    BY <1>1 DEF RecordSet, RecordTypes

(* The head that load takes from the file is a number.                      *)
LEMMA LatestCommitType ==
  ASSUME NEW f \in Seq(RecordSet)
  PROVE  LatestCommit(f) \in Nat
  <1>1. CASE LatestCommit(f) = 0
    BY <1>1
  <1>2. ASSUME NEW j \in CommitPoints(f), LatestCommit(f) = f[j].commit
        PROVE  LatestCommit(f) \in Nat
    BY <1>2, CommitPointsInDomain, FileTypes
  <1> QED
    BY <1>1, <1>2, LatestCommitIs

\* Type correctness of everything but the file.
MemoryTypes ==
  /\ header \in Nat /\ latest \in Nat /\ up \in BOOLEAN
  /\ known \subseteq [commit : Nat, txn : Txns]
  /\ acked \subseteq [commit : Nat, txn : Txns]
  /\ closed \subseteq Txns /\ failed \subseteq Txns
  /\ pc \in {"idle", "writing", "reread", "patch", "publish"}
  /\ cur \in Txns \union {NoTxn} /\ (cur = NoTxn <=> pc = "idle")
  /\ pos \in Nat /\ faults \in 0..MaxFaults

LEMMA TypesSplit ==
  ASSUME MemoryTypes', FileTyped'
  PROVE  TypeOK'
  BY FileTypes DEF MemoryTypes, FileTyped, TypeOK

(* Every step keeps the types of the memory.                                *)
LEMMA TypesKept ==
  ASSUME IInv, Next
  PROVE  MemoryTypes'
  <1> USE CommitLogAssumption
  <1>0. MemoryTypes /\ file \in Seq(RecordSet) /\ LatestCommit(file) \in Nat
    BY LatestCommitType DEF IInv, TypeOK, MemoryTypes, FileTyped
  <1>1. ASSUME NEW t \in Txns, BeginAppend(t) PROVE MemoryTypes'
    BY <1>0, <1>1 DEF BeginAppend, MemoryTypes
  <1>2. CASE WriteRecord
    BY <1>0, <1>2 DEF WriteRecord, MemoryTypes
  <1>3. CASE CloseFile
    BY <1>0, <1>3 DEF CloseFile, MemoryTypes
  <1>4. CASE Reread
    BY <1>0, <1>4 DEF Reread, MemoryTypes
  <1>5. CASE PatchHeader
    BY <1>0, <1>5 DEF PatchHeader, MemoryTypes
  <1>6. CASE Publish
    BY <1>0, <1>6 DEF Publish, MemoryTypes, Commit
  <1>7. CASE RereadRejects
    BY <1>0, <1>7 DEF RereadRejects, ReportError, MemoryTypes
  <1>8. CASE WriteFails
    BY <1>0, <1>8 DEF WriteFails, Fault, ReportError, MemoryTypes
  <1>9. CASE RereadFails
    BY <1>0, <1>9 DEF RereadFails, Fault, ReportError, MemoryTypes
  <1>10. CASE PatchFails
    BY <1>0, <1>10 DEF PatchFails, Fault, ReportError, MemoryTypes
  <1>11. CASE PatchIsLost
    BY <1>0, <1>11 DEF PatchIsLost, Fault, MemoryTypes
  <1>12. CASE Crash
    <2>1. /\ faults < MaxFaults /\ faults' = faults + 1
          /\ up' = FALSE /\ latest' = 0 /\ known' = {}
          /\ closed' = closed \union failed \union ({cur} \ {NoTxn})
          /\ pc' = "idle" /\ cur' = NoTxn /\ pos' = 0
          /\ UNCHANGED <<header, acked, failed>>
      BY <1>12 DEF Crash, Fault
    <2>2. closed' \subseteq Txns
      BY <1>0, <2>1 DEF MemoryTypes
    <2>3. faults' \in 0..MaxFaults
      BY <1>0, <2>1 DEF MemoryTypes
    <2>4. header' \in Nat /\ acked' \subseteq [commit : Nat, txn : Txns] /\ failed' \subseteq Txns
      BY <1>0, <2>1 DEF MemoryTypes
    <2>5. known' \subseteq [commit : Nat, txn : Txns] /\ up' \in BOOLEAN
      BY <2>1
    <2> QED
      BY <2>1, <2>2, <2>3, <2>4, <2>5 DEF MemoryTypes
  <1>13. CASE Reopen
    BY <1>0, <1>13, LenProperties DEF Reopen, MemoryTypes
  <1> QED
    BY <1>1, <1>2, <1>3, <1>4, <1>5, <1>6, <1>7, <1>8, <1>9, <1>10, <1>11, <1>12, <1>13
    DEF Next

(* Every step keeps the invariants and rewrites no group.                   *)
LEMMA StepKeeps ==
  ASSUME IInv, Next
  PROVE  FileTyped' /\ GroupsHaveStart' /\ WrittenPrefix' /\ GroupsGood' /\ NothingOutside' /\ KeepsGroups
  <1> DEFINE FileKept == FileTyped' /\ GroupsHaveStart' /\ GroupsGood' /\ NothingOutside' /\ KeepsGroups
  <1>0. FileTyped /\ GroupsHaveStart /\ GroupsGood /\ NothingOutside /\ WrittenPrefix
    BY DEF IInv
  <1>1. ASSUME NEW t \in Txns, BeginAppend(t) PROVE FileKept /\ WrittenPrefix'
    <2>1. file' = file
      BY <1>1 DEF BeginAppend
    <2> QED
      BY <1>0, <1>1, <2>1, UnchangedFile, BeginPrefix
  <1>2. CASE WriteRecord
    BY <1>2, WriteKeepsFile
  <1>3. CASE CloseFile \/ Reread \/ PatchHeader \/ PatchIsLost
    <2>1. UNCHANGED <<file, up, latest, cur, pos>> /\ pc # "idle"
      BY <1>3 DEF CloseFile, Reread, PatchHeader, PatchIsLost
    <2> QED
      BY <1>0, <2>1, UnchangedFile, PrefixKept
  <1>4. CASE Publish \/ RereadRejects \/ RereadFails \/ PatchFails
    <2>1. file' = file /\ pc' = "idle"
      BY <1>4 DEF Publish, RereadRejects, RereadFails, PatchFails, ReportError
    <2> QED
      BY <1>0, <2>1, UnchangedFile, IdlePrefix
  <1>5. CASE WriteFails
    <2>1. LeaveTail /\ pc' = "idle"
      BY <1>5 DEF WriteFails, ReportError
    <2> QED
      BY <1>0, <2>1, TailKeepsFile, IdlePrefix
  <1>6. CASE Crash
    <2>1. (LeaveTail \/ UNCHANGED file) /\ pc' = "idle"
      BY <1>6 DEF Crash
    <2> QED
      BY <1>0, <2>1, TailKeepsFile, UnchangedFile, IdlePrefix
  <1>7. CASE Reopen
    <2>1. file' = file /\ pc' = "idle"
      BY <1>0, <1>7 DEF Reopen, WrittenPrefix
    <2> QED
      BY <1>0, <2>1, UnchangedFile, IdlePrefix
  <1> QED
    BY <1>1, <1>2, <1>3, <1>4, <1>5, <1>6, <1>7 DEF Next

LEMMA Initially == Init => IInv
  <1>1. SUFFICES ASSUME Init PROVE IInv
    OBVIOUS
  <1>2. file = <<>> /\ DOMAIN file = {} /\ file \in Seq(RecordSet) /\ CommitPoints(file) = {}
    BY <1>1, CommitPointsInDomain DEF Init
  <1> QED
    BY <1>1, <1>2, CommitLogAssumption
    DEF Init, IInv, TypeOK, FileTyped, GroupsHaveStart, WrittenPrefix, GroupsGood, NothingOutside

LEMMA StepInvariant ==
  ASSUME IInv, [Next]_vars
  PROVE  IInv' /\ KeepsGroups
  <1>1. CASE Next
    BY <1>1, StepKeeps, TypesKept, TypesSplit DEF IInv
  <1>2. CASE UNCHANGED vars
    BY <1>2
    DEF vars, IInv, TypeOK, FileTyped, GroupsHaveStart, WrittenPrefix, GroupsGood,
        NothingOutside, KeepsGroups, Records, WellFormedGroup
  <1> QED
    BY <1>1, <1>2

(* The inductive invariant of the commit path.                              *)
THEOREM CommitLogInvariant == Spec => []IInv
  BY Initially, StepInvariant, PTL DEF Spec

(* Every variable keeps its type, whatever fails.                           *)
THEOREM CommitLogTypeCorrect == Spec => []TypeOK
  <1>1. IInv => TypeOK
    BY DEF IInv
  <1> QED
    BY <1>1, CommitLogInvariant, PTL

(* Atomicity of append_transaction and read_store: a replayed group is all  *)
(* the mutations of one transaction, after any failures, tears and crashes. *)
THEOREM RecoveryIsAtomic == Spec => []RecoveredWhole
  <1>1. IInv => RecoveredWhole
    BY DEF IInv, GroupsGood, RecoveredWhole
  <1> QED
    BY <1>1, CommitLogInvariant, PTL

(* No step of the commit path, no failure and no crash rewrites or hides a  *)
(* group that a reopen would have replayed.                                 *)
THEOREM RecoverableIsStable == Spec => RecoverableNeverRewritten
  <1>1. IInv /\ [Next]_vars => [KeepsGroups]_vars
    BY StepInvariant
  <1> QED
    BY <1>1, CommitLogInvariant, PTL DEF Spec, RecoverableNeverRewritten, KeepsGroups

-----------------------------------------------------------------------------
(***************************************************************************)
(* What the file still promises after failures: the superblock, and the    *)
(* commits that were reported as successful.                               *)
(***************************************************************************)

(* The strengthening.  The scan never finds more than the commit the store  *)
(* would number next; after CloseFile the group is completely written.      *)
HeadBound == up => LatestCommit(file) <= latest + 1

WrittenWhole == pc \in {"reread", "patch", "publish"} => pos = Len(Records)

AckedRecovered ==
  TornAt(file) \subseteq {Len(file)} => \A a \in acked : Recovered(a)

DInv ==
  /\ HeadBound
  /\ HeaderNeverAhead
  /\ WrittenWhole
  /\ AckedRecovered

-----------------------------------------------------------------------------
(* The latest commit is that of any commit point no other one is after.     *)
LEMMA LatestCommitUnique ==
  ASSUME NEW f \in Seq(RecordSet), NEW m \in CommitPoints(f),
         \A k \in CommitPoints(f) : k <= m
  PROVE  LatestCommit(f) = f[m].commit
  <1>1. CommitPoints(f) \subseteq Nat
    BY CommitPointsInDomain, LenProperties
  <1>2. PICK j \in CommitPoints(f) :
           /\ \A k \in CommitPoints(f) : k <= j
           /\ LatestCommit(f) = f[j].commit
    BY LatestCommitIs
  <1>3. j = m
    BY <1>1, <1>2
  <1> QED
    BY <1>2, <1>3

(* Appending a record that is no commit point leaves the latest commit.     *)
LEMMA LatestCommitKept ==
  ASSUME NEW f \in Seq(RecordSet), NEW r \in RecordSet, NEW g, g = Append(f, r),
         Len(f) + 1 \notin CommitPoints(g)
  PROVE  LatestCommit(g) = LatestCommit(f)
  <1>1. /\ g \in Seq(RecordSet) /\ Len(f) \in Nat /\ DOMAIN f = 1..Len(f)
        /\ DOMAIN g = 1..(Len(f) + 1)
        /\ \A i \in 1..Len(f) : g[i] = f[i]
    BY AppendAt
  <1>2. \A j \in 1..Len(f) : j \in CommitPoints(g) <=> j \in CommitPoints(f)
    BY ScanKeepsPrefix
  <1>3. CommitPoints(g) \subseteq 1..Len(f)
    <2>1. CommitPoints(g) \subseteq 1..(Len(f) + 1)
      BY <1>1, CommitPointsInDomain
    <2> QED
      BY <1>1, <2>1
  <1>4. CommitPoints(f) \subseteq 1..Len(f)
    BY <1>1, CommitPointsInDomain
  <1>5. CommitPoints(g) = CommitPoints(f)
    BY <1>2, <1>3, <1>4
  <1>6. CASE CommitPoints(f) = {}
    BY <1>5, <1>6 DEF LatestCommit
  <1>7. CASE CommitPoints(f) # {}
    <2>1. PICK m \in CommitPoints(f) :
             /\ \A k \in CommitPoints(f) : k <= m
             /\ LatestCommit(f) = f[m].commit
      BY <1>7, LatestCommitIs
    <2>2. LatestCommit(g) = g[m].commit
      BY <1>1, <1>5, <2>1, LatestCommitUnique
    <2> QED
      BY <1>1, <1>4, <2>1, <2>2
  <1> QED
    BY <1>6, <1>7

(* A commit record that the scan reaches becomes the latest commit.         *)
LEMMA LatestCommitNew ==
  ASSUME NEW f \in Seq(RecordSet), NEW r \in RecordSet, NEW g, g = Append(f, r),
         Len(f) + 1 \in CommitPoints(g)
  PROVE  LatestCommit(g) = r.commit
  <1>1. /\ g \in Seq(RecordSet) /\ Len(f) \in Nat
        /\ DOMAIN g = 1..(Len(f) + 1)
        /\ g[Len(f) + 1] = r
    BY AppendAt
  <1>2. \A k \in CommitPoints(g) : k <= Len(f) + 1
    <2>1. SUFFICES ASSUME NEW k \in CommitPoints(g) PROVE k <= Len(f) + 1
      OBVIOUS
    <2>2. k \in 1..(Len(f) + 1)
      BY <1>1, CommitPointsInDomain
    <2> QED
      BY <1>1, <2>2
  <1> QED
    BY <1>1, <1>2, LatestCommitUnique

(* What an append does to the latest commit, by the type of the record.     *)
LEMMA LatestCommitAppend ==
  ASSUME NEW f \in Seq(RecordSet), NEW r \in RecordSet, NEW g, g = Append(f, r)
  PROVE  \/ LatestCommit(g) = LatestCommit(f)
         \/ r.type = "TxnCommit" /\ LatestCommit(g) = r.commit
  <1>1. g[Len(f) + 1] = r
    BY AppendAt
  <1>2. CASE Len(f) + 1 \notin CommitPoints(g)
    BY <1>2, LatestCommitKept
  <1>3. CASE Len(f) + 1 \in CommitPoints(g)
    BY <1>1, <1>3, LatestCommitNew, CommitPointsInDomain
  <1> QED
    BY <1>2, <1>3

(* An interrupted write moves no commit point.                              *)
LEMMA TailKeepsLatest ==
  ASSUME FileTyped, LeaveTail
  PROVE  LatestCommit(file') = LatestCommit(file)
  <1>1. CASE UNCHANGED file
    BY <1>1
  <1>2. ASSUME NEW m \in Tears, file' = Append(file, Torn(m))
        PROVE  LatestCommit(file') = LatestCommit(file)
    <2>1. Torn(m) \in RecordSet /\ Torn(m).type = "Torn"
      BY CommitLogAssumption DEF Torn, Record, RecordSet, RecordTypes, Bodies, Payloads
    <2> QED
      BY <1>2, <2>1, LatestCommitAppend DEF FileTyped
  <1> QED
    BY <1>1, <1>2 DEF LeaveTail

(* Writing a record advances the latest commit at most to the commit being  *)
(* written, which is the head plus one.                                     *)
LEMMA WriteLatest ==
  ASSUME IInv, WriteRecord
  PROVE  LatestCommit(file') \in {LatestCommit(file), latest + 1}
  <1> DEFINE n == Size[cur]
             r == Records[pos + 1]
  <1>1. pc = "writing" /\ pos < Len(Records) /\ file' = Append(file, r) /\ pos \in Nat
    BY DEF WriteRecord, IInv, TypeOK
  <1>2. n \in Nat /\ IsEncoding(Records, latest + 1, cur, n)
    BY <1>1, RecordsShape DEF IInv
  <1>3. pos + 1 \in 1..(n + 2) /\ Records \in Seq(RecordSet) /\ Len(Records) = n + 2
    BY <1>1, <1>2 DEF IsEncoding
  <1>4. r \in RecordSet
    BY <1>3, ElementOfSeq
  <1>5. CASE pos + 1 = n + 2
    <2>1. r.commit = latest + 1
      BY <1>2, <1>5 DEF IsEncoding
    <2> HIDE DEF r, n
    <2> QED
      BY <1>1, <1>4, <2>1, LatestCommitAppend DEF IInv, FileTyped
  <1>6. CASE pos + 1 # n + 2
    <2>1. r.type # "TxnCommit"
      <3>1. CASE pos = 0
        BY <1>2, <3>1 DEF IsEncoding
      <3>2. CASE pos # 0
        <4>1. pos \in 1..n
          BY <1>1, <1>2, <1>3, <1>6, <3>2
        <4>2. r = Record("Version", latest + 1, Change(cur, pos), 0)
          BY <1>2, <4>1 DEF IsEncoding
        <4> QED
          BY <4>2, RecordFields
      <3> QED
        BY <3>1, <3>2
    <2> HIDE DEF r, n
    <2> QED
      BY <1>1, <1>4, <2>1, LatestCommitAppend DEF IInv, FileTyped
  <1> QED
    BY <1>5, <1>6

-----------------------------------------------------------------------------
(* A whole group at the end of a file without tears is replayed.            *)
LEMMA WrittenIsRecovered ==
  ASSUME IInv, WrittenWhole, pc = "publish", TornAt(file) \subseteq {Len(file)}
  PROVE  Recovered(Commit(cur, latest + 1))
  <1> DEFINE n == Size[cur]
             L == Len(file)
  <1>1. /\ file \in Seq(RecordSet) /\ L \in Nat /\ DOMAIN file = 1..L
        /\ cur \in Txns /\ n \in Nat /\ latest + 1 \in Nat
        /\ IsEncoding(Records, latest + 1, cur, n)
    BY RecordsShape, LenProperties DEF IInv, FileTyped
  <1>2. pos = n + 2 /\ pos <= L /\ \A i \in 1..pos : file[L - pos + i] = Records[i]
    BY <1>1 DEF IInv, WrittenPrefix, WrittenWhole, IsEncoding
  <1> HIDE DEF n, L
  <1>3. Group(file, L) = GroupOf(Commit(cur, latest + 1))
    BY <1>1, <1>2, ClosedGroup DEF L, n
  <1>4. L \in 1..L /\ file[L].type = "TxnCommit"
    <2>1. n + 2 \in 1..pos /\ L - pos + (n + 2) = L /\ L \in 1..L
      BY <1>1, <1>2
    <2>2. file[L] = Records[n + 2]
      BY <1>2, <2>1
    <2> QED
      BY <1>1, <2>1, <2>2 DEF IsEncoding
  <1>5. \A k \in 1..L : file[k].type # "Torn"
    BY <1>1, <1>4 DEF TornAt, L
  <1>6. L \in CommitPoints(file)
    BY <1>1, <1>4, <1>5 DEF CommitPoints, Scanned
  <1> QED
    BY <1>3, <1>6 DEF Recovered

(* If nothing was appended after a tear, then what was replayed before a    *)
(* step is replayed after it.                                               *)
LEMMA AckedKeptByAppend ==
  ASSUME FileTyped, AckedRecovered, KeepsGroups, NEW r \in RecordSet,
         file' = Append(file, r), acked' = acked
  PROVE  AckedRecovered'
  <1>1. SUFFICES ASSUME TornAt(file') \subseteq {Len(file')}, NEW a \in acked
                 PROVE  Recovered(a)'
    BY DEF AckedRecovered
  <1>2. /\ Len(file) \in Nat /\ DOMAIN file = 1..Len(file)
        /\ Len(file') = Len(file) + 1
        /\ DOMAIN file' = 1..(Len(file) + 1)
        /\ \A i \in 1..Len(file) : file'[i] = file[i]
    BY AppendAt DEF FileTyped
  <1>3. TornAt(file) = {}
    <2>1. SUFFICES ASSUME NEW i \in TornAt(file) PROVE FALSE
      OBVIOUS
    <2>2. i \in 1..Len(file) /\ file[i].type = "Torn"
      BY <1>2 DEF TornAt
    <2>3. i \in TornAt(file')
      BY <1>2, <2>2 DEF TornAt
    <2> QED
      BY <1>1, <1>2, <2>2, <2>3
  <1>4. Recovered(a)
    BY <1>3 DEF AckedRecovered
  <1> QED
    BY <1>4 DEF Recovered, KeepsGroups

LEMMA AckedKeptByUnchanged ==
  ASSUME AckedRecovered, UNCHANGED <<file, acked>>
  PROVE  AckedRecovered'
  BY DEF AckedRecovered, Recovered

LEMMA AckedKeptByTail ==
  ASSUME FileTyped, AckedRecovered, KeepsGroups, LeaveTail, acked' = acked
  PROVE  AckedRecovered'
  <1>1. CASE UNCHANGED file
    BY <1>1, AckedKeptByUnchanged
  <1>2. ASSUME NEW m \in Tears, file' = Append(file, Torn(m))
        PROVE  AckedRecovered'
    <2>1. Torn(m) \in RecordSet
      BY CommitLogAssumption DEF Torn, Record, RecordSet, RecordTypes, Bodies, Payloads
    <2> QED
      BY <1>2, <2>1, AckedKeptByAppend
  <1> QED
    BY <1>1, <1>2 DEF LeaveTail

-----------------------------------------------------------------------------
(* Every step of the commit path keeps the invariant.                       *)
LEMMA DurableStep ==
  ASSUME IInv, DInv, Next
  PROVE  DInv'
  <1>0. /\ FileTyped /\ HeadBound /\ HeaderNeverAhead /\ WrittenWhole /\ AckedRecovered
        /\ KeepsGroups
        /\ latest \in Nat /\ header \in Nat /\ LatestCommit(file) \in Nat /\ pos \in Nat
    BY StepKeeps, LatestCommitType DEF IInv, DInv, TypeOK, FileTyped
  <1>1. ASSUME NEW t \in Txns, BeginAppend(t) PROVE DInv'
    <2>1. UNCHANGED <<file, acked, header, latest, up>> /\ pc' = "writing"
      BY <1>1 DEF BeginAppend
    <2> QED
      BY <1>0, <2>1, AckedKeptByUnchanged DEF DInv, HeadBound, HeaderNeverAhead, WrittenWhole
  <1>2. CASE WriteRecord
    <2>1. /\ pc = "writing" /\ pos < Len(Records) /\ file' = Append(file, Records[pos + 1])
          /\ UNCHANGED <<header, up, latest, pc, acked>>
      BY <1>2 DEF WriteRecord
    <2>2. up
      BY <2>1 DEF IInv, WrittenPrefix
    <2>3. LatestCommit(file') \in {LatestCommit(file), latest + 1}
      BY <1>2, WriteLatest
    <2>4. HeadBound' /\ HeaderNeverAhead'
      BY <1>0, <2>1, <2>2, <2>3 DEF HeadBound, HeaderNeverAhead
    <2>5. Records[pos + 1] \in RecordSet
      <3>1. Records \in Seq(RecordSet) /\ Len(Records) \in Nat
        BY <2>1, RecordsShape, LenProperties DEF IInv, IsEncoding
      <3>2. pos + 1 \in 1..Len(Records)
        BY <1>0, <2>1, <3>1
      <3> QED
        BY <3>1, <3>2, ElementOfSeq
    <2>6. AckedRecovered'
      BY <1>0, <2>1, <2>5, AckedKeptByAppend
    <2>7. WrittenWhole'
      BY <2>1 DEF WrittenWhole
    <2> QED
      BY <2>4, <2>6, <2>7 DEF DInv
  <1>3. CASE CloseFile \/ Reread \/ PatchIsLost
    <2>1. /\ UNCHANGED <<file, header, up, latest, cur, pos, acked>>
          /\ pc = "writing" => pos = Len(Records)
          /\ pc \in {"writing", "reread", "patch"}
      BY <1>3 DEF CloseFile, Reread, PatchIsLost
    <2>2. pos = Len(Records) /\ Records' = Records
      BY <1>0, <2>1 DEF WrittenWhole, Records
    <2> QED
      BY <1>0, <2>1, <2>2, AckedKeptByUnchanged
      DEF DInv, HeadBound, HeaderNeverAhead, WrittenWhole
  <1>4. CASE PatchHeader
    <2>1. /\ UNCHANGED <<file, up, latest, cur, pos, acked>>
          /\ pc = "patch" /\ header' = LatestCommit(file)
      BY <1>4 DEF PatchHeader
    <2>2. pos = Len(Records) /\ Records' = Records
      BY <1>0, <2>1 DEF WrittenWhole, Records
    <2> QED
      BY <1>0, <2>1, <2>2, AckedKeptByUnchanged
      DEF DInv, HeadBound, HeaderNeverAhead, WrittenWhole
  <1>5. CASE Publish
    <2>1. /\ pc = "publish" /\ latest' = latest + 1 /\ pc' = "idle"
          /\ acked' = acked \union {Commit(cur, latest + 1)}
          /\ UNCHANGED <<file, header, up>>
      BY <1>5 DEF Publish
    <2>2. HeadBound' /\ HeaderNeverAhead' /\ WrittenWhole'
      BY <1>0, <2>1 DEF HeadBound, HeaderNeverAhead, WrittenWhole
    <2>3. AckedRecovered'
      <3>1. SUFFICES ASSUME TornAt(file) \subseteq {Len(file)}, NEW a \in acked'
                     PROVE  Recovered(a)
        BY <2>1 DEF AckedRecovered, Recovered
      <3>2. CASE a \in acked
        BY <1>0, <3>1, <3>2 DEF AckedRecovered
      <3>3. CASE a = Commit(cur, latest + 1)
        BY <1>0, <2>1, <3>1, <3>3, WrittenIsRecovered
      <3> QED
        BY <2>1, <3>1, <3>2, <3>3
    <2> QED
      BY <2>2, <2>3 DEF DInv
  <1>6. CASE RereadRejects \/ RereadFails \/ PatchFails
    <2>1. UNCHANGED <<file, header, up, latest, acked>> /\ pc' = "idle"
      BY <1>6 DEF RereadRejects, RereadFails, PatchFails, ReportError
    <2> QED
      BY <1>0, <2>1, AckedKeptByUnchanged DEF DInv, HeadBound, HeaderNeverAhead, WrittenWhole
  <1>7. CASE WriteFails
    <2>1. LeaveTail /\ UNCHANGED <<header, up, latest, acked>> /\ pc' = "idle"
      BY <1>7 DEF WriteFails, ReportError
    <2>2. LatestCommit(file') = LatestCommit(file)
      BY <1>0, <2>1, TailKeepsLatest
    <2> QED
      BY <1>0, <2>1, <2>2, AckedKeptByTail DEF DInv, HeadBound, HeaderNeverAhead, WrittenWhole
  <1>8. CASE Crash
    <2>1. /\ LeaveTail \/ UNCHANGED file
          /\ UNCHANGED <<header, acked>> /\ up' = FALSE /\ pc' = "idle"
      BY <1>8 DEF Crash
    <2>2. LatestCommit(file') = LatestCommit(file)
      BY <1>0, <2>1, TailKeepsLatest
    <2> QED
      BY <1>0, <2>1, <2>2, AckedKeptByTail, AckedKeptByUnchanged
      DEF DInv, HeadBound, HeaderNeverAhead, WrittenWhole
  <1>9. CASE Reopen
    <2>1. /\ UNCHANGED <<file, header, acked, pc>> /\ latest' = LatestCommit(file)
          /\ pc = "idle"
      BY <1>9 DEF Reopen, IInv, WrittenPrefix
    <2> QED
      BY <1>0, <2>1, AckedKeptByUnchanged DEF DInv, HeadBound, HeaderNeverAhead, WrittenWhole
  <1> QED
    BY <1>1, <1>2, <1>3, <1>4, <1>5, <1>6, <1>7, <1>8, <1>9 DEF Next

LEMMA DurableInitially == Init => DInv
  <1>1. SUFFICES ASSUME Init PROVE DInv
    OBVIOUS
  <1>2. CommitPoints(file) = {}
    BY <1>1, CommitPointsInDomain DEF Init
  <1>3. LatestCommit(file) = 0
    BY <1>2 DEF LatestCommit
  <1> QED
    BY <1>1, <1>3
    DEF Init, DInv, HeadBound, HeaderNeverAhead, WrittenWhole, AckedRecovered

LEMMA DurableStutter ==
  ASSUME DInv, UNCHANGED vars
  PROVE  DInv'
  BY DEF vars, DInv, HeadBound, HeaderNeverAhead, WrittenWhole, AckedRecovered, Recovered, Records

(* The inductive invariant of what the file promises.                       *)
THEOREM DurabilityInvariant == Spec => [](IInv /\ DInv)
  <1>1. Init => IInv /\ DInv
    BY Initially, DurableInitially
  <1>2. IInv /\ DInv /\ [Next]_vars => (IInv /\ DInv)'
    BY StepInvariant, DurableStep, DurableStutter
  <1> QED
    BY <1>1, <1>2, PTL DEF Spec

-----------------------------------------------------------------------------
(* A file whose only tear is at its end, and whose payloads can be decoded, *)
(* is accepted by read_store.                                               *)
LEMMA UntornIsReadable ==
  ASSUME IInv, TornAt(file) \subseteq {Len(file)},
         \A i \in DOMAIN file : file[i].type = "Version" => Decodable(file[i].body)
  PROVE  Readable(file)
  <1>1. /\ file \in Seq(RecordSet) /\ Len(file) \in Nat /\ DOMAIN file = 1..Len(file)
        /\ \A i \in DOMAIN file : file[i].type \in RecordTypes /\ file[i].missing \in Nat
    BY LenProperties DEF IInv, FileTyped, TypeOK, RecordTypes
  <1>2. \A i \in ScanStop(file) : StopIsFormatError(file, i)
    <2>1. SUFFICES ASSUME NEW i \in ScanStop(file) PROVE StopIsFormatError(file, i)
      OBVIOUS
    <2>2. i \in DOMAIN file /\ i = Len(file)
      BY DEF ScanStop, TornAt
    <2>3. Len(file) - i = 0 /\ file[i].missing \in Nat
      BY <1>1, <2>2
    <2> QED
      BY <2>3 DEF StopIsFormatError
  <1>3. \A i \in Scanned(file) : ~OutsideGroup(file, i)
    <2>1. SUFFICES ASSUME NEW i \in Scanned(file), OutsideGroup(file, i) PROVE FALSE
      OBVIOUS
    <2>2. i \in 1..Len(file) /\ file[i].type \in RecordTypes /\ file[i].type # "Torn"
      BY <1>1 DEF Scanned
    <2>3. file[i].type \in {"Version", "TxnCommit"}
      BY <2>1, <2>2 DEF OutsideGroup, RecordTypes
    <2>4. i > 1 /\ file[i - 1].type # "TxnCommit"
      BY <1>1, <2>2, <2>3 DEF IInv, NothingOutside
    <2> QED
      BY <2>1, <2>2, <2>4 DEF OutsideGroup
  <1>4. \A j \in CommitPoints(file) : GroupIsSound(file, j)
    <2>1. SUFFICES ASSUME NEW j \in CommitPoints(file) PROVE GroupIsSound(file, j)
      OBVIOUS
    <2> DEFINE b == GroupStart(file, j)
    <2>2. /\ b \in 1..j
          /\ file[j].body[1] = j - b + 1
          /\ file[j].body[2] = <<file[b].body>> \o GroupBodies(file, j)
          /\ \A i \in (b + 1)..(j - 1) : file[i].type = "Version"
      BY DEF IInv, GroupsGood, WellFormedGroup
    <2>3. j \in 1..Len(file)
      BY <1>1, CommitPointsInDomain
    <2>4. \A i \in (b + 1)..(j - 1) : i \in DOMAIN file
      <3> HIDE DEF b
      <3> QED
        BY <1>1, <2>2, <2>3
    <2>5. \A i \in (b + 1)..(j - 1) : Decodable(file[i].body)
      BY <2>2, <2>4
    <2> QED
      BY <2>2, <2>5 DEF GroupIsSound
  <1> QED
    BY <1>2, <1>3, <1>4 DEF Readable

(* The superblock never names a commit the scan does not reach, although it *)
(* is patched after the append and the patch can fail or get lost.          *)
THEOREM SuperblockNotAhead == Spec => []HeaderNeverAhead
  <1>1. DInv => HeaderNeverAhead
    BY DEF DInv
  <1> QED
    BY <1>1, DurabilityInvariant, PTL

(* Until a record is appended after a torn one, or contents are written     *)
(* that cannot be decoded, every commit reported as successful is replayed. *)
THEOREM AckedAreDurable == Spec => []AckedSurviveUntilTear
  <1>1. IInv /\ DInv => AckedSurviveUntilTear
    BY UntornIsReadable DEF DInv, AckedRecovered, AckedSurviveUntilTear
  <1> QED
    BY <1>1, DurabilityInvariant, PTL

-----------------------------------------------------------------------------
(***************************************************************************)
(* When nothing fails once a group is complete and no record is torn, the  *)
(* memory of the open store is what a reopen would rebuild, a failed       *)
(* commit leaves nothing, and the file is the atomic log.  The hypothesis  *)
(* is what commitlog_torn_tail and commitlog_failed_commit show to be      *)
(* needed.                                                                 *)
(***************************************************************************)
\* Process crashes, and write errors that leave whole records.
OnlyCleanFailures ==
  /\ Faults \subseteq {"crash", "write"}
  /\ Tears = {}
  /\ Undecodable = {}

\* A group tells whose it is: of the empty one, only its number is in the file.
ContentsDiffer == \A s, t \in Txns : Size[s] = 0 /\ Size[t] = 0 => s = t

\* Of any file: how many groups a scan replays, whether they are numbered
\* 1, 2, 3..., and whether the one of the commit a is there.
GroupsIn(f) == Cardinality(CommitPoints(f))

Numbered(f) ==
  /\ \A c \in 1..GroupsIn(f) : \E j \in CommitPoints(f) : f[j].commit = c
  /\ \A j \in CommitPoints(f) : f[j].commit \in 1..GroupsIn(f)
  /\ \A j, k \in CommitPoints(f) : j < k => f[j].commit < f[k].commit

Has(f, a) == \E j \in CommitPoints(f) : Group(f, j) = GroupOf(a)

\* The transaction inside commit() is in the file, and not yet published.
Ahead == pc # "idle" /\ pos = Len(Records)

(* The strengthening.  The head is the number of groups, or one behind, and *)
(* the version maps have the groups up to the head.                         *)
InvMemory ==
  up => /\ latest = (IF Ahead THEN GroupsIn(file) - 1 ELSE GroupsIn(file))
        /\ \A a \in [commit : Nat, txn : Txns] :
             a \in known <=> Has(file, a) /\ a.commit <= latest

\* A group in the file is of a closed transaction, or of the one ahead.
InvAuthors ==
  /\ \A t \in Txns, c \in Nat : Has(file, Commit(t, c)) =>
       /\ t \in closed \/ (Ahead /\ t = cur)
       /\ t \notin failed
  /\ pc # "idle" => cur \notin closed \union failed

AInv ==
  /\ TornAt(file) = {}
  /\ Numbered(file)
  /\ InvMemory
  /\ InvAuthors

-----------------------------------------------------------------------------
(* The number of groups is a natural number.                                *)
LEMMA PointsFinite ==
  ASSUME NEW f \in Seq(RecordSet)
  PROVE  /\ IsFiniteSet(CommitPoints(f)) /\ GroupsIn(f) \in Nat
         /\ CommitPoints(f) \in SUBSET (1..Len(f)) /\ GroupsIn(f) <= Len(f)
  <1>1. Len(f) \in Nat /\ CommitPoints(f) \in SUBSET (1..Len(f))
    BY LenProperties, CommitPointsInDomain
  <1>2. IsFiniteSet(1..Len(f)) /\ Cardinality(1..Len(f)) = Len(f)
    <2>1. Len(f) \in Int /\ 1 \in Int
      BY <1>1
    <2>2. /\ IsFiniteSet(1..Len(f))
          /\ Cardinality(1..Len(f)) = IF 1 > Len(f) THEN 0 ELSE Len(f) - 1 + 1
      BY <2>1, FS_Interval
    <2> QED
      BY <1>1, <2>2
  <1>3. IsFiniteSet(CommitPoints(f)) /\ Cardinality(CommitPoints(f)) <= Len(f)
    BY <1>1, <1>2, FS_Subset
  <1> QED
    BY <1>1, <1>3, FS_CardinalityType DEF GroupsIn

(* When groups are numbered, the last one has the number of groups.         *)
LEMMA LatestIsCount ==
  ASSUME NEW f \in Seq(RecordSet), Numbered(f)
  PROVE  LatestCommit(f) = GroupsIn(f)
  <1>1. /\ IsFiniteSet(CommitPoints(f)) /\ GroupsIn(f) \in Nat
        /\ CommitPoints(f) \in SUBSET (1..Len(f))
    BY PointsFinite
  <1>2. CASE CommitPoints(f) = {} /\ LatestCommit(f) = 0
    BY <1>2, FS_EmptySet DEF GroupsIn
  <1>3. ASSUME NEW m \in CommitPoints(f), \A k \in CommitPoints(f) : k <= m,
               LatestCommit(f) = f[m].commit
        PROVE  LatestCommit(f) = GroupsIn(f)
    <2>1. f[m].commit \in 1..GroupsIn(f)
      BY DEF Numbered
    <2>2. PICK j \in CommitPoints(f) : f[j].commit = GroupsIn(f)
      BY <1>1, <2>1 DEF Numbered
    <2>3. j \in Nat /\ m \in Nat /\ j <= m
      BY <1>1, <1>3
    <2>4. j < m => f[j].commit < f[m].commit
      BY DEF Numbered
    <2> QED
      BY <1>1, <1>3, <2>1, <2>2, <2>3, <2>4
  <1> QED
    BY <1>2, <1>3, LatestCommitIs

(* A group tells its number and its transaction.                            *)
LEMMA GroupTells ==
  ASSUME ContentsDiffer, NEW s \in Txns, NEW t \in Txns, NEW c \in Nat, NEW d \in Nat,
         GroupOf(Commit(s, c)) = GroupOf(Commit(t, d))
  PROVE  s = t /\ c = d
  <1>1. /\ GroupOf(Commit(s, c)).commit = c /\ GroupOf(Commit(t, d)).commit = d
        /\ GroupOf(Commit(s, c)).bodies = [i \in 1..Size[s] |-> Change(s, i)]
        /\ GroupOf(Commit(t, d)).bodies = [i \in 1..Size[t] |-> Change(t, i)]
    BY DEF GroupOf, Commit
  <1>2. Size[s] \in Nat /\ Size[t] \in Nat
    BY CommitLogAssumption
  <1>3. [i \in 1..Size[s] |-> Change(s, i)] = [i \in 1..Size[t] |-> Change(t, i)]
    BY <1>1
  <1>4. 1..Size[s] = 1..Size[t]
    BY <1>3
  <1>5. CASE Size[s] = 0
    <2>1. Size[t] = 0
      BY <1>2, <1>4, <1>5
    <2> QED
      BY <1>1, <1>5, <2>1 DEF ContentsDiffer
  <1>6. CASE Size[s] # 0
    <2>1. 1 \in 1..Size[s] /\ 1 \in 1..Size[t]
      BY <1>2, <1>4, <1>6
    <2>2. Change(s, 1) = Change(t, 1)
      BY <1>3, <2>1
    <2> QED
      BY <1>1, <2>2 DEF Change
  <1> QED
    BY <1>5, <1>6

(* A file that is not torn is accepted by read_store.                       *)
LEMMA CleanIsReadable ==
  ASSUME OnlyCleanFailures, IInv, TornAt(file) = {}
  PROVE  Readable(file)
  BY UntornIsReadable DEF OnlyCleanFailures, Decodable

-----------------------------------------------------------------------------
\* What a step that adds no group leaves of the file, and what the step that
\* adds the group of the transaction inside commit() does.
SameGroups ==
  /\ TornAt(file') = TornAt(file)
  /\ CommitPoints(file') = CommitPoints(file)
  /\ \A j \in CommitPoints(file) : Group(file', j) = Group(file, j)

AddsGroup ==
  /\ TornAt(file') = TornAt(file)
  /\ CommitPoints(file') = CommitPoints(file) \union {Len(file) + 1}
  /\ \A j \in CommitPoints(file) : Group(file', j) = Group(file, j)
  /\ Group(file', Len(file) + 1) = GroupOf(Commit(cur, latest + 1))

(* Without a new group nothing that is read changes.                        *)
LEMMA SameKeeps ==
  ASSUME SameGroups
  PROVE  /\ GroupsIn(file') = GroupsIn(file)
         /\ Numbered(file) => Numbered(file')
         /\ \A a : Has(file', a) <=> Has(file, a)
  <1>1. \A j \in CommitPoints(file) : file'[j].commit = file[j].commit
    BY DEF SameGroups, Group
  <1>2. GroupsIn(file') = GroupsIn(file)
    BY DEF SameGroups, GroupsIn
  <1> QED
    BY <1>1, <1>2 DEF SameGroups, Numbered, Has

(* The new group has the next number.                                       *)
LEMMA AddKeeps ==
  ASSUME file \in Seq(RecordSet), AddsGroup, Numbered(file),
         latest = GroupsIn(file), cur \in Txns
  PROVE  /\ GroupsIn(file') = GroupsIn(file) + 1
         /\ Numbered(file')
         /\ \A a : Has(file', a) <=> Has(file, a) \/ GroupOf(a) = GroupOf(Commit(cur, latest + 1))
  <1> DEFINE L == Len(file)
             P == CommitPoints(file)
  <1>1. /\ IsFiniteSet(P) /\ GroupsIn(file) \in Nat /\ P \in SUBSET (1..L) /\ L \in Nat
    BY PointsFinite, LenProperties
  <1>2. L + 1 \notin P
    BY <1>1
  <1>3. GroupsIn(file') = GroupsIn(file) + 1
    BY <1>1, <1>2, FS_AddElement DEF AddsGroup, GroupsIn
  <1>4. /\ \A j \in P : file'[j].commit = file[j].commit
        /\ file'[L + 1].commit = latest + 1
    BY DEF AddsGroup, Group, GroupOf, Commit
  <1>5. CommitPoints(file') = P \union {L + 1}
    BY DEF AddsGroup
  <1>6. \A a : Has(file', a) <=> Has(file, a) \/ GroupOf(a) = GroupOf(Commit(cur, latest + 1))
    BY DEF AddsGroup, Has
  <1> DEFINE n == GroupsIn(file)
  <1>7. /\ \A c \in 1..n : \E j \in P : file[j].commit = c
        /\ \A j \in P : file[j].commit \in 1..n
        /\ \A j, k \in P : j < k => file[j].commit < file[k].commit
    BY DEF Numbered
  <1>8. GroupsIn(file') = n + 1 /\ latest = n /\ n \in Nat
    BY <1>1, <1>3
  <1> HIDE DEF L, P, n
  <1>9. \A c \in 1..(n + 1) : \E j \in CommitPoints(file') : file'[j].commit = c
    <2>1. SUFFICES ASSUME NEW c \in 1..(n + 1)
                   PROVE  \E j \in CommitPoints(file') : file'[j].commit = c
      OBVIOUS
    <2>2. CASE c = n + 1
      BY <1>4, <1>5, <1>8, <2>2
    <2>3. CASE c # n + 1
      <3>1. c \in 1..n
        BY <1>8, <2>3
      <3> QED
        BY <1>4, <1>5, <1>7, <3>1
    <2> QED
      BY <2>2, <2>3
  <1>10. \A j \in CommitPoints(file') : file'[j].commit \in 1..(n + 1)
    BY <1>4, <1>5, <1>7, <1>8
  <1>11. \A j, k \in CommitPoints(file') : j < k => file'[j].commit < file'[k].commit
    <2>1. SUFFICES ASSUME NEW j \in CommitPoints(file'), NEW k \in CommitPoints(file'), j < k
                   PROVE  file'[j].commit < file'[k].commit
      OBVIOUS
    <2>2. j \in P
      <3>1. j # L + 1
        <4>1. k \in P \/ k = L + 1
          BY <1>5
        <4>2. CASE k \in P
          <5>1. k \in 1..L
            BY <1>1, <4>2
          <5> QED
            BY <1>1, <2>1, <5>1
        <4>3. CASE k = L + 1
          BY <1>1, <2>1, <4>3
        <4> QED
          BY <4>1, <4>2, <4>3
      <3> QED
        BY <1>5, <3>1
    <2>3. CASE k \in P
      BY <1>4, <1>7, <2>1, <2>2, <2>3
    <2>4. CASE k = L + 1
      BY <1>4, <1>7, <1>8, <2>2, <2>4
    <2> QED
      BY <1>5, <2>3, <2>4
  <1> QED
    BY <1>3, <1>6, <1>8, <1>9, <1>10, <1>11 DEF Numbered

(* Writing a record of a group adds a group exactly if it is the last one.  *)
LEMMA WriteGroups ==
  ASSUME IInv, TornAt(file) = {}, WriteRecord
  PROVE  /\ Records' = Records
         /\ IF pos' = Len(Records) THEN AddsGroup ELSE SameGroups
  <1> DEFINE n == Size[cur]
             r == Records[pos + 1]
             L == Len(file)
  <1>1. /\ pc = "writing" /\ pos < Len(Records) /\ file' = Append(file, r)
        /\ pos' = pos + 1 /\ pos \in Nat
        /\ UNCHANGED <<pc, cur, latest>>
    BY DEF WriteRecord, IInv, TypeOK
  <1>2. /\ cur \in Txns /\ n \in Nat /\ latest + 1 \in Nat
        /\ IsEncoding(Records, latest + 1, cur, n)
    BY <1>1, RecordsShape DEF IInv
  <1>3. Records' = Records
    BY <1>1 DEF Records
  <1>4. Records \in Seq(RecordSet) /\ Len(Records) = n + 2 /\ pos + 1 \in 1..(n + 2)
    BY <1>1, <1>2 DEF IsEncoding
  <1>5. r \in RecordSet
    BY <1>4, ElementOfSeq
  <1>6. KeepsGroups /\ WrittenPrefix' /\ FileTyped'
    BY WriteKeepsFile
  <1>7. IF pos + 1 = n + 2 THEN r.type = "TxnCommit" ELSE r.type \in {"TxnBegin", "Version"}
    <2>1. CASE pos + 1 = n + 2
      BY <1>2, <2>1 DEF IsEncoding
    <2>2. CASE pos = 0
      BY <1>2, <2>2 DEF IsEncoding
    <2>3. CASE pos # 0 /\ pos + 1 # n + 2
      <3>1. pos \in 1..n
        BY <1>1, <1>2, <1>4, <2>3
      <3>2. r = Record("Version", latest + 1, Change(cur, pos), 0)
        BY <1>2, <3>1 DEF IsEncoding
      <3> QED
        BY <2>3, <3>2, RecordFields
    <2> QED
      BY <1>2, <2>1, <2>2, <2>3
  <1> HIDE DEF n, r
  <1>8. /\ file \in Seq(RecordSet) /\ L \in Nat /\ DOMAIN file = 1..L
        /\ file' \in Seq(RecordSet) /\ Len(file') = L + 1
        /\ DOMAIN file' = 1..(L + 1)
        /\ \A i \in 1..L : file'[i] = file[i]
        /\ file'[L + 1] = r
    BY <1>1, <1>5, AppendAt DEF FileTyped, IInv
  <1> HIDE DEF L
  <1>9. TornAt(file') = {}
    <2>1. SUFFICES ASSUME NEW i \in 1..(L + 1), file'[i].type = "Torn" PROVE FALSE
      BY <1>8 DEF TornAt
    <2>2. i \in 1..L
      BY <1>7, <1>8, <2>1
    <2> QED
      BY <1>8, <2>1, <2>2 DEF TornAt
  <1>10. \A i \in 1..L : i \in CommitPoints(file') <=> i \in CommitPoints(file)
    BY <1>1, <1>5, <1>8, ScanKeepsPrefix DEF L
  <1>11. /\ CommitPoints(file) \subseteq 1..L /\ CommitPoints(file') \subseteq 1..(L + 1)
    BY <1>8, CommitPointsInDomain
  <1>12. L + 1 \in CommitPoints(file') <=> r.type = "TxnCommit"
    <2>1. L + 1 \in 1..(L + 1)
      BY <1>8
    <2>2. L + 1 \in Scanned(file')
      BY <1>8, <1>9, <2>1 DEF Scanned, TornAt
    <2> QED
      BY <1>8, <2>2 DEF CommitPoints
  <1>13. \A j \in CommitPoints(file) : Group(file', j) = Group(file, j)
    BY <1>6 DEF KeepsGroups
  <1>14. CASE pos + 1 = n + 2
    <2>1. CommitPoints(file') = CommitPoints(file) \union {L + 1}
      BY <1>7, <1>8, <1>10, <1>11, <1>12, <1>14
    <2>2. Group(file', L + 1) = GroupOf(Commit(cur, latest + 1))
      <3>1. /\ n + 2 <= Len(file')
            /\ \A i \in 1..(n + 2) : file'[Len(file') - (n + 2) + i] = Records[i]
        BY <1>1, <1>3, <1>6, <1>14 DEF WrittenPrefix
      <3>2. Group(file', Len(file')) = GroupOf(Commit(cur, latest + 1))
        BY <1>2, <1>8, <3>1, ClosedGroup DEF n
      <3> QED
        BY <1>8, <3>2
    <2>3. AddsGroup
      BY <1>9, <1>13, <2>1, <2>2 DEF AddsGroup, L
    <2> QED
      BY <1>1, <1>3, <1>4, <1>14, <2>3
  <1>15. CASE pos + 1 # n + 2
    <2>1. CommitPoints(file') = CommitPoints(file)
      <3>1. L + 1 \notin CommitPoints(file')
        BY <1>7, <1>12, <1>15
      <3>2. \A i \in 1..(L + 1) : i \in 1..L \/ i = L + 1
        BY <1>8
      <3>3. CommitPoints(file') \subseteq 1..L
        BY <1>11, <3>1, <3>2
      <3> QED
        BY <1>10, <1>11, <3>3
    <2>2. SameGroups
      BY <1>9, <1>13, <2>1 DEF SameGroups
    <2> QED
      BY <1>1, <1>3, <1>4, <1>15, <2>2
  <1> QED
    BY <1>14, <1>15

-----------------------------------------------------------------------------
(* The invariant is kept by every step.                                     *)
LEMMA UnchangedSame ==
  ASSUME file' = file
  PROVE  SameGroups
  BY DEF SameGroups

LEMMA NoTails ==
  ASSUME OnlyCleanFailures, LeaveTail
  PROVE  file' = file
  BY DEF OnlyCleanFailures, LeaveTail

LEMMA BeginKeeps ==
  ASSUME IInv, AInv, NEW t \in Txns, BeginAppend(t)
  PROVE  AInv'
  <1>1. /\ pc = "idle" /\ t \notin closed
        /\ pc' = "writing" /\ cur' = t /\ pos' = 0 /\ failed' = failed \ {t}
        /\ UNCHANGED <<file, up, latest, known, closed>>
    BY DEF BeginAppend
  <1>2. ~Ahead'
    <2>1. Records' = EncodeTransaction(latest, latest + 1, t, Size[t])
      BY <1>1 DEF Records
    <2>2. latest \in Nat /\ latest + 1 \in Nat /\ Size[t] \in Nat
      BY CommitLogAssumption DEF IInv, TypeOK
    <2>3. Len(Records') = Size[t] + 2
      <3>1. IsEncoding(EncodeTransaction(latest, latest + 1, t, Size[t]), latest + 1, t, Size[t])
        BY <2>2, EncodedShape
      <3> QED
        BY <2>1, <3>1 DEF IsEncoding
    <2> QED
      BY <1>1, <2>2, <2>3 DEF Ahead
  <1>3. ~Ahead
    BY <1>1 DEF Ahead
  <1>4. InvMemory'
    BY <1>1, <1>2, <1>3 DEF AInv, InvMemory
  <1>5. InvAuthors'
    BY <1>1, <1>2, <1>3 DEF AInv, InvAuthors
  <1> QED
    BY <1>1, <1>4, <1>5 DEF AInv

LEMMA WriteKeeps ==
  ASSUME ContentsDiffer, IInv, AInv, WriteRecord
  PROVE  AInv'
  <1>1. /\ pc = "writing" /\ pos < Len(Records) /\ pos \in Nat /\ pos' = pos + 1 /\ up
        /\ cur \in Txns /\ file \in Seq(RecordSet) /\ latest \in Nat /\ latest + 1 \in Nat
        /\ UNCHANGED <<up, latest, known, closed, pc, cur, failed>>
    BY RecordsShape DEF WriteRecord, IInv, TypeOK, FileTyped, WrittenPrefix
  <1>2. Records' = Records
    BY WriteGroups DEF AInv
  <1>3. ~Ahead /\ latest = GroupsIn(file)
    BY <1>1 DEF Ahead, AInv, InvMemory
  <1>4. CASE pos' = Len(Records)
    <2>1. AddsGroup /\ Ahead'
      BY <1>1, <1>2, <1>4, WriteGroups DEF AInv, Ahead
    <2>2. /\ GroupsIn(file') = GroupsIn(file) + 1
          /\ Numbered(file')
          /\ \A a : Has(file', a) <=> Has(file, a) \/ GroupOf(a) = GroupOf(Commit(cur, latest + 1))
      BY <1>1, <1>3, <2>1, AddKeeps DEF AInv
    <2>3. InvMemory'
      <3>1. \A a \in [commit : Nat, txn : Txns] :
              GroupOf(a) = GroupOf(Commit(cur, latest + 1)) => a.commit = latest + 1
        BY DEF GroupOf, Commit
      <3>2. \A a \in [commit : Nat, txn : Txns] :
              a \in known <=> Has(file', a) /\ a.commit <= latest
        BY <1>1, <2>2, <3>1 DEF AInv, InvMemory
      <3>3. latest = GroupsIn(file') - 1
        BY <1>1, <1>3, <2>2
      <3> QED
        BY <1>1, <2>1, <3>2, <3>3 DEF InvMemory
    <2>4. InvAuthors'
      <3>1. SUFFICES ASSUME NEW t \in Txns, NEW c \in Nat, Has(file', Commit(t, c))
                     PROVE  (t \in closed \/ t = cur) /\ t \notin failed
        BY <1>1, <2>1 DEF InvAuthors, AInv
      <3>2. CASE Has(file, Commit(t, c))
        BY <1>3, <3>2 DEF AInv, InvAuthors
      <3>3. CASE GroupOf(Commit(t, c)) = GroupOf(Commit(cur, latest + 1))
        <4>1. t = cur
          BY <1>1, <3>3, GroupTells
        <4> QED
          BY <1>1, <4>1 DEF AInv, InvAuthors
      <3> QED
        BY <2>2, <3>1, <3>2, <3>3
    <2> QED
      BY <2>1, <2>2, <2>3, <2>4 DEF AInv, AddsGroup
  <1>5. CASE pos' # Len(Records)
    <2>1. SameGroups /\ ~Ahead'
      BY <1>1, <1>2, <1>5, WriteGroups DEF AInv, Ahead
    <2>2. /\ GroupsIn(file') = GroupsIn(file) /\ Numbered(file')
          /\ \A a : Has(file', a) <=> Has(file, a)
      BY <2>1, SameKeeps DEF AInv
    <2>3. InvMemory' /\ InvAuthors'
      BY <1>1, <1>3, <2>1, <2>2 DEF AInv, InvMemory, InvAuthors
    <2> QED
      BY <2>1, <2>2, <2>3 DEF AInv, SameGroups
  <1> QED
    BY <1>4, <1>5

(* Inside commit(), after the group is complete.                            *)
LEMMA InsideKeeps ==
  ASSUME AInv, CloseFile \/ Reread \/ PatchHeader
  PROVE  AInv'
  <1>1. /\ pc # "idle" /\ pc' # "idle"
        /\ UNCHANGED <<file, up, latest, known, closed, cur, pos, failed>>
    BY DEF CloseFile, Reread, PatchHeader
  <1>2. Ahead' <=> Ahead
    BY <1>1 DEF Ahead, Records
  <1> QED
    BY <1>1, <1>2 DEF AInv, InvMemory, InvAuthors

LEMMA PublishKeeps ==
  ASSUME ContentsDiffer, IInv, DInv, AInv, Publish
  PROVE  AInv'
  <1> DEFINE new == Commit(cur, latest + 1)
  <1>1. /\ pc = "publish" /\ latest' = latest + 1 /\ known' = known \union {new}
        /\ closed' = closed \union {cur} /\ pc' = "idle"
        /\ UNCHANGED <<file, up, failed>>
        /\ up /\ cur \in Txns /\ latest \in Nat /\ latest + 1 \in Nat
        /\ file \in Seq(RecordSet)
    BY RecordsShape DEF Publish, IInv, TypeOK, FileTyped, WrittenPrefix
  <1>2. Ahead /\ ~Ahead'
    BY <1>1 DEF Ahead, DInv, WrittenWhole
  <1>3. Has(file, new)
    <2>1. TornAt(file) \subseteq {Len(file)} /\ WrittenWhole
      BY DEF AInv, DInv
    <2>2. Recovered(new)
      BY <1>1, <2>1, WrittenIsRecovered
    <2> QED
      BY <2>2 DEF Recovered, Has
  <1>4. new \in [commit : Nat, txn : Txns] /\ new.commit = latest + 1 /\ new.txn = cur
    BY <1>1 DEF Commit
  <1> HIDE DEF new
  <1>5. ASSUME NEW a \in [commit : Nat, txn : Txns], Has(file, a), a.commit = latest + 1
        PROVE  a = new
    <2>1. PICK j \in CommitPoints(file) : Group(file, j) = GroupOf(a)
      BY <1>5 DEF Has
    <2>2. PICK k \in CommitPoints(file) : Group(file, k) = GroupOf(new)
      BY <1>3 DEF Has
    <2>3. file[j].commit = latest + 1 /\ file[k].commit = latest + 1
      BY <1>4, <1>5, <2>1, <2>2 DEF Group, GroupOf
    <2>4. j \in Nat /\ k \in Nat /\ ~(j < k) /\ ~(k < j)
      <3>1. j \in 1..Len(file) /\ k \in 1..Len(file) /\ Len(file) \in Nat
        BY <1>1, PointsFinite, LenProperties
      <3> QED
        BY <1>1, <2>3, <3>1 DEF AInv, Numbered
    <2>5. j = k
      BY <2>4
    <2>6. a = Commit(a.txn, latest + 1) /\ new = Commit(cur, latest + 1)
      BY <1>5 DEF Commit, new
    <2>7. GroupOf(Commit(a.txn, latest + 1)) = GroupOf(Commit(cur, latest + 1))
      BY <2>1, <2>2, <2>5, <2>6
    <2>8. a.txn = cur
      BY <1>1, <2>7, GroupTells
    <2> QED
      BY <2>6, <2>8
  <1>6. InvMemory'
    <2>1. latest + 1 = GroupsIn(file)
      BY <1>1, <1>2, PointsFinite DEF AInv, InvMemory
    <2>2. \A a \in [commit : Nat, txn : Txns] :
            a \in known <=> Has(file, a) /\ a.commit <= latest
      BY <1>1 DEF AInv, InvMemory
    <2>3. ASSUME NEW a \in [commit : Nat, txn : Txns]
          PROVE  a \in known' <=> Has(file, a) /\ a.commit <= latest + 1
      <3>1. a.commit \in Nat /\ (a.commit <= latest + 1 <=> a.commit <= latest \/ a.commit = latest + 1)
        BY <1>1
      <3> QED
        BY <1>1, <1>3, <1>4, <1>5, <2>2, <3>1
    <2> QED
      BY <1>1, <1>2, <2>1, <2>3 DEF InvMemory
  <1>7. InvAuthors'
    BY <1>1 DEF AInv, InvAuthors
  <1> QED
    BY <1>1, <1>6, <1>7 DEF AInv

(* A write that fails before the group is complete leaves no group.         *)
LEMMA FailKeeps ==
  ASSUME OnlyCleanFailures, AInv, WriteFails
  PROVE  AInv'
  <1>1. /\ pc = "writing" /\ pos < Len(Records) /\ failed' = failed \union {cur} /\ pc' = "idle"
        /\ UNCHANGED <<up, latest, known, closed>>
        /\ file' = file
    BY NoTails DEF WriteFails, ReportError
  <1>2. ~Ahead /\ ~Ahead'
    BY <1>1 DEF Ahead
  <1>3. InvMemory'
    BY <1>1, <1>2 DEF AInv, InvMemory
  <1>4. InvAuthors'
    BY <1>1, <1>2 DEF AInv, InvAuthors
  <1> QED
    BY <1>1, <1>3, <1>4 DEF AInv

LEMMA CrashKeeps ==
  ASSUME OnlyCleanFailures, AInv, Crash
  PROVE  AInv'
  <1>1. /\ file' = file /\ up' = FALSE /\ pc' = "idle" /\ failed' = failed
        /\ closed' = closed \union failed \union ({cur} \ {NoTxn})
    BY NoTails DEF Crash
  <1>2. \A t \in Txns : t # NoTxn
    BY CommitLogAssumption
  <1>3. InvMemory'
    BY <1>1 DEF InvMemory
  <1>4. InvAuthors'
    BY <1>1, <1>2 DEF AInv, InvAuthors
  <1> QED
    BY <1>1, <1>3, <1>4 DEF AInv

(* A reopen rebuilds the head and the version maps from the file.           *)
LEMMA ReopenKeeps ==
  ASSUME IInv, AInv, Reopen
  PROVE  AInv'
  <1>1. /\ ~up /\ pc = "idle" /\ up' /\ latest' = LatestCommit(file)
        /\ known' = {a \in [commit : 1..Len(file), txn : Txns] : Has(file, a)}
        /\ UNCHANGED <<file, closed, pc, cur, pos, failed>>
        /\ file \in Seq(RecordSet) /\ Len(file) \in Nat
    BY LenProperties DEF Reopen, Has, IInv, WrittenPrefix, FileTyped
  <1>2. /\ latest' = GroupsIn(file) /\ GroupsIn(file) \in Nat /\ GroupsIn(file) <= Len(file)
    BY <1>1, LatestIsCount, PointsFinite DEF AInv
  <1>3. ~Ahead /\ ~Ahead'
    BY <1>1 DEF Ahead
  <1>4. ASSUME NEW a \in [commit : Nat, txn : Txns], Has(file, a)
        PROVE  a.commit <= GroupsIn(file) /\ a \in [commit : 1..Len(file), txn : Txns]
    <2>1. PICK j \in CommitPoints(file) : Group(file, j) = GroupOf(a)
      BY <1>4 DEF Has
    <2>2. a.commit = file[j].commit
      BY <2>1 DEF Group, GroupOf
    <2>3. a.commit \in 1..GroupsIn(file)
      BY <2>2 DEF AInv, Numbered
    <2>4. a.commit \in 1..Len(file) /\ a.commit <= GroupsIn(file)
      BY <1>1, <1>2, <2>3
    <2> QED
      BY <1>4, <2>4
  <1>5. InvMemory'
    <2>1. ASSUME NEW a \in [commit : Nat, txn : Txns]
          PROVE  a \in known' <=> Has(file, a) /\ a.commit <= GroupsIn(file)
      BY <1>1, <1>4
    <2> QED
      BY <1>1, <1>2, <1>3, <2>1 DEF InvMemory
  <1>6. InvAuthors'
    BY <1>1, <1>3 DEF AInv, InvAuthors
  <1> QED
    BY <1>1, <1>5, <1>6 DEF AInv

LEMMA AtomicStep ==
  ASSUME OnlyCleanFailures, ContentsDiffer, IInv, DInv, AInv, [Next]_vars
  PROVE  AInv'
  <1>1. ASSUME NEW t \in Txns, BeginAppend(t) PROVE AInv'
    BY <1>1, BeginKeeps
  <1>2. CASE WriteRecord \/ CloseFile \/ Reread \/ PatchHeader
    BY <1>2, WriteKeeps, InsideKeeps
  <1>3. CASE Publish \/ WriteFails \/ Crash \/ Reopen
    BY <1>3, PublishKeeps, FailKeeps, CrashKeeps, ReopenKeeps
  <1>4. ~RereadRejects
    BY CleanIsReadable DEF RereadRejects, AInv
  <1>5. ~(RereadFails \/ PatchFails \/ PatchIsLost)
    BY DEF RereadFails, PatchFails, PatchIsLost, Fault, OnlyCleanFailures
  <1>6. CASE UNCHANGED vars
    <2>1. UNCHANGED <<file, up, latest, known, closed, pc, cur, pos, failed>>
      BY <1>6 DEF vars
    <2>2. Ahead' <=> Ahead
      BY <2>1 DEF Ahead, Records
    <2> QED
      BY <2>1, <2>2 DEF AInv, InvMemory, InvAuthors
  <1> QED
    BY <1>1, <1>2, <1>3, <1>4, <1>5, <1>6 DEF Next

LEMMA AtomicInitially ==
  ASSUME Init
  PROVE  AInv
  <1>1. CommitPoints(file) = {} /\ TornAt(file) = {} /\ pc = "idle"
    BY CommitPointsInDomain DEF Init, TornAt
  <1>2. GroupsIn(file) = 0
    BY <1>1, FS_EmptySet DEF GroupsIn
  <1>3. Numbered(file)
    BY <1>1, <1>2 DEF Numbered
  <1>4. \A a : ~Has(file, a)
    BY <1>1 DEF Has
  <1> QED
    BY <1>1, <1>2, <1>3, <1>4 DEF Init, AInv, InvMemory, InvAuthors, Ahead

(* The inductive invariant of the commit path when failures are clean.      *)
THEOREM AtomicInvariant ==
  ASSUME OnlyCleanFailures, ContentsDiffer
  PROVE  Spec => [](IInv /\ DInv /\ AInv)
  <1>1. Init => IInv /\ DInv /\ AInv
    BY Initially, DurableInitially, AtomicInitially
  <1>2. IInv /\ DInv /\ AInv /\ [Next]_vars => (IInv /\ DInv /\ AInv)'
    BY StepInvariant, DurableStep, DurableStutter, AtomicStep
  <1> QED
    BY <1>1, <1>2, PTL DEF Spec

(* Between commits the head and the version maps are what a reopen would    *)
(* rebuild from the file.                                                   *)
THEOREM MemoryIsDurable ==
  ASSUME OnlyCleanFailures, ContentsDiffer
  PROVE  Spec => []LiveEqualsDurable
  <1>1. ASSUME IInv, AInv PROVE LiveEqualsDurable
    <2>1. SUFFICES ASSUME up, pc = "idle"
                   PROVE  /\ latest = LatestCommit(file)
                          /\ latest = Cardinality(CommitPoints(file))
                          /\ \A a \in [commit : 1..Len(file), txn : Txns] :
                               a \in known <=> Recovered(a)
      BY DEF LiveEqualsDurable
    <2>2. file \in Seq(RecordSet) /\ Len(file) \in Nat
      BY <1>1, LenProperties DEF IInv, FileTyped
    <2>3. latest = GroupsIn(file)
      BY <1>1, <2>1 DEF AInv, InvMemory, Ahead
    <2>4. latest = LatestCommit(file)
      BY <1>1, <2>2, <2>3, LatestIsCount DEF AInv
    <2>5. ASSUME NEW a \in [commit : 1..Len(file), txn : Txns]
          PROVE  a \in known <=> Recovered(a)
      <3>1. a \in [commit : Nat, txn : Txns]
        BY <2>2
      <3>2. a \in known <=> Has(file, a) /\ a.commit <= latest
        BY <1>1, <2>1, <3>1 DEF AInv, InvMemory
      <3>3. Has(file, a) => a.commit <= latest
        <4>1. SUFFICES ASSUME NEW j \in CommitPoints(file), Group(file, j) = GroupOf(a)
                       PROVE  a.commit <= latest
          BY DEF Has
        <4>2. a.commit = file[j].commit
          BY <4>1 DEF Group, GroupOf
        <4>3. a.commit \in 1..GroupsIn(file)
          BY <1>1, <4>2 DEF AInv, Numbered
        <4> QED
          BY <2>2, <2>3, <4>3, PointsFinite
      <3> QED
        BY <3>2, <3>3 DEF Has, Recovered
    <2> QED
      BY <2>3, <2>4, <2>5 DEF GroupsIn
  <1> QED
    BY <1>1, AtomicInvariant, PTL

(* A transaction whose commit() reported an error is in no reopened store.  *)
THEOREM FailureLeavesNothing ==
  ASSUME OnlyCleanFailures, ContentsDiffer
  PROVE  Spec => []FailedInvisible
  <1>1. ASSUME IInv, AInv PROVE FailedInvisible
    <2>1. SUFFICES ASSUME NEW t \in failed, NEW c \in 1..Len(file), Recovered(Commit(t, c))
                   PROVE  FALSE
      BY DEF FailedInvisible
    <2>2. t \in Txns /\ c \in Nat
      BY <1>1, <2>1 DEF IInv, TypeOK
    <2>3. Has(file, Commit(t, c))
      BY <2>1 DEF Has, Recovered
    <2> QED
      BY <1>1, <2>1, <2>2, <2>3 DEF AInv, InvAuthors
  <1> QED
    BY <1>1, AtomicInvariant, PTL

-----------------------------------------------------------------------------
(* The refinement of the atomic log.                                        *)
LogIn(f) ==
  [c \in 1..GroupsIn(f) |-> CHOOSE t \in Txns : Has(f, Commit(t, c))]

GroupsWhole(f) ==
  \A j \in CommitPoints(f) : \E t \in Txns : Group(f, j) = GroupOf(Commit(t, f[j].commit))

(* The durable sequence of CommitLog, as a function of the file.            *)
LEMMA DurableIsLog == Durable = LogIn(file) /\ Durable' = LogIn(file')
  BY DEF Durable, LogIn, GroupsIn, Recovered, Has

(* An entry of the log is the only transaction whose group has that number. *)
LEMMA LogEntry ==
  ASSUME ContentsDiffer, NEW f \in Seq(RecordSet), Numbered(f), GroupsWhole(f),
         NEW c \in 1..GroupsIn(f)
  PROVE  /\ LogIn(f)[c] \in Txns
         /\ \A t \in Txns : Has(f, Commit(t, c)) <=> LogIn(f)[c] = t
  <1> DEFINE x == LogIn(f)[c]
  <1>1. c \in Nat /\ GroupsIn(f) \in Nat
    BY PointsFinite
  <1>2. PICK j \in CommitPoints(f) : f[j].commit = c
    BY DEF Numbered
  <1>3. \E t \in Txns : Has(f, Commit(t, c))
    BY <1>2 DEF GroupsWhole, Has
  <1>4. x = CHOOSE t \in Txns : Has(f, Commit(t, c))
    BY DEF LogIn
  <1> HIDE DEF x
  <1>5. x \in Txns /\ Has(f, Commit(x, c))
    BY <1>3, <1>4
  <1>6. ASSUME NEW t \in Txns, Has(f, Commit(t, c)) PROVE x = t
    <2>1. PICK k \in CommitPoints(f) : Group(f, k) = GroupOf(Commit(t, c))
      BY <1>6 DEF Has
    <2>2. PICK m \in CommitPoints(f) : Group(f, m) = GroupOf(Commit(x, c))
      BY <1>5 DEF Has
    <2>3. f[k].commit = c /\ f[m].commit = c
      BY <2>1, <2>2 DEF Group, GroupOf, Commit
    <2>4. k \in Nat /\ m \in Nat /\ ~(k < m) /\ ~(m < k)
      <3>1. k \in 1..Len(f) /\ m \in 1..Len(f) /\ Len(f) \in Nat
        BY PointsFinite, LenProperties
      <3> QED
        BY <1>1, <2>3, <3>1 DEF Numbered
    <2>5. k = m
      BY <2>4
    <2>6. GroupOf(Commit(t, c)) = GroupOf(Commit(x, c))
      BY <2>1, <2>2, <2>5
    <2> QED
      BY <1>1, <1>5, <2>6, GroupTells
  <1> QED
    BY <1>5, <1>6 DEF x

(* Without a new group the log is the same; a new one extends it.           *)
LEMMA LogSame ==
  ASSUME SameGroups
  PROVE  LogIn(file') = LogIn(file)
  BY SameKeeps DEF LogIn

LEMMA LogGrows ==
  ASSUME ContentsDiffer, file \in Seq(RecordSet), file' \in Seq(RecordSet), AddsGroup,
         Numbered(file), GroupsWhole(file), GroupsWhole(file'),
         latest = GroupsIn(file), cur \in Txns
  PROVE  LogIn(file') = Append(LogIn(file), cur)
  <1> DEFINE n == GroupsIn(file)
  <1>1. n \in Nat /\ n + 1 \in Nat
    BY PointsFinite
  <1>2. /\ GroupsIn(file') = n + 1
        /\ Numbered(file')
        /\ \A a : Has(file', a) <=> Has(file, a) \/ GroupOf(a) = GroupOf(Commit(cur, n + 1))
    BY AddKeeps
  <1> HIDE DEF n
  <1>3. LogIn(file) \in Seq(Txns) /\ Len(LogIn(file)) = n
    <2>1. \A c \in 1..n : LogIn(file)[c] \in Txns
      BY LogEntry DEF n
    <2>2. LogIn(file) = [c \in 1..n |-> LogIn(file)[c]]
      BY DEF LogIn, n
    <2> QED
      BY <1>1, <2>1, <2>2
  <1>4. ASSUME NEW c \in 1..n PROVE LogIn(file')[c] = LogIn(file)[c]
    <2>1. LogIn(file)[c] \in Txns /\ Has(file, Commit(LogIn(file)[c], c))
      BY <1>4, LogEntry DEF n
    <2>2. c \in 1..GroupsIn(file')
      BY <1>1, <1>2
    <2> QED
      BY <1>2, <2>1, <2>2, LogEntry
  <1>5. LogIn(file')[n + 1] = cur
    <2>1. n + 1 \in 1..GroupsIn(file')
      BY <1>1, <1>2
    <2> QED
      BY <1>2, <2>1, LogEntry
  <1>6. LogIn(file') = [c \in 1..(n + 1) |-> LogIn(file')[c]]
    BY <1>2 DEF LogIn
  <1> DEFINE log == LogIn(file)
             longer == Append(log, cur)
  <1>7. /\ longer \in Seq(Txns) /\ Len(longer) = n + 1
        /\ \A c \in 1..n : longer[c] = log[c]
        /\ longer[n + 1] = cur
    BY <1>3, AppendAt
  <1>8. longer = [c \in 1..(n + 1) |-> longer[c]]
    <2>1. longer = [c \in 1..Len(longer) |-> longer[c]]
      <3>1. longer \in [1..Len(longer) -> Txns]
        BY <1>7, LenProperties
      <3> HIDE DEF longer
      <3> QED
        BY <3>1
    <2> HIDE DEF longer
    <2> QED
      BY <1>7, <2>1
  <1>9. \A c \in 1..(n + 1) : LogIn(file')[c] = longer[c]
    <2>1. \A c \in 1..(n + 1) : c = n + 1 \/ c \in 1..n
      BY <1>1
    <2> HIDE DEF longer
    <2> QED
      BY <1>4, <1>5, <1>7, <2>1
  <1> HIDE DEF longer
  <1> QED
    BY <1>6, <1>8, <1>9 DEF longer

-----------------------------------------------------------------------------
(* Every step of the commit path is a step of the atomic log or a stutter.  *)
LEMMA LogStep ==
  ASSUME OnlyCleanFailures, ContentsDiffer, IInv, DInv, AInv, IInv', [Next]_vars
  PROVE  [Abstract!Next]_<<Durable, IF up THEN latest ELSE -1, {a.commit : a \in acked}>>
  <1> DEFINE log == Durable
             head == IF up THEN latest ELSE -1
             told == {a.commit : a \in acked}
             n == GroupsIn(file)
  <1>1. /\ file \in Seq(RecordSet) /\ file' \in Seq(RecordSet)
        /\ GroupsWhole(file) /\ GroupsWhole(file')
        /\ Numbered(file) /\ latest \in Nat /\ n \in Nat
    BY PointsFinite DEF IInv, FileTyped, TypeOK, GroupsGood, GroupsWhole, AInv
  <1>0. log = LogIn(file) /\ log' = LogIn(file')
    BY DurableIsLog
  <1> HIDE DEF log
  <1>2. log \in Seq(Txns) /\ Len(log) = n
    <2>1. \A c \in 1..n : log[c] \in Txns
      BY <1>0, <1>1, LogEntry
    <2>2. log = [c \in 1..n |-> log[c]]
      BY <1>0 DEF LogIn
    <2> HIDE DEF n
    <2> QED
      BY <1>1, <2>1, <2>2, SMTT(30)
  <1>3. SameGroups => log' = log
    BY <1>0, LogSame
  <1>4. CASE WriteRecord /\ pos' = Len(Records)
    <2>1. /\ pc = "writing" /\ pos < Len(Records) /\ cur \in Txns /\ up
          /\ UNCHANGED <<up, latest, acked>>
      BY <1>4, RecordsShape DEF WriteRecord, IInv, WrittenPrefix
    <2>2. AddsGroup
      BY <1>4, WriteGroups DEF AInv
    <2>3. latest = n /\ ~Ahead
      BY <2>1 DEF AInv, InvMemory, Ahead
    <2>4. log' = Append(log, cur)
      BY <1>0, <1>1, <2>1, <2>2, <2>3, LogGrows
    <2>5. \A i \in DOMAIN log : log[i] # cur
      <3>1. SUFFICES ASSUME NEW i \in 1..n, log[i] = cur PROVE FALSE
        BY <1>2
      <3>2. Has(file, Commit(cur, i)) /\ i \in Nat
        BY <1>0, <1>1, <2>1, <3>1, LogEntry
      <3> QED
        BY <2>1, <2>3, <3>2 DEF AInv, InvAuthors
    <2>6. head' = head /\ told' = told /\ head = Len(log)
      BY <1>2, <2>1, <2>3
    <2> HIDE DEF log, head, told
    <2>7. \E t \in Txns : /\ head = Len(log) /\ \A i \in DOMAIN log : log[i] # t
                          /\ log' = Append(log, t) /\ UNCHANGED <<head, told>>
      BY <2>1, <2>4, <2>5, <2>6
    <2> QED
      BY <2>7 DEF Abstract!Next, Abstract!MakeDurable, log, head, told
  <1>5. CASE WriteRecord /\ pos' # Len(Records)
    <2>1. SameGroups /\ UNCHANGED <<up, latest, acked>>
      BY <1>5, WriteGroups DEF AInv, WriteRecord
    <2> QED
      BY <1>3, <2>1 DEF log
  <1>6. CASE Publish
    <2>1. /\ pc = "publish" /\ up /\ up' /\ latest' = latest + 1 /\ file' = file
          /\ acked' = acked \union {Commit(cur, latest + 1)}
      BY <1>6 DEF Publish, IInv, WrittenPrefix
    <2>2. latest = n - 1
      BY <2>1 DEF DInv, WrittenWhole, AInv, InvMemory, Ahead
    <2>3. told' = told \union {n}
      <3>1. Commit(cur, latest + 1).commit = n
        BY <1>1, <2>2 DEF Commit
      <3> QED
        BY <2>1, <3>1
    <2>4. head = Len(log) - 1 /\ head # -1 /\ head' = Len(log) /\ log' = log
      BY <1>0, <1>1, <1>2, <2>1, <2>2
    <2> QED
      BY <1>2, <2>3, <2>4 DEF Abstract!Next, Abstract!Publish, Abstract!Closed, log
  <1>7. CASE Crash
    <2>1. file' = file /\ up /\ ~up' /\ acked' = acked
      BY <1>7, NoTails DEF Crash
    <2>2. head # -1 /\ head' = -1 /\ log' = log /\ told' = told
      BY <1>0, <1>1, <2>1
    <2> QED
      BY <2>2 DEF Abstract!Next, Abstract!Die, Abstract!Closed, log
  <1>8. CASE Reopen
    <2>1. file' = file /\ ~up /\ up' /\ acked' = acked /\ latest' = LatestCommit(file)
      BY <1>8 DEF Reopen
    <2>2. latest' = n
      BY <1>1, <2>1, LatestIsCount
    <2>3. head = -1 /\ head' = Len(log) /\ log' = log /\ told' = told
      BY <1>0, <1>2, <2>1, <2>2
    <2> QED
      BY <2>3 DEF Abstract!Next, Abstract!Open, Abstract!Closed, log
  <1>9. ASSUME NEW t \in Txns, BeginAppend(t)
        PROVE  UNCHANGED <<file, up, latest, acked>>
    BY <1>9 DEF BeginAppend
  <1>10. CloseFile \/ Reread \/ PatchHeader \/ RereadRejects \/ RereadFails \/ PatchFails
           \/ PatchIsLost \/ UNCHANGED vars
           => UNCHANGED <<file, up, latest, acked>>
    BY DEF CloseFile, Reread, PatchHeader, RereadRejects, RereadFails, PatchFails,
           PatchIsLost, ReportError, vars
  <1>11. WriteFails => UNCHANGED <<file, up, latest, acked>>
    BY NoTails DEF WriteFails, ReportError
  <1>12. UNCHANGED <<file, up, latest, acked>> => UNCHANGED <<log, head, told>>
    BY <1>0
  <1> HIDE DEF log, head, told
  <1>13. [Abstract!Next]_<<log, head, told>>
    BY <1>4, <1>5, <1>6, <1>7, <1>8, <1>9, <1>10, <1>11, <1>12 DEF Next, log, head, told
  <1> QED
    BY <1>13 DEF log, head, told

LEMMA LogInitially ==
  ASSUME Init
  PROVE  Abstract!Init
  <1>1. GroupsIn(file) = 0 /\ up /\ latest = 0 /\ acked = {}
    <2>1. CommitPoints(file) = {}
      BY CommitPointsInDomain DEF Init
    <2> QED
      BY <2>1, FS_EmptySet DEF GroupsIn, Init
  <1>2. Durable = <<>>
    BY <1>1, DurableIsLog DEF LogIn
  <1> QED
    BY <1>1, <1>2 DEF Abstract!Init

(* Records on a file, with a head, version maps, write errors and crashes,  *)
(* are an atomic log: a commit becomes durable at once, is acknowledged     *)
(* only then and once, and every reopen shows the whole log.                *)
THEOREM CommitLogIsAtomicLog ==
  ASSUME OnlyCleanFailures, ContentsDiffer
  PROVE  Spec => ImplementsAtomicLog
  <1>1. Init => Abstract!Init
    BY LogInitially
  <1>2. IInv /\ DInv /\ AInv /\ IInv' /\ [Next]_vars
        => [Abstract!Next]_<<Durable, IF up THEN latest ELSE -1, {a.commit : a \in acked}>>
    BY LogStep
  <1> QED
    BY <1>1, <1>2, AtomicInvariant, PTL DEF Spec, ImplementsAtomicLog, Abstract!Spec

=============================================================================
