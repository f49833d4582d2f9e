------------------------- MODULE StoreHandlesProofs -------------------------
(***************************************************************************)
(* Proofs about StoreHandles for any number of processes, any mix of       *)
(* commands, any size of script, any tears and any number of failures.     *)
(***************************************************************************)
EXTENDS StoreHandles, OgrFileProofs, FiniteSetTheorems

Places == {"start", "create", "header", "load", "loading", "open",
           "checking", "append", "reread", "patch"}
Exits == {"none", "ok", "missing", "usage", "format", "failed", "died"}
Memory == [at : Places, exit : Exits, head : Nat, mark : Nat,
           owed : SUBSET Handles, pos : 0..(Size + 1), cut : BOOLEAN]

\* The group of the apply a as commit number c, and the records of all groups.
GroupRecords(a, c) == EncodeTransaction(c - 1, c, a, Size)
WholeRecords ==
  {GroupRecords(a, c)[k] : a \in Handles, c \in Nat \ {0}, k \in 1..(Size + 2)}

\* What the file may hold, and what a reader may find.
FileRecords == WholeRecords \union {Torn(m) : m \in Nat}

\* The records of f that end at j are the whole group of a.
Block(f, j, a, c) ==
  /\ j \in (Size + 2)..Len(f)
  /\ \A k \in 1..(Size + 2) : f[j - (Size + 2) + k] = GroupRecords(a, c)[k]

\* Number of commits in f up to position j.
CommitsTo(f, j) == Cardinality({k \in CommitPoints(f) : k <= j})

(***************************************************************************)
(* What makes a file, or what a reader got of it, readable: only the last  *)
(* record may be torn, no record but a TXN_BEGIN follows a TXN_COMMIT, and  *)
(* every TXN_COMMIT ends the whole group of one apply with the next number. *)
(***************************************************************************)
Sound(f) ==
  /\ f \in Seq(FileRecords)
  /\ TornAt(f) \subseteq {Len(f)}
  /\ \A i \in DOMAIN f :
       f[i].type \in {"Version", "TxnCommit"} => i > 1 /\ f[i - 1].type # "TxnCommit"
  /\ \A j \in CommitPoints(f) :
       /\ \E a \in Handles : Block(f, j, a, f[j].commit)
       /\ f[j].commit = CommitsTo(f, j)

-----------------------------------------------------------------------------
(* The strengthening.                                                       *)
InvTyped ==
  /\ TypeOK
  /\ proc \in [Handles -> Memory]
  /\ file \in Seq(FileRecords)

\* What the place of a process says about the rest of its memory.
InvPlaces ==
  \A h \in Handles :
    /\ proc[h].exit # "none" => proc[h].at = "start"
    /\ proc[h].at # "append" => proc[h].pos = 0
    /\ proc[h].at \in {"append", "reread", "patch"} => command[h] = "apply"
    /\ proc[h].at = "checking" => command[h] = "check"

\* A path that is missing has not been used; one without a superblock is
\* being made, or its superblock was lost.
InvPath ==
  /\ disk = "missing" =>
       \A h \in Handles : /\ proc[h].at \in {"start", "create"}
                          /\ proc[h].exit \in {"none", "missing", "failed", "died"}
  /\ disk = "short" => lost \/ \E g \in Handles : proc[g].at = "header"

\* Unless two commands found the path missing, one makes it, once, and nobody
\* gets past a load before its superblock is there.
InvCreate ==
  ~raced =>
    /\ \A g, h \in Handles :
         proc[g].at \in {"create", "header"} /\ proc[h].at \in {"create", "header"} => g = h
    /\ \A h \in Handles :
         /\ proc[h].at = "create" => disk = "missing"
         /\ proc[h].at = "header" => disk = "short" /\ ~lost
         /\ proc[h].at \in {"open", "checking", "append", "reread", "patch"} => disk = "store"
         /\ ~proc[h].cut
    /\ lost => disk = "short"

\* Who may have written a whole group: an apply that succeeded, died, is not yet
\* told, or failed when its group was complete.
Author(a) ==
  /\ command[a] = "apply"
  /\ \/ proc[a].exit \in {"ok", "died"}
     \/ proc[a].at \in {"reread", "patch"}
     \/ a \in late

\* In an undisturbed file the end is what the one writer has written of its
\* group, and every group has an author.
InvWriter ==
  Undisturbed =>
    /\ Sound(file)
    /\ \A g, h \in Handles : proc[g].at = "append" /\ proc[h].at = "append" => g = h
    /\ \A h \in Handles : proc[h].at = "append" =>
         /\ proc[h].pos <= Len(file)
         /\ \A k \in 1..proc[h].pos : file[Len(file) - proc[h].pos + k] = Records(h)[k]
         /\ proc[h].head = Cardinality(CommitPoints(file))
    /\ \A j \in CommitPoints(file) :
         \E a \in Handles : Author(a) /\ Block(file, j, a, file[j].commit)

Holds(f, a, n) == \E j \in CommitPoints(f) : j <= n /\ Block(f, j, a, f[j].commit)

\* An undisturbed file has every group that was completed and told, and what a
\* read must show was there when it began.
InvShown ==
  Undisturbed =>
    \A h \in Handles :
      /\ \/ command[h] = "apply" /\ proc[h].exit = "ok"
         \/ proc[h].at \in {"reread", "patch"}
         \/ h \in late
         => Holds(file, h, Len(file))
      /\ proc[h].at \in {"loading", "checking"} =>
           /\ proc[h].mark <= Len(file)
           /\ \A a \in proc[h].owed : Holds(file, a, proc[h].mark)

IInv == InvTyped /\ InvPlaces /\ InvPath /\ InvCreate /\ InvWriter /\ InvShown

-----------------------------------------------------------------------------
(* The records of a group.                                                  *)
LEMMA SizeTyped == Size \in Nat /\ Size + 2 \in Nat /\ MaxFaults \in Nat
  BY StoreHandlesAssumption

\* A TXN_BEGIN, the changes in order, and a TXN_COMMIT that counts them.
IsGroup(r, a, c) ==
  /\ Len(r) = Size + 2
  /\ r[1].type = "TxnBegin" /\ r[1].commit = c /\ r[1].missing = 0
  /\ \A i \in 1..Size : r[i + 1] = Record("Version", c, Change(a, i), 0)
  /\ r[Size + 2].type = "TxnCommit" /\ r[Size + 2].commit = c
  /\ r[Size + 2].missing = 0
  /\ r[Size + 2].body = <<Size + 2, <<r[1].body>> \o [i \in 1..Size |-> Change(a, i)]>>

(* What append_transaction encodes for an apply.                            *)
LEMMA GroupShape ==
  ASSUME NEW a, NEW c \in Nat
  PROVE  IsGroup(GroupRecords(a, c), a, c)
  <1> DEFINE begin   == Record("TxnBegin", c, <<c - 1, Size>>, 0)
             changes == [i \in 1..Size |-> Record("Version", c, Change(a, i), 0)]
             digest  == <<begin.body>> \o [i \in 1..Size |-> Change(a, i)]
             end     == Record("TxnCommit", c, <<Size + 2, digest>>, 0)
             S       == {begin, end} \union {changes[i] : i \in 1..Size}
             r       == GroupRecords(a, c)
  <1>1. begin.type = "TxnBegin" /\ begin.commit = c /\ begin.missing = 0
    BY DEF Record
  <1>2. /\ end.type = "TxnCommit" /\ end.commit = c /\ end.body = <<Size + 2, digest>>
        /\ end.missing = 0
    BY DEF Record
  <1>3. begin \in S /\ end \in S
    OBVIOUS
  <1>4. changes \in Seq(S) /\ Len(changes) = Size
    <2>1. changes = [i \in 1..Size |-> changes[i]] /\ \A i \in 1..Size : changes[i] \in S
      OBVIOUS
    <2> HIDE DEF changes, S
    <2> QED
      BY <2>1, SizeTyped
  <1>5. r = <<begin>> \o changes \o <<end>>
    BY DEF EncodeTransaction, GroupRecords
  <1>6. \A i \in 1..Size : changes[i] = Record("Version", c, Change(a, i), 0)
    OBVIOUS
  <1>7. digest = <<begin.body>> \o [i \in 1..Size |-> Change(a, i)]
    OBVIOUS
  <1> HIDE DEF begin, changes, digest, end, S, r
  <1>8. /\ <<begin>> \o changes \in Seq(S)
        /\ Len(<<begin>> \o changes) = Size + 1
        /\ (<<begin>> \o changes)[1] = begin
        /\ \A i \in 1..Size : (<<begin>> \o changes)[i + 1] = changes[i]
    BY <1>3, <1>4, SizeTyped
  <1>9. /\ Len(r) = Size + 2
        /\ \A i \in 1..(Size + 1) : r[i] = (<<begin>> \o changes)[i]
        /\ r[Size + 2] = end
    BY <1>3, <1>5, <1>8, SizeTyped
  <1>10. r[1] = begin /\ \A i \in 1..Size : r[i + 1] = changes[i]
    BY <1>8, <1>9, SizeTyped
  <1>11. r[Size + 2].body = <<Size + 2, <<r[1].body>> \o [i \in 1..Size |-> Change(a, i)]>>
    BY <1>2, <1>7, <1>9, <1>10
  <1> QED
    BY <1>1, <1>2, <1>6, <1>9, <1>10, <1>11 DEF r, IsGroup

(* The type of each record of a group follows from its place.               *)
LEMMA GroupTypes ==
  ASSUME NEW a, NEW c \in Nat, NEW k \in 1..(Size + 2)
  PROVE  /\ k = 1 => GroupRecords(a, c)[k].type = "TxnBegin"
         /\ k \in 2..(Size + 1) =>
              /\ GroupRecords(a, c)[k].type = "Version"
              /\ GroupRecords(a, c)[k].body = Change(a, k - 1)
         /\ k = Size + 2 => GroupRecords(a, c)[k].type = "TxnCommit"
         /\ GroupRecords(a, c)[k].commit = c /\ GroupRecords(a, c)[k].missing = 0
  <1> DEFINE r == GroupRecords(a, c)
  <1>0. /\ r[1].type = "TxnBegin" /\ r[1].commit = c /\ r[1].missing = 0
        /\ \A i \in 1..Size : r[i + 1] = Record("Version", c, Change(a, i), 0)
        /\ r[Size + 2].type = "TxnCommit" /\ r[Size + 2].commit = c
        /\ r[Size + 2].missing = 0
    <2>1. IsGroup(r, a, c)
      BY GroupShape
    <2> QED
      BY <2>1 DEF IsGroup
  <1> HIDE DEF r
  <1>1. CASE k = 1
    BY <1>0, <1>1, SizeTyped DEF r
  <1>2. CASE k \in 2..(Size + 1)
    <2>1. k - 1 \in 1..Size /\ (k - 1) + 1 = k
      BY <1>2, SizeTyped
    <2>2. r[k] = Record("Version", c, Change(a, k - 1), 0)
      BY <1>0, <2>1
    <2>3. /\ r[k].type = "Version" /\ r[k].commit = c
          /\ r[k].body = Change(a, k - 1) /\ r[k].missing = 0
      BY <2>2 DEF Record
    <2> QED
      BY <1>2, <2>3, SizeTyped DEF r
  <1>3. CASE k = Size + 2
    BY <1>0, <1>3, SizeTyped DEF r
  <1> QED
    BY <1>1, <1>2, <1>3, SizeTyped

LEMMA WholeTypes ==
  ASSUME NEW r \in WholeRecords
  PROVE  /\ r.type \in {"TxnBegin", "Version", "TxnCommit"} /\ r.commit \in Nat
         /\ r.missing = 0
  <1>1. PICK a \in Handles, c \in Nat \ {0}, k \in 1..(Size + 2) : r = GroupRecords(a, c)[k]
    BY DEF WholeRecords
  <1>2. k = 1 \/ k \in 2..(Size + 1) \/ k = Size + 2
    BY SizeTyped
  <1> QED
    BY <1>1, <1>2, GroupTypes

LEMMA TornFields ==
  ASSUME NEW m
  PROVE  Torn(m).type = "Torn" /\ Torn(m).missing = m /\ Torn(m).commit = 0
  BY DEF Torn, Record

LEMMA FileTypes ==
  ASSUME NEW r \in FileRecords
  PROVE  /\ r.type \in {"TxnBegin", "Version", "TxnCommit", "Torn"}
         /\ r.commit \in Nat /\ r.missing \in Nat
         /\ r.type # "Torn" <=> r \in WholeRecords
  <1>1. CASE r \in WholeRecords
    BY <1>1, WholeTypes
  <1>2. CASE r \in {Torn(m) : m \in Nat}
    <2>1. PICK m \in Nat : r = Torn(m)
      BY <1>2
    <2>2. r.type = "Torn" /\ r.missing = m /\ r.commit = 0
      BY <2>1, TornFields
    <2> QED
      BY <2>2, WholeTypes
  <1> QED
    BY <1>1, <1>2 DEF FileRecords

-----------------------------------------------------------------------------
(* Files that are readable.                                                 *)

\* f and g have the same records up to n.
Agree(f, g, n) ==
  /\ n <= Len(f) /\ n <= Len(g)
  /\ \A i \in 1..n : f[i] = g[i]

(* Commit points, numbers and groups up to n depend on nothing after n.     *)
LEMMA SamePrefix ==
  ASSUME NEW S, NEW f \in Seq(S), NEW g \in Seq(S), NEW n \in Nat, Agree(f, g, n),
         NEW j \in 1..n
  PROVE  /\ j \in CommitPoints(f) <=> j \in CommitPoints(g)
         /\ CommitsTo(f, j) = CommitsTo(g, j)
         /\ \A a, c : Block(f, j, a, c) <=> Block(g, j, a, c)
  <1>1. /\ Len(f) \in Nat /\ DOMAIN f = 1..Len(f)
        /\ Len(g) \in Nat /\ DOMAIN g = 1..Len(g)
        /\ n <= Len(f) /\ n <= Len(g) /\ \A i \in 1..n : f[i] = g[i]
    BY DEF Agree
  <1>0. j \in Nat /\ 1 <= j /\ j <= n
    OBVIOUS
  <1>2. \A k \in 1..n : k \in CommitPoints(f) <=> k \in CommitPoints(g)
    <2>1. TAKE k \in 1..n
    <2>2. k \in DOMAIN f /\ k \in DOMAIN g /\ \A i \in 1..k : f[i] = g[i]
      BY <1>1
    <2>3. k \in Scanned(f) <=> k \in Scanned(g)
      BY <2>2 DEF Scanned
    <2> QED
      BY <1>1, <2>3 DEF CommitPoints
  <1>3. CommitsTo(f, j) = CommitsTo(g, j)
    <2>1. CommitPoints(f) \subseteq 1..Len(f) /\ CommitPoints(g) \subseteq 1..Len(g)
      BY <1>1, CommitPointsInDomain
    <2>2. {k \in CommitPoints(f) : k <= j} = {k \in CommitPoints(g) : k <= j}
      <3>1. ASSUME NEW k \in Nat, 1 <= k, k <= j PROVE k \in 1..n
        BY ONLY <1>0, <3>1, n \in Nat
      <3> QED
        BY <1>1, <1>2, <2>1, <3>1
    <2> QED
      BY <2>2 DEF CommitsTo
  <1>4. ASSUME NEW a, NEW c PROVE Block(f, j, a, c) <=> Block(g, j, a, c)
    <2>1. j \in (Size + 2)..Len(f) <=> j \in (Size + 2)..Len(g)
      BY <1>1
    <2>2. ASSUME j >= Size + 2, NEW k \in 1..(Size + 2)
          PROVE  f[j - (Size + 2) + k] = g[j - (Size + 2) + k]
      <3>1. j - (Size + 2) + k \in 1..n
        BY <2>2, SizeTyped
      <3> QED
        BY <1>1, <3>1
    <2>3. j \in (Size + 2)..Len(f) => j >= Size + 2
      BY <1>1, SizeTyped
    <2> DEFINE r == GroupRecords(a, c)
    <2>4. Block(f, j, a, c) <=>
            j \in (Size + 2)..Len(f) /\ \A k \in 1..(Size + 2) : f[j - (Size + 2) + k] = r[k]
      BY DEF Block
    <2>5. Block(g, j, a, c) <=>
            j \in (Size + 2)..Len(g) /\ \A k \in 1..(Size + 2) : g[j - (Size + 2) + k] = r[k]
      BY DEF Block
    <2> HIDE DEF r
    <2> QED
      BY ONLY <2>1, <2>2, <2>3, <2>4, <2>5
  <1> QED
    BY <1>2, <1>3, <1>4

(* The records of a block are a group that read_store accepts.              *)
LEMMA BlockGroup ==
  ASSUME NEW f \in Seq(FileRecords), NEW j \in Nat, NEW a, NEW c \in Nat, Block(f, j, a, c)
  PROVE  /\ f[j].type = "TxnCommit" /\ f[j].commit = c
         /\ GroupBodies(f, j) = [i \in 1..Size |-> Change(a, i)]
         /\ GroupIsSound(f, j)
  <1> DEFINE b == j - Size - 1
             r == GroupRecords(a, c)
  <1>1. /\ b \in 1..j /\ j \in Nat /\ j = b + Size + 1 /\ b \in Nat
        /\ \A k \in 1..(Size + 2) : f[b + k - 1] = r[k]
    <2>1. j \in (Size + 2)..Len(f)
      BY DEF Block
    <2>2. ASSUME NEW k \in 1..(Size + 2) PROVE f[b + k - 1] = r[k]
      <3>1. j - (Size + 2) + k = b + k - 1
        BY <2>1, SizeTyped
      <3>2. f[j - (Size + 2) + k] = r[k]
        BY DEF Block
      <3> QED
        BY <3>1, <3>2
    <2>3. b \in 1..j /\ j = b + Size + 1 /\ b \in Nat
      BY <2>1, SizeTyped
    <2> QED
      BY <2>2, <2>3
  <1>2. IsGroup(r, a, c)
    BY GroupShape
  <1>3. ASSUME NEW k \in 1..(Size + 2)
        PROVE  /\ k = 1 => r[k].type = "TxnBegin"
               /\ k # 1 => r[k].type # "TxnBegin"
    BY GroupTypes, SizeTyped
  <1> HIDE DEF b, r
  <1>4. f[b] = r[1] /\ f[j] = r[Size + 2]
    <2>1. 1 \in 1..(Size + 2) /\ Size + 2 \in 1..(Size + 2)
      BY SizeTyped
    <2>2. b + 1 - 1 = b /\ b + (Size + 2) - 1 = j
      BY <1>1, SizeTyped
    <2>3. f[b + 1 - 1] = r[1] /\ f[b + (Size + 2) - 1] = r[Size + 2]
      BY <1>1, <2>1
    <2> QED
      BY <2>2, <2>3
  <1>5. GroupStart(f, j) = b
    <2>1. f[b].type = "TxnBegin"
      BY <1>2, <1>4 DEF IsGroup
    <2>2. ASSUME NEW k \in (b + 1)..j PROVE f[k].type # "TxnBegin"
      <3>1. k - b + 1 \in 1..(Size + 2) /\ k - b + 1 # 1 /\ b + (k - b + 1) - 1 = k
        BY <1>1, SizeTyped
      <3>2. f[b + (k - b + 1) - 1] = r[k - b + 1]
        BY <1>1, <3>1
      <3> QED
        BY <1>3, <3>1, <3>2
    <2> QED
      BY <1>1, <2>1, <2>2, GroupStartUnique
  <1>6. GroupBodies(f, j) = [i \in 1..Size |-> Change(a, i)]
    <2>1. j - b - 1 = Size
      BY <1>1, SizeTyped
    <2>2. ASSUME NEW i \in 1..Size PROVE f[b + i].body = Change(a, i)
      <3>1. i + 1 \in 1..(Size + 2) /\ b + (i + 1) - 1 = b + i
        BY <1>1, SizeTyped
      <3>2. f[b + (i + 1) - 1] = r[i + 1]
        BY <1>1, <3>1
      <3>3. r[i + 1] = Record("Version", c, Change(a, i), 0)
        BY <1>2 DEF IsGroup
      <3> QED
        BY <3>1, <3>2, <3>3 DEF Record
    <2> QED
      BY <1>5, <2>1, <2>2 DEF GroupBodies
  <1>7. GroupIsSound(f, j)
    <2> DEFINE bodies == [i \in 1..Size |-> Change(a, i)]
    <2>1. f[j].body = <<Size + 2, <<f[b].body>> \o bodies>>
      BY <1>2, <1>4 DEF IsGroup
    <2>2. GroupBodies(f, j) = bodies
      BY <1>6
    <2> HIDE DEF bodies
    <2>3. f[j].body[1] = Size + 2 /\ f[j].body[2] = <<f[b].body>> \o bodies
      BY <2>1
    <2>4. Size + 2 = j - b + 1
      BY <1>1, SizeTyped
    <2>5. \A i \in (b + 1)..(j - 1) : Decodable(f[i].body)
      BY StoreHandlesAssumption DEF Decodable
    <2> QED
      BY <1>5, <2>2, <2>3, <2>4, <2>5 DEF GroupIsSound
  <1>8. f[j].type = "TxnCommit" /\ f[j].commit = c
    BY <1>2, <1>4 DEF IsGroup
  <1> QED
    BY <1>6, <1>7, <1>8

(* A sound file is accepted by read_store.                                  *)
LEMMA SoundReadable ==
  ASSUME NEW f, Sound(f)
  PROVE  Readable(f)
  <1>1. f \in Seq(FileRecords) /\ Len(f) \in Nat /\ DOMAIN f = 1..Len(f)
    BY DEF Sound
  <1>2. \A i \in ScanStop(f) : StopIsFormatError(f, i)
    <2>1. TAKE i \in ScanStop(f)
    <2>2. i \in 1..Len(f) /\ i = Len(f)
      BY <1>1 DEF ScanStop, TornAt, Sound
    <2>3. f[i].missing \in Nat
      <3>1. f[i] \in FileRecords
        BY <1>1, <2>2
      <3> QED
        BY <3>1, FileTypes
    <2>4. f[i].missing = 0 \/ Len(f) - i < f[i].missing
      BY <1>1, <2>2, <2>3
    <2> QED
      BY <2>4 DEF StopIsFormatError
  <1>3. \A i \in Scanned(f) : ~OutsideGroup(f, i)
    <2>1. TAKE i \in Scanned(f)
    <2>2. i \in DOMAIN f /\ f[i].type # "Torn" /\ f[i] \in FileRecords
      BY <1>1 DEF Scanned
    <2>3. f[i].type \in {"TxnBegin", "Version", "TxnCommit"}
      BY <2>2, FileTypes
    <2>4. f[i].type \in {"Version", "TxnCommit"} => i > 1 /\ f[i - 1].type # "TxnCommit"
      BY <2>2 DEF Sound
    <2> QED
      BY <1>1, <2>2, <2>3, <2>4 DEF OutsideGroup
  <1>4. \A j \in CommitPoints(f) : GroupIsSound(f, j)
    <2>1. TAKE j \in CommitPoints(f)
    <2>2. j \in 1..Len(f) /\ f[j] \in FileRecords
      BY <1>1, CommitPointsInDomain
    <2>3. PICK a \in Handles : Block(f, j, a, f[j].commit)
      BY DEF Sound
    <2>4. f[j].commit \in Nat
      BY <2>2, FileTypes
    <2> QED
      BY <1>1, <2>2, <2>3, <2>4, BlockGroup
  <1> QED
    BY <1>2, <1>3, <1>4 DEF Readable

(* A file without a torn record is one of whole records.                    *)
LEMMA NotTorn ==
  ASSUME NEW f \in Seq(FileRecords), TornAt(f) = {}
  PROVE  f \in Seq(WholeRecords)
  <1>1. Len(f) \in Nat /\ DOMAIN f = 1..Len(f) /\ f = [i \in 1..Len(f) |-> f[i]]
    OBVIOUS
  <1>2. ASSUME NEW i \in 1..Len(f) PROVE f[i] \in WholeRecords
    <2>1. f[i] \in FileRecords /\ f[i].type # "Torn"
      BY <1>1 DEF TornAt
    <2> QED
      BY <2>1, FileTypes
  <1> QED
    BY <1>1, <1>2

(* And the other way round.                                                 *)
LEMMA WholeFile ==
  ASSUME NEW f \in Seq(WholeRecords)
  PROVE  /\ f \in Seq(FileRecords) /\ Len(f) \in Nat /\ DOMAIN f = 1..Len(f)
         /\ TornAt(f) = {}
         /\ CommitPoints(f) = {j \in 1..Len(f) : f[j].type = "TxnCommit"}
         /\ \A j \in 1..Len(f) : f[j].commit \in Nat
  <1>1. /\ f \in Seq(FileRecords) /\ Len(f) \in Nat /\ DOMAIN f = 1..Len(f)
        /\ \A j \in 1..Len(f) : f[j] \in WholeRecords
    BY DEF FileRecords
  <1>2. \A j \in 1..Len(f) : f[j].type # "Torn" /\ f[j].commit \in Nat
    BY <1>1, WholeTypes
  <1>3. Scanned(f) = 1..Len(f)
    <2>1. ASSUME NEW j \in 1..Len(f) PROVE j \in Scanned(f)
      <3>1. \A k \in 1..j : k \in 1..Len(f)
        BY <1>1
      <3> QED
        BY <1>1, <1>2, <3>1 DEF Scanned
    <2> QED
      BY <1>1, <2>1 DEF Scanned
  <1> QED
    BY <1>1, <1>2, <1>3 DEF TornAt, CommitPoints

(* The beginning of a sound file, with or without half a record after its   *)
(* whole ones, is sound, and has the commits up to there.                   *)
LEMMA SoundPart ==
  ASSUME NEW f \in Seq(FileRecords), Sound(f), NEW n \in 0..Len(f),
         NEW g \in Seq(FileRecords), Agree(g, f, n),
         \/ Len(g) = n
         \/ Len(g) = n + 1 /\ g[n + 1].type = "Torn" /\ n \notin TornAt(f)
  PROVE  /\ Sound(g)
         /\ CommitPoints(g) = {j \in CommitPoints(f) : j <= n}
  <1>1. /\ f \in Seq(FileRecords) /\ Len(f) \in Nat /\ DOMAIN f = 1..Len(f)
        /\ n \in Nat /\ n <= Len(f)
        /\ Len(g) \in Nat /\ DOMAIN g = 1..Len(g)
        /\ \A i \in 1..n : g[i] = f[i] /\ i \in 1..Len(f) /\ i \in 1..Len(g)
    <2>1. n \in Nat /\ n <= Len(f)
      BY LenProperties
    <2> QED
      BY <2>1 DEF Agree
  <1>0. ASSUME NEW i \in 1..Len(g)
        PROVE  i \in 1..n \/ (i = n + 1 /\ Len(g) = n + 1 /\ g[i].type = "Torn")
    <2>1. CASE Len(g) = n
      BY ONLY <1>1, <2>1, i \in 1..Len(g)
    <2>2. CASE Len(g) = n + 1 /\ g[n + 1].type = "Torn"
      <3>1. i \in 1..n \/ i = n + 1
        BY ONLY <1>1, <2>2, i \in 1..Len(g)
      <3> QED
        BY <2>2, <3>1
    <2> QED
      BY <2>1, <2>2
  <1>2. TornAt(g) \subseteq {Len(g)}
    <2>1. SUFFICES ASSUME NEW i \in DOMAIN g, g[i].type = "Torn", i # Len(g) PROVE FALSE
      BY DEF TornAt
    <2>2. i \in 1..n
      BY <1>0, <1>1, <2>1
    <2>3. i = Len(f) /\ i \in TornAt(f)
      BY <1>1, <2>1, <2>2 DEF TornAt, Sound
    <2>4. n = i
      <3>1. n \in Nat /\ n <= Len(f) /\ Len(f) \in Nat
        BY <1>1
      <3> QED
        BY ONLY <3>1, <2>2, <2>3
    <2> QED
      BY <2>1, <2>3, <2>4
  <1>3. ASSUME NEW i \in DOMAIN g, g[i].type \in {"Version", "TxnCommit"}
        PROVE  i > 1 /\ g[i - 1].type # "TxnCommit"
    <2>1. i \in 1..n
      BY <1>0, <1>1, <1>3
    <2>2. f[i].type \in {"Version", "TxnCommit"} /\ i \in DOMAIN f
      BY <1>1, <1>3, <2>1
    <2>3. i > 1 /\ f[i - 1].type # "TxnCommit"
      BY <2>2 DEF Sound
    <2>4. i - 1 \in 1..n
      <3>1. n \in Nat
        BY <1>1
      <3> QED
        BY ONLY <3>1, <2>1, <2>3
    <2> QED
      BY <1>1, <2>3, <2>4
  <1>4. CommitPoints(g) \subseteq 1..n
    <2>1. SUFFICES ASSUME NEW j \in CommitPoints(g) PROVE j \in 1..n
      OBVIOUS
    <2>2. j \in 1..Len(g) /\ g[j].type = "TxnCommit"
      BY <1>1, CommitPointsInDomain
    <2> QED
      BY <1>0, <2>2
  <1>5. \A j \in 1..n : /\ j \in CommitPoints(g) <=> j \in CommitPoints(f)
                        /\ CommitsTo(g, j) = CommitsTo(f, j)
                        /\ \A a, c : Block(g, j, a, c) <=> Block(f, j, a, c)
    BY ONLY <1>1, SamePrefix, Agree(g, f, n), g \in Seq(FileRecords)
  <1>6. CommitPoints(g) = {j \in CommitPoints(f) : j <= n}
    <2>1. CommitPoints(f) \subseteq 1..Len(f)
      BY <1>1, CommitPointsInDomain
    <2>2. ASSUME NEW j \in CommitPoints(f), j <= n PROVE j \in 1..n
      <3>1. j \in 1..Len(f)
        BY <2>1
      <3> QED
        BY ONLY <1>1, <2>2, <3>1
    <2>3. ASSUME NEW j \in 1..n PROVE j <= n
      OBVIOUS
    <2> QED
      BY <1>4, <1>5, <2>2, <2>3
  <1>7. ASSUME NEW j \in CommitPoints(g)
        PROVE  /\ \E a \in Handles : Block(g, j, a, g[j].commit)
               /\ g[j].commit = CommitsTo(g, j)
    <2>1. j \in 1..n /\ j \in CommitPoints(f) /\ g[j] = f[j]
      BY <1>1, <1>4, <1>5
    <2>2. /\ \E a \in Handles : Block(f, j, a, f[j].commit)
          /\ f[j].commit = CommitsTo(f, j)
      BY <2>1 DEF Sound
    <2> QED
      BY <1>5, <2>1, <2>2
  <1> QED
    BY <1>2, <1>3, <1>6, <1>7 DEF Sound

(* The latest commit of a sound file is how many it has.                    *)
LEMMA SoundLatest ==
  ASSUME NEW f, Sound(f)
  PROVE  /\ LatestCommit(f) = Cardinality(CommitPoints(f))
         /\ Cardinality(CommitPoints(f)) \in Nat /\ IsFiniteSet(CommitPoints(f))
  <1>1. f \in Seq(FileRecords) /\ Len(f) \in Nat /\ DOMAIN f = 1..Len(f)
    BY DEF Sound
  <1>2. CommitPoints(f) \subseteq 1..Len(f)
    BY <1>1, CommitPointsInDomain
  <1>3. IsFiniteSet(CommitPoints(f)) /\ Cardinality(CommitPoints(f)) \in Nat
    <2>1. IsFiniteSet(1..Len(f))
      BY <1>1, FS_Interval
    <2>2. IsFiniteSet(CommitPoints(f))
      BY <1>2, <2>1, FS_Subset
    <2> QED
      BY <2>2, FS_CardinalityType
  <1>4. CASE CommitPoints(f) = {}
    BY <1>3, <1>4, FS_EmptySet DEF LatestCommit
  <1>5. CASE CommitPoints(f) # {}
    <2>1. PICK j \in CommitPoints(f) : /\ \A k \in CommitPoints(f) : k <= j
                                       /\ LatestCommit(f) = f[j].commit
      BY <1>1, <1>5, LatestCommitIs
    <2>2. f[j].commit = CommitsTo(f, j)
      BY DEF Sound
    <2>3. {k \in CommitPoints(f) : k <= j} = CommitPoints(f)
      BY <2>1
    <2> QED
      BY <1>3, <2>1, <2>2, <2>3 DEF CommitsTo
  <1> QED
    BY <1>3, <1>4, <1>5

-----------------------------------------------------------------------------
(* Appending the next record of a group to a sound file.                    *)
Written(f, h, c, p) ==
  /\ p <= Len(f)
  /\ \A k \in 1..p : f[Len(f) - p + k] = GroupRecords(h, c)[k]

\* g is f with one record more.
OneMore(g, f, r) ==
  /\ g \in Seq(WholeRecords) /\ Len(g) = Len(f) + 1
  /\ Agree(g, f, Len(f))
  /\ g[Len(g)] = r

LEMMA AppendNext ==
  ASSUME NEW f \in Seq(WholeRecords), NEW h \in Handles, NEW c \in Nat \ {0},
         NEW p \in 0..(Size + 1), Written(f, h, c, p),
         NEW g, g = Append(f, GroupRecords(h, c)[p + 1])
  PROVE  OneMore(g, f, GroupRecords(h, c)[p + 1]) /\ Written(g, h, c, p + 1)
  <1> DEFINE r == GroupRecords(h, c)
  <1>1. p + 1 \in 1..(Size + 2) /\ p \in Nat /\ p <= Size + 1
    BY SizeTyped
  <1>2. r[p + 1] \in WholeRecords
    BY <1>1 DEF WholeRecords
  <1>3. /\ p <= Len(f)
        /\ \A k \in 1..p : f[Len(f) - p + k] = r[k]
    BY DEF Written
  <1>4. g = Append(f, r[p + 1])
    OBVIOUS
  <1> HIDE DEF r
  <1>5. /\ g \in Seq(WholeRecords) /\ Len(f) \in Nat /\ DOMAIN f = 1..Len(f)
        /\ Len(g) = Len(f) + 1
        /\ \A i \in 1..Len(f) : g[i] = f[i]
        /\ g[Len(f) + 1] = r[p + 1]
    BY <1>2, <1>4, AppendAt
  <1>6. p + 1 <= Len(g)
    BY <1>1, <1>3, <1>5
  <1>7. ASSUME NEW k \in 1..(p + 1) PROVE g[Len(g) - (p + 1) + k] = r[k]
    <2>1. Len(g) - (p + 1) + k = Len(f) - p + k
      BY <1>1, <1>5
    <2>2. CASE k = p + 1
      <3>1. Len(f) - p + k = Len(f) + 1
        BY <1>1, <1>5, <2>2
      <3> QED
        BY <1>5, <2>1, <2>2, <3>1
    <2>3. CASE k \in 1..p
      <3>1. Len(f) - p + k \in 1..Len(f)
        BY <1>1, <1>3, <1>5, <2>3
      <3> QED
        BY <1>3, <1>5, <2>1, <2>3, <3>1
    <2>4. k = p + 1 \/ k \in 1..p
      BY ONLY <1>1, k \in 1..(p + 1)
    <2> QED
      BY <2>2, <2>3, <2>4
  <1>8. Agree(g, f, Len(f))
    BY <1>5 DEF Agree
  <1> QED
    BY <1>5, <1>6, <1>7, <1>8 DEF Written, OneMore, r

(* The record appended has its predecessor in the group before it.          *)
LEMMA AppendOrder ==
  ASSUME NEW f \in Seq(WholeRecords), Sound(f), NEW h \in Handles, NEW c \in Nat \ {0},
         NEW p \in 0..(Size + 1), Written(f, h, c, p),
         NEW g, g = Append(f, GroupRecords(h, c)[p + 1]),
         NEW i \in DOMAIN g, g[i].type \in {"Version", "TxnCommit"}
  PROVE  i > 1 /\ g[i - 1].type # "TxnCommit"
  <1> DEFINE r == GroupRecords(h, c)
  <1>1. /\ Len(f) \in Nat /\ DOMAIN f = 1..Len(f)
        /\ Len(g) = Len(f) + 1 /\ DOMAIN g = 1..Len(g)
        /\ \A k \in 1..Len(f) : g[k] = f[k]
        /\ g[Len(f) + 1] = r[p + 1]
    BY AppendNext, WholeFile DEF OneMore, Agree
  <1>2. p \in Nat /\ p <= Size + 1 /\ c \in Nat
    BY SizeTyped
  <1>3. CASE i \in 1..Len(f)
    <2>1. i > 1 /\ f[i - 1].type # "TxnCommit"
      BY <1>1, <1>3 DEF Sound
    <2>2. i - 1 \in 1..Len(f)
      BY ONLY <1>1, <1>3, <2>1
    <2> QED
      BY <1>1, <2>1, <2>2
  <1>4. CASE i = Len(f) + 1
    <2>1. p # 0
      <3>1. SUFFICES ASSUME p = 0 PROVE FALSE
        OBVIOUS
      <3>2. r[1].type = "TxnBegin"
        BY <1>2, GroupTypes, SizeTyped
      <3> QED
        BY <1>1, <1>4, <3>1, <3>2
    <2>2. p \in 1..(Size + 2) /\ p # Size + 2
      BY <1>2, <2>1, SizeTyped
    <2>3. r[p].type # "TxnCommit"
      <3>1. p = 1 \/ p \in 2..(Size + 1)
        BY <1>2, <2>1, SizeTyped
      <3> QED
        BY <1>2, <2>2, <3>1, GroupTypes
    <2>4. p <= Len(f) /\ f[Len(f) - p + p] = r[p]
      <3>1. p \in 1..p
        BY <1>2, <2>1
      <3> QED
        BY <3>1 DEF Written
    <2>5. Len(f) - p + p = Len(f) /\ Len(f) \in 1..Len(f) /\ i - 1 = Len(f) /\ i > 1
      BY <1>1, <1>2, <1>4, <2>1, <2>4
    <2> QED
      BY <1>1, <2>3, <2>4, <2>5
  <1> QED
    BY <1>1, <1>3, <1>4

\* g is f with the next record of the group after the first p of them.
Grown(g, f, h, c, p) == g = Append(f, GroupRecords(h, c)[p + 1])

(* A record that ends no group leaves the file sound with the same commits. *)
LEMMA AppendInGroup ==
  ASSUME NEW f \in Seq(WholeRecords), Sound(f), NEW h \in Handles, NEW c \in Nat \ {0},
         NEW p \in 0..(Size + 1), Written(f, h, c, p), p # Size + 1,
         NEW g, Grown(g, f, h, c, p)
  PROVE  Sound(g) /\ CommitPoints(g) = CommitPoints(f)
  <1>0. g = Append(f, GroupRecords(h, c)[p + 1])
    BY DEF Grown
  <1>1. /\ g \in Seq(WholeRecords) /\ Len(g) = Len(f) + 1 /\ Agree(g, f, Len(f))
        /\ g[Len(g)] = GroupRecords(h, c)[p + 1]
    <2>1. OneMore(g, f, GroupRecords(h, c)[p + 1])
      BY <1>0, AppendNext
    <2> QED
      BY <2>1 DEF OneMore
  <1>2. /\ f \in Seq(FileRecords) /\ Len(f) \in Nat
        /\ g \in Seq(FileRecords) /\ TornAt(g) = {}
        /\ CommitPoints(f) = {j \in 1..Len(f) : f[j].type = "TxnCommit"}
        /\ CommitPoints(g) = {j \in 1..Len(g) : g[j].type = "TxnCommit"}
    BY <1>1, WholeFile
  <1>3. g[Len(g)].type # "TxnCommit"
    <2>1. p + 1 \in 1..(Size + 2) /\ (p + 1 = 1 \/ p + 1 \in 2..(Size + 1)) /\ c \in Nat
      BY SizeTyped
    <2> QED
      BY <1>1, <2>1, GroupTypes
  <1>4. CommitPoints(g) = CommitPoints(f)
    <2>1. \A j \in 1..Len(f) : j \in 1..Len(g) /\ g[j] = f[j]
      BY <1>1, <1>2 DEF Agree
    <2>2. \A j \in 1..Len(g) : j # Len(g) => j \in 1..Len(f)
      BY <1>1, <1>2
    <2> QED
      BY <1>2, <1>3, <2>1, <2>2
  <1>5. ASSUME NEW j \in CommitPoints(g)
        PROVE  /\ \E a \in Handles : Block(g, j, a, g[j].commit)
               /\ g[j].commit = CommitsTo(g, j)
    <2>1. j \in CommitPoints(f) /\ j \in 1..Len(f)
      BY <1>2, <1>4
    <2>2. /\ CommitsTo(g, j) = CommitsTo(f, j)
          /\ \A a, k : Block(g, j, a, k) <=> Block(f, j, a, k)
      BY ONLY <1>1, <1>2, <2>1, SamePrefix
    <2>3. g[j] = f[j]
      BY <1>1, <2>1 DEF Agree
    <2> QED
      BY <2>1, <2>2, <2>3 DEF Sound
  <1>6. \A i \in DOMAIN g :
          g[i].type \in {"Version", "TxnCommit"} => i > 1 /\ g[i - 1].type # "TxnCommit"
    BY <1>0, AppendOrder
  <1> QED
    BY <1>2, <1>4, <1>5, <1>6 DEF Sound

(* The TXN_COMMIT makes the group of h the last one.                        *)
LEMMA AppendCommit ==
  ASSUME NEW f \in Seq(WholeRecords), Sound(f), NEW h \in Handles, NEW c \in Nat \ {0},
         Written(f, h, c, Size + 1), c = Cardinality(CommitPoints(f)) + 1,
         NEW g, Grown(g, f, h, c, Size + 1)
  PROVE  /\ Sound(g)
         /\ CommitPoints(g) = CommitPoints(f) \union {Len(g)}
         /\ Block(g, Len(g), h, c) /\ g[Len(g)].commit = c
  <1>0. Size + 1 \in 0..(Size + 1) /\ (Size + 1) + 1 = Size + 2 /\ c \in Nat
    BY SizeTyped
  <1>1. /\ g \in Seq(WholeRecords) /\ Len(g) = Len(f) + 1 /\ Agree(g, f, Len(f))
        /\ g[Len(g)] = GroupRecords(h, c)[Size + 2]
        /\ Written(g, h, c, Size + 2)
    <2>1. g = Append(f, GroupRecords(h, c)[(Size + 1) + 1])
      BY DEF Grown
    <2>2. /\ OneMore(g, f, GroupRecords(h, c)[(Size + 1) + 1])
          /\ Written(g, h, c, (Size + 1) + 1)
      BY <1>0, <2>1, AppendNext
    <2> QED
      BY <1>0, <2>2 DEF OneMore
  <1>2. /\ f \in Seq(FileRecords) /\ Len(f) \in Nat
        /\ g \in Seq(FileRecords) /\ TornAt(g) = {}
        /\ CommitPoints(f) = {j \in 1..Len(f) : f[j].type = "TxnCommit"}
        /\ CommitPoints(g) = {j \in 1..Len(g) : g[j].type = "TxnCommit"}
    BY <1>1, WholeFile
  <1>3. g[Len(g)].type = "TxnCommit" /\ g[Len(g)].commit = c
    <2>1. Size + 2 \in 1..(Size + 2)
      BY SizeTyped
    <2> QED
      BY <1>0, <1>1, <2>1, GroupTypes
  <1>4. CommitPoints(g) = CommitPoints(f) \union {Len(g)}
    <2>1. \A j \in 1..Len(f) : j \in 1..Len(g) /\ g[j] = f[j]
      BY <1>1, <1>2 DEF Agree
    <2>2. \A j \in 1..Len(g) : j # Len(g) => j \in 1..Len(f)
      BY <1>1, <1>2
    <2>3. Len(g) \in 1..Len(g)
      BY <1>1, <1>2
    <2> QED
      BY <1>2, <1>3, <2>1, <2>2, <2>3
  <1>5. Block(g, Len(g), h, c)
    <2>1. Size + 2 <= Len(g)
      BY <1>1 DEF Written
    <2>2. Len(g) \in (Size + 2)..Len(g)
      BY <1>1, <1>2, <2>1, SizeTyped
    <2> QED
      BY <1>1, <2>2 DEF Block, Written
  <1>6. CommitsTo(g, Len(g)) = c
    <2>1. {k \in CommitPoints(g) : k <= Len(g)} = CommitPoints(f) \union {Len(g)}
      BY <1>1, <1>2, <1>4
    <2>2. Len(g) \notin CommitPoints(f)
      BY <1>1, <1>2
    <2>3. Cardinality(CommitPoints(f) \union {Len(g)}) = Cardinality(CommitPoints(f)) + 1
      BY <2>2, SoundLatest, FS_AddElement
    <2> QED
      BY <2>1, <2>3 DEF CommitsTo
  <1>7. ASSUME NEW j \in CommitPoints(g)
        PROVE  /\ \E a \in Handles : Block(g, j, a, g[j].commit)
               /\ g[j].commit = CommitsTo(g, j)
    <2>1. CASE j = Len(g)
      BY <1>3, <1>5, <1>6, <2>1
    <2>2. CASE j \in CommitPoints(f)
      <3>1. j \in 1..Len(f)
        BY <1>2, <2>2
      <3>2. /\ CommitsTo(g, j) = CommitsTo(f, j)
            /\ \A a, k : Block(g, j, a, k) <=> Block(f, j, a, k)
        BY ONLY <1>1, <1>2, <3>1, SamePrefix
      <3>3. g[j] = f[j]
        BY <1>1, <3>1 DEF Agree
      <3> QED
        BY <2>2, <3>2, <3>3 DEF Sound
    <2> QED
      BY <1>4, <2>1, <2>2
  <1>8. \A i \in DOMAIN g :
          g[i].type \in {"Version", "TxnCommit"} => i > 1 /\ g[i - 1].type # "TxnCommit"
    <2> DEFINE p == Size + 1
    <2>1. g = Append(f, GroupRecords(h, c)[p + 1])
      BY DEF Grown
    <2>2. p \in 0..(Size + 1) /\ Written(f, h, c, p)
      BY <1>0
    <2> HIDE DEF p
    <2> QED
      BY ONLY <2>1, <2>2, AppendOrder, f \in Seq(WholeRecords), Sound(f), h \in Handles,
              c \in Nat \ {0}
  <1> QED
    BY <1>2, <1>3, <1>4, <1>5, <1>7, <1>8 DEF Sound

-----------------------------------------------------------------------------
(* Files that have grown.                                                   *)

\* g is f with perhaps more behind it.
Grows(g, f) ==
  /\ g \in Seq(FileRecords) /\ f \in Seq(FileRecords)
  /\ Len(f) <= Len(g) /\ Agree(g, f, Len(f))

(* A torn record stays where it is, so it is the last one only as long as   *)
(* nothing comes behind it.                                                 *)
LEMMA GrownTears ==
  ASSUME NEW f, NEW g, Grows(g, f), TornAt(g) \subseteq {Len(g)}
  PROVE  /\ TornAt(f) \subseteq {Len(f)}
         /\ Len(f) < Len(g) => TornAt(f) = {}
  <1>1. /\ Len(f) \in Nat /\ DOMAIN f = 1..Len(f)
        /\ Len(g) \in Nat /\ DOMAIN g = 1..Len(g) /\ Len(f) <= Len(g)
        /\ \A i \in 1..Len(f) : g[i] = f[i]
    BY DEF Grows, Agree
  <1>2. ASSUME NEW i \in TornAt(f) PROVE i = Len(f) /\ Len(f) = Len(g)
    <2>1. i \in 1..Len(f) /\ f[i].type = "Torn"
      BY <1>1 DEF TornAt
    <2>2. i \in 1..Len(g)
      BY ONLY <1>1, <2>1
    <2>3. g[i] = f[i]
      BY <1>1, <2>1
    <2>4. i = Len(g)
      BY <1>1, <2>1, <2>2, <2>3 DEF TornAt
    <2>5. Len(f) \in Nat /\ Len(g) \in Nat /\ Len(f) <= Len(g) /\ i \in 1..Len(f)
      BY <1>1, <2>1
    <2> HIDE DEF TornAt
    <2> QED
      BY ONLY <2>4, <2>5
  <1>3. TornAt(f) \subseteq {Len(f)}
    BY <1>2
  <1>4. ASSUME Len(f) < Len(g) PROVE TornAt(f) = {}
    <2>1. Len(f) \in Nat /\ Len(g) \in Nat
      BY <1>1
    <2>2. Len(f) # Len(g)
      BY ONLY <1>4, <2>1
    <2> QED
      BY <1>2, <2>2
  <1> QED
    BY <1>3, <1>4

(* What a process holds in the file it still holds when the file has grown. *)
LEMMA HoldsGrows ==
  ASSUME NEW f, NEW g, Grows(g, f), NEW a, NEW n \in Nat, n <= Len(f), Holds(f, a, n)
  PROVE  \A m \in Nat : n <= m => Holds(g, a, m)
  <1>1. /\ Len(f) \in Nat /\ DOMAIN f = 1..Len(f)
        /\ f \in Seq(FileRecords) /\ g \in Seq(FileRecords) /\ Agree(g, f, Len(f))
    BY DEF Grows
  <1>2. PICK j \in CommitPoints(f) : j <= n /\ Block(f, j, a, f[j].commit)
    BY DEF Holds
  <1>3. j \in 1..Len(f)
    BY <1>1, CommitPointsInDomain
  <1>4. /\ j \in CommitPoints(g) <=> j \in CommitPoints(f)
        /\ \A b, c : Block(g, j, b, c) <=> Block(f, j, b, c)
    BY ONLY <1>1, <1>3, SamePrefix
  <1>5. g[j] = f[j]
    BY <1>1, <1>3 DEF Agree
  <1>6. \A m \in Nat : n <= m => j <= m
    BY <1>2, <1>3
  <1> QED
    BY <1>2, <1>4, <1>5, <1>6 DEF Holds

\* g is f, or f with a torn record behind it.
MayTear(g, f) == g = f \/ \E m \in Nat : g = Append(f, Torn(m))

LEMMA TearGrows ==
  ASSUME NEW f \in Seq(FileRecords), NEW g, MayTear(g, f)
  PROVE  /\ Grows(g, f)
         /\ Len(g) = Len(f) \/ (Len(g) = Len(f) + 1 /\ g[Len(f) + 1].type = "Torn")
  <1>1. CASE g = f
    <2>1. Len(f) \in Nat
      OBVIOUS
    <2> QED
      BY <1>1, <2>1 DEF Grows, Agree
  <1>2. CASE \E m \in Nat : g = Append(f, Torn(m))
    <2>1. PICK m \in Nat : g = Append(f, Torn(m))
      BY <1>2
    <2>2. Torn(m) \in FileRecords /\ Torn(m).type = "Torn"
      BY TornFields DEF FileRecords
    <2>3. /\ g \in Seq(FileRecords) /\ Len(f) \in Nat /\ Len(g) = Len(f) + 1
          /\ \A i \in 1..Len(f) : g[i] = f[i]
          /\ g[Len(f) + 1] = Torn(m)
      BY <2>1, <2>2, AppendAt
    <2> QED
      BY <2>2, <2>3 DEF Grows, Agree
  <1> QED
    BY <1>1, <1>2 DEF MayTear

(* An interrupted write leaves a sound file sound, with the same groups.    *)
LEMMA TearSound ==
  ASSUME NEW f \in Seq(FileRecords), Sound(f), NEW g, MayTear(g, f),
         TornAt(g) \subseteq {Len(g)}
  PROVE  /\ Sound(g) /\ CommitPoints(g) = CommitPoints(f)
         /\ \A j \in CommitPoints(f) : /\ g[j] = f[j]
                                       /\ \A a, c : Block(g, j, a, c) <=> Block(f, j, a, c)
  <1>1. /\ Grows(g, f)
        /\ Len(g) = Len(f) \/ (Len(g) = Len(f) + 1 /\ g[Len(f) + 1].type = "Torn")
    BY TearGrows
  <1>2. /\ g \in Seq(FileRecords) /\ Agree(g, f, Len(f)) /\ Len(f) \in 0..Len(f)
        /\ Len(f) \in Nat /\ DOMAIN f = 1..Len(f)
    BY <1>1 DEF Grows
  <1>3. \/ Len(g) = Len(f)
        \/ Len(g) = Len(f) + 1 /\ g[Len(f) + 1].type = "Torn" /\ Len(f) \notin TornAt(f)
    BY <1>1, <1>2, GrownTears
  <1>4. Sound(g) /\ CommitPoints(g) = {j \in CommitPoints(f) : j <= Len(f)}
    BY <1>2, <1>3, SoundPart
  <1>5. ASSUME NEW j \in CommitPoints(f)
        PROVE  /\ j \in 1..Len(f) /\ g[j] = f[j]
               /\ \A a, c : Block(g, j, a, c) <=> Block(f, j, a, c)
    <2>1. j \in 1..Len(f)
      BY <1>2, CommitPointsInDomain
    <2>2. g[j] = f[j]
      BY <1>2, <2>1 DEF Agree
    <2>3. \A a, c : Block(g, j, a, c) <=> Block(f, j, a, c)
      BY ONLY <1>2, <2>1, SamePrefix, f \in Seq(FileRecords)
    <2> QED
      BY <2>1, <2>2, <2>3
  <1> QED
    BY <1>4, <1>5

-----------------------------------------------------------------------------
(* Steps of h that do not make the path and write no whole record.          *)

\* The memory of h becomes m; a create given up before its superblock is lost,
\* an append given up may leave a torn record, a commit ends with the superblock.
Move(h, m) ==
  /\ proc' = [proc EXCEPT ![h] = m]
  /\ UNCHANGED <<command, sole, raced>>
  /\ disk' = disk \/ (proc[h].at = "patch" /\ disk' = "store")
  /\ file' = file \/ (proc[h].at = "append" /\ MayTear(file', file))
  /\ late' \in {late, late \union {h}}
  /\ lost' <=> (lost \/ proc[h].at = "header")
  /\ lost' \in BOOLEAN /\ faults' \in 0..MaxFaults

\* What the invariants ask of the new memory.
Allowed(h, m) ==
  /\ m \in Memory
  /\ m.at \in {"start", "load", "loading", "open", "checking", "patch"}
  /\ m.exit # "none" => m.at = "start"
  /\ m.pos = 0
  /\ m.at = "checking" => command[h] = "check"
  /\ m.at = "patch" => command[h] = "apply"
  /\ disk = "missing" => m.at = "start" /\ m.exit \in {"none", "missing", "failed", "died"}
  /\ ~raced => ~m.cut /\ (m.at \in {"open", "checking", "patch"} => disk = "store")
  /\ Undisturbed =>
       /\ Author(h) => m.exit \in {"ok", "died"} \/ m.at = "patch" \/ h \in late'
       /\ \/ command[h] = "apply" /\ m.exit = "ok"
          \/ m.at = "patch"
          \/ late' # late
          => Holds(file, h, Len(file))
       /\ m.at \in {"loading", "checking"} =>
            m.mark <= Len(file) /\ \A a \in m.owed : Holds(file, a, m.mark)

(* What the type invariant says of the variables but proc, typed apart.     *)
LEMMA TypedKept ==
  ASSUME proc' \in [Handles -> Memory], command' \in Mixes, file' \in Seq(FileRecords),
         disk' \in {"missing", "short", "store"},
         disk' = "missing" =>
           file' = <<>> /\ \A h \in Handles : proc'[h].at \in {"start", "create"},
         sole' \in BOOLEAN, raced' \in BOOLEAN, lost' \in BOOLEAN,
         late' \subseteq Handles, faults' \in 0..MaxFaults
  PROVE  InvTyped'
  <1>1. \A g \in Handles : proc'[g] \in Memory
    OBVIOUS
  <1>2. ASSUME NEW i \in DOMAIN file'
        PROVE  /\ file'[i].type \in {"TxnBegin", "Version", "TxnCommit", "Torn"}
               /\ file'[i].commit \in Nat /\ file'[i].missing \in Nat
    <2>1. file'[i] \in FileRecords
      BY <1>2
    <2> QED
      BY <2>1, FileTypes
  <1> QED
    BY <1>1, <1>2 DEF InvTyped, TypeOK, Memory, Places, Exits

\* The same before the step.
LEMMA TypedNow ==
  ASSUME IInv
  PROVE  /\ proc \in [Handles -> Memory] /\ command \in Mixes /\ file \in Seq(FileRecords)
         /\ disk \in {"missing", "short", "store"}
         /\ disk = "missing" =>
              file = <<>> /\ \A h \in Handles : proc[h].at \in {"start", "create"}
         /\ sole \in BOOLEAN /\ raced \in BOOLEAN /\ lost \in BOOLEAN
         /\ late \subseteq Handles /\ faults \in 0..MaxFaults
         /\ Len(file) \in Nat /\ DOMAIN file = 1..Len(file)
  BY DEF IInv, InvTyped, TypeOK

\* Nothing that disturbs a file is ever undone by growing it.
LEMMA DisturbedStays ==
  ASSUME Grows(file', file), raced' \in BOOLEAN, sole' \in BOOLEAN,
         sole' => sole, ~raced' => ~raced, Undisturbed'
  PROVE  Undisturbed
  BY GrownTears DEF Undisturbed

(* What every process but h shows it still shows when the file has grown.   *)
LEMMA OthersShow ==
  ASSUME IInv, Undisturbed, Grows(file', file), command' = command, NEW g \in Handles,
         proc'[g] = proc[g]
  PROVE  /\ \/ command[g] = "apply" /\ proc'[g].exit = "ok"
            \/ proc'[g].at \in {"reread", "patch"}
            \/ g \in late
            => Holds(file', g, Len(file'))
         /\ proc'[g].at \in {"loading", "checking"} =>
              /\ proc'[g].mark <= Len(file')
              /\ \A a \in proc'[g].owed : Holds(file', a, proc'[g].mark)
  <1>1. /\ Len(file) \in Nat /\ Len(file') \in Nat /\ Len(file) <= Len(file')
        /\ proc[g].mark \in Nat
    BY TypedNow DEF Memory, Grows
  <1>2. ASSUME \/ command[g] = "apply" /\ proc[g].exit = "ok"
               \/ proc[g].at \in {"reread", "patch"}
               \/ g \in late
        PROVE  Holds(file', g, Len(file'))
    <2>1. Holds(file, g, Len(file))
      BY <1>2 DEF IInv, InvShown
    <2> QED
      BY <1>1, <2>1, HoldsGrows
  <1>3. ASSUME proc[g].at \in {"loading", "checking"}
        PROVE  /\ proc[g].mark <= Len(file')
               /\ \A a \in proc[g].owed : Holds(file', a, proc[g].mark)
    <2>1. /\ proc[g].mark <= Len(file)
          /\ \A a \in proc[g].owed : Holds(file, a, proc[g].mark)
      BY <1>3 DEF IInv, InvShown
    <2>2. \A a \in proc[g].owed : Holds(file', a, proc[g].mark)
      BY <1>1, <2>1, HoldsGrows
    <2> QED
      BY <1>1, <2>1, <2>2
  <1> QED
    BY <1>2, <1>3

(* A step that moves h keeps the invariant.                                 *)
LEMMA MoveKeeps ==
  ASSUME IInv, NEW h \in Handles, NEW m, Move(h, m), Allowed(h, m)
  PROVE  IInv'
  <1>1. /\ proc' \in [Handles -> Memory] /\ proc'[h] = m
        /\ \A g \in Handles : g # h => proc'[g] = proc[g]
        /\ proc \in [Handles -> Memory]
    BY TypedNow DEF Move, Allowed
  <1>2. /\ command' = command /\ sole' = sole /\ raced' = raced
        /\ disk' = disk \/ (proc[h].at = "patch" /\ disk' = "store")
        /\ file' = file \/ (proc[h].at = "append" /\ MayTear(file', file))
        /\ late \subseteq late' /\ late' \subseteq Handles
        /\ \A g \in Handles : g # h /\ g \in late' => g \in late
        /\ lost' <=> (lost \/ proc[h].at = "header")
    BY TypedNow DEF Move
  <1>3. /\ m.at \notin {"create", "header", "append", "reread"}
        /\ m.exit # "none" => m.at = "start"
        /\ m.pos = 0
    BY DEF Allowed
  <1>4. Grows(file', file) /\ MayTear(file', file)
    BY <1>2, TypedNow, TearGrows DEF MayTear
  <1>5. Undisturbed' => Undisturbed
    BY <1>2, <1>4, TypedNow, DisturbedStays
  <1>6. disk' = "missing" =>
          /\ file' = <<>>
          /\ \A g \in Handles : /\ proc'[g].at \in {"start", "create"}
                                /\ proc'[g].exit \in {"none", "missing", "failed", "died"}
    <2>1. SUFFICES ASSUME disk' = "missing"
                   PROVE  /\ file' = <<>>
                          /\ \A g \in Handles :
                               /\ proc'[g].at \in {"start", "create"}
                               /\ proc'[g].exit \in {"none", "missing", "failed", "died"}
      OBVIOUS
    <2>2. disk = "missing" /\ proc[h].at # "append" /\ file = <<>>
      BY <1>2, <2>1, TypedNow
    <2> QED
      BY <1>1, <1>2, <2>2 DEF IInv, InvPath, Allowed
  <1>7. InvTyped'
    <2>1. file' \in Seq(FileRecords)
      BY <1>4 DEF Grows
    <2>2. command' \in Mixes /\ disk' \in {"missing", "short", "store"}
          /\ sole' \in BOOLEAN /\ raced' \in BOOLEAN
      BY <1>2, TypedNow
    <2>3. lost' \in BOOLEAN /\ faults' \in 0..MaxFaults
      BY DEF Move
    <2> QED
      BY <1>1, <1>2, <1>6, <2>1, <2>2, <2>3, TypedKept
  <1>8. InvPlaces'
    <2>1. SUFFICES ASSUME NEW g \in Handles
                   PROVE  /\ proc'[g].exit # "none" => proc'[g].at = "start"
                          /\ proc'[g].at # "append" => proc'[g].pos = 0
                          /\ proc'[g].at \in {"append", "reread", "patch"} => command[g] = "apply"
                          /\ proc'[g].at = "checking" => command[g] = "check"
      BY <1>2 DEF InvPlaces
    <2>2. CASE g = h
      BY <1>1, <1>3, <2>2 DEF Allowed
    <2>3. CASE g # h
      <3>1. proc'[g] = proc[g]
        BY <1>1, <2>3
      <3> QED
        BY <3>1 DEF IInv, InvPlaces
    <2> QED
      BY <2>2, <2>3
  <1>9. InvPath'
    <2>1. ASSUME disk' = "short" PROVE lost' \/ \E g \in Handles : proc'[g].at = "header"
      <3>1. disk = "short"
        BY <1>2, <2>1
      <3>2. lost \/ \E g \in Handles : proc[g].at = "header"
        BY <3>1 DEF IInv, InvPath
      <3> QED
        BY <1>1, <1>2, <3>2
    <2> QED
      BY <1>6, <2>1 DEF InvPath
  <1>10. InvCreate'
    <2>1. SUFFICES ASSUME ~raced
          PROVE  /\ \A g, k \in Handles :
                      proc'[g].at \in {"create", "header"} /\ proc'[k].at \in {"create", "header"}
                      => g = k
                 /\ \A g \in Handles :
                      /\ proc'[g].at = "create" => disk' = "missing"
                      /\ proc'[g].at = "header" => disk' = "short" /\ ~lost'
                      /\ proc'[g].at \in {"open", "checking", "append", "reread", "patch"}
                           => disk' = "store"
                      /\ ~proc'[g].cut
                 /\ lost' => disk' = "short"
      BY <1>2 DEF InvCreate
    <2>2. disk' = disk
      BY <1>2, <2>1 DEF IInv, InvCreate
    <2>3. \A g \in Handles : proc'[g].at \in {"create", "header"} => g # h /\ proc'[g] = proc[g]
      BY <1>1, <1>3
    <2>4. ASSUME NEW g \in Handles
          PROVE  /\ ~proc'[g].cut
                 /\ proc'[g].at \in {"open", "checking", "append", "reread", "patch"}
                      => disk = "store"
      <3>1. CASE g = h
        BY <1>1, <1>3, <2>1, <3>1 DEF Allowed
      <3>2. CASE g # h
        <4>1. proc'[g] = proc[g]
          BY <1>1, <3>2
        <4> QED
          BY <2>1, <4>1 DEF IInv, InvCreate
      <3> QED
        BY <3>1, <3>2
    <2> QED
      BY <1>2, <2>1, <2>2, <2>3, <2>4 DEF IInv, InvCreate
  <1>11. InvWriter'
    <2>1. SUFFICES ASSUME Undisturbed, Undisturbed' PROVE InvWriter'
      BY <1>5 DEF InvWriter
    <2>2. Sound(file) /\ TornAt(file') \subseteq {Len(file')}
      BY <2>1 DEF IInv, InvWriter, Undisturbed
    <2>3. /\ Sound(file') /\ CommitPoints(file') = CommitPoints(file)
          /\ \A j \in CommitPoints(file) :
               /\ file'[j] = file[j]
               /\ \A a, c : Block(file', j, a, c) <=> Block(file, j, a, c)
      BY <1>4, <2>2, TypedNow, TearSound
    <2>4. \A g \in Handles : proc'[g].at = "append" =>
             g # h /\ proc'[g] = proc[g] /\ Records(g)' = Records(g)
      BY <1>1, <1>3 DEF Records
    <2>5. \A g \in Handles : proc'[g].at = "append" => file' = file
      BY <1>2, <2>1, <2>4 DEF IInv, InvWriter
    <2>6. \A a \in Handles : Author(a) => Author(a)'
      <3>1. SUFFICES ASSUME NEW a \in Handles, Author(a) PROVE Author(a)'
        OBVIOUS
      <3>2. CASE a = h
        BY <1>1, <1>2, <2>1, <3>1, <3>2 DEF Allowed, Author
      <3>3. CASE a # h
        BY <1>1, <1>2, <3>1, <3>3 DEF Author
      <3> QED
        BY <3>2, <3>3
    <2>7. \A g, k \in Handles : proc'[g].at = "append" /\ proc'[k].at = "append" => g = k
      BY <2>1, <2>4 DEF IInv, InvWriter
    <2>8. ASSUME NEW g \in Handles, proc'[g].at = "append"
          PROVE  /\ proc'[g].pos <= Len(file')
                 /\ \A k \in 1..proc'[g].pos : file'[Len(file') - proc'[g].pos + k] = Records(g)'[k]
                 /\ proc'[g].head = Cardinality(CommitPoints(file'))
      BY <2>1, <2>4, <2>5, <2>8 DEF IInv, InvWriter
    <2>9. \A j \in CommitPoints(file') :
            \E a \in Handles : Author(a)' /\ Block(file', j, a, file'[j].commit)
      BY <2>1, <2>3, <2>6 DEF IInv, InvWriter
    <2> QED
      BY <2>3, <2>7, <2>8, <2>9 DEF InvWriter
  <1>12. InvShown'
    <2>1. SUFFICES ASSUME Undisturbed, NEW g \in Handles
          PROVE  /\ \/ command[g] = "apply" /\ proc'[g].exit = "ok"
                    \/ proc'[g].at \in {"reread", "patch"}
                    \/ g \in late'
                    => Holds(file', g, Len(file'))
                 /\ proc'[g].at \in {"loading", "checking"} =>
                      /\ proc'[g].mark <= Len(file')
                      /\ \A a \in proc'[g].owed : Holds(file', a, proc'[g].mark)
      BY <1>2, <1>5 DEF InvShown, Holds, Block
    <2>2. CASE g = h
      <3>1. /\ Len(file) \in Nat /\ Len(file') \in Nat /\ Len(file) <= Len(file')
            /\ m.mark \in Nat
        BY <1>4, TypedNow DEF Memory, Grows, Allowed
      <3>2. ASSUME (command[h] = "apply" /\ m.exit = "ok") \/ m.at = "patch" \/ h \in late'
            PROVE  Holds(file', h, Len(file'))
        <4>1. Holds(file, h, Len(file))
          <5>1. CASE late' = late /\ h \in late'
            BY <2>1, <5>1 DEF IInv, InvShown
          <5>2. CASE late' # late \/ ~(h \in late')
            BY <2>1, <3>2, <5>2 DEF Allowed
          <5> QED
            BY <5>1, <5>2
        <4> QED
          BY <1>4, <3>1, <4>1, HoldsGrows
      <3>3. ASSUME m.at \in {"loading", "checking"}
            PROVE  /\ m.mark <= Len(file')
                   /\ \A a \in m.owed : Holds(file', a, m.mark)
        <4>1. m.mark <= Len(file) /\ \A a \in m.owed : Holds(file, a, m.mark)
          BY <2>1, <3>3 DEF Allowed
        <4>2. \A a \in m.owed : Holds(file', a, m.mark)
          BY <1>4, <3>1, <4>1, HoldsGrows
        <4> QED
          BY <3>1, <4>1, <4>2
      <3> QED
        BY <1>1, <1>3, <2>2, <3>2, <3>3
    <2>3. CASE g # h
      BY <1>1, <1>2, <1>4, <2>1, <2>3, OthersShow
    <2> QED
      BY <2>2, <2>3
  <1> QED
    BY <1>7, <1>8, <1>9, <1>10, <1>11, <1>12 DEF IInv


(* The memory of a process has the fields that Fresh has.                   *)
LEMMA MemoryFields ==
  ASSUME IInv, NEW h \in Handles
  PROVE  /\ proc[h] \in Memory /\ Fresh \in Memory
         /\ \A where \in Places : [proc[h] EXCEPT !.at = where] \in Memory
         /\ \A how \in Exits : [Fresh EXCEPT !.exit = how] \in Memory
         /\ Len(file) \in Nat
  <1>1. proc[h] \in Memory /\ Len(file) \in Nat
    BY TypedNow
  <1>2. Fresh \in Memory
    BY SizeTyped DEF Memory, Fresh, Places, Exits
  <1>3. \A m \in Memory, where \in Places : [m EXCEPT !.at = where] \in Memory
    BY DEF Memory
  <1>4. \A m \in Memory, how \in Exits : [m EXCEPT !.exit = how] \in Memory
    BY DEF Memory
  <1> QED
    BY <1>1, <1>2, <1>3, <1>4

(* Faults stay in their bounds when one happens or none.                    *)
LEMMA FaultsTyped ==
  ASSUME IInv
  PROVE  /\ faults \in 0..MaxFaults /\ lost \in BOOLEAN
         /\ Fault => faults' \in 0..MaxFaults
  BY SizeTyped, TypedNow DEF Fault

\* The command of h is over, and what else may have changed with it.
Over(h, how) ==
  /\ Ends(h, how) /\ how \in Exits \ {"none"}
  /\ UNCHANGED <<command, sole, raced>>
  /\ disk' = disk \/ (proc[h].at = "patch" /\ disk' = "store")
  /\ file' = file \/ (proc[h].at = "append" /\ MayTear(file', file))
  /\ late' \in {late, late \union {h}}
  /\ lost' <=> (lost \/ proc[h].at = "header")
  /\ lost' \in BOOLEAN /\ faults' \in 0..MaxFaults

(* A command that ends forgets all but its exit status.                     *)
LEMMA EndKeeps ==
  ASSUME IInv, NEW h \in Handles, NEW how, proc[h].exit = "none", Over(h, how),
         disk = "missing" => how \in {"missing", "failed", "died"},
         Undisturbed =>
           /\ proc[h].at \in {"reread", "patch"} => how \in {"ok", "died"} \/ h \in late'
           /\ (command[h] = "apply" /\ how = "ok") \/ late' # late => Holds(file, h, Len(file))
  PROVE  IInv'
  <1> DEFINE m == [Fresh EXCEPT !.exit = how]
  <1>1. m \in Memory /\ proc[h] \in Memory
    BY MemoryFields DEF Over
  <1>2. /\ m.at = "start" /\ m.exit = how /\ m.pos = 0 /\ m.cut = FALSE
        /\ m.owed = {} /\ m.mark = 0
    BY DEF Fresh
  <1>3. proc' = [proc EXCEPT ![h] = m]
    BY DEF Over, Ends
  <1> HIDE DEF m
  <1>4. Move(h, m)
    BY <1>3 DEF Move, Over
  <1>5. Author(h) => proc[h].at \in {"reread", "patch"} \/ h \in late
    BY DEF Author
  <1>6. late \subseteq late'
    BY DEF Over
  <1>7. Allowed(h, m)
    BY <1>1, <1>2, <1>5, <1>6 DEF Allowed
  <1> QED
    BY <1>4, <1>7, MoveKeeps

(* A command that goes on without opening or appending.                     *)
LEMMA GoKeeps ==
  ASSUME IInv, NEW h \in Handles, NEW where \in {"load", "patch"},
         proc[h].exit = "none", proc[h].at \in {"start", "header", "reread"},
         disk # "missing", proc[h].at = "reread" <=> where = "patch",
         where = "patch" => disk = "store", Goes(h, where),
         UNCHANGED <<disk, file, command, sole, raced, late>>,
         lost' <=> (lost \/ proc[h].at = "header"),
         lost' \in BOOLEAN, faults' \in 0..MaxFaults
  PROVE  IInv'
  <1> DEFINE m == [proc[h] EXCEPT !.at = where]
  <1>1. proc[h] \in Memory /\ m \in Memory
    BY MemoryFields DEF Places
  <1>2. m.at = where /\ m.exit = "none" /\ m.pos = 0 /\ m.cut = proc[h].cut
    BY <1>1 DEF IInv, InvPlaces, Memory
  <1>3. proc' = [proc EXCEPT ![h] = m]
    BY DEF Goes
  <1> HIDE DEF m
  <1>4. Move(h, m)
    BY <1>3 DEF Move
  <1>5. ~raced => ~m.cut
    BY <1>2 DEF IInv, InvCreate
  <1>6. Undisturbed =>
          /\ Author(h) => m.at = "patch" \/ h \in late'
          /\ m.at = "patch" => Holds(file, h, Len(file))
    BY <1>2 DEF IInv, InvShown, Author
  <1>7. where = "patch" => command[h] = "apply"
    BY DEF IInv, InvPlaces
  <1>8. Allowed(h, m)
    BY <1>1, <1>2, <1>5, <1>6, <1>7 DEF Allowed
  <1> QED
    BY <1>4, <1>8, MoveKeeps

-----------------------------------------------------------------------------
(* What a reader may get.                                                   *)
LEMMA ViewIs ==
  ASSUME IInv, NEW h \in Handles, NEW v \in Views(h)
  PROVE  /\ v \in Seq(FileRecords)
         /\ \E n \in 0..Len(file) :
              /\ proc[h].mark <= n
              /\ Agree(v, file, n)
              /\ \/ Len(v) = n
                 \/ Len(v) = n + 1 /\ v[n + 1].type = "Torn" /\ n < Len(file)
  <1>1. /\ file \in Seq(FileRecords)
        /\ Len(file) \in Nat /\ proc[h].mark \in Nat /\ Torn(1) \in FileRecords
    BY TypedNow DEF Memory, FileRecords
  <1>2. PICK n \in proc[h].mark..Len(file) :
           \/ v = SubSeq(file, 1, n)
           \/ v = Append(SubSeq(file, 1, n), Torn(1)) /\ n < Len(file)
    <2>1. \A n \in proc[h].mark..(Len(file) - 1) : n \in proc[h].mark..Len(file) /\ n < Len(file)
      BY <1>1
    <2> QED
      BY <2>1 DEF Views
  <1> DEFINE u == SubSeq(file, 1, n)
  <1>3. n \in 0..Len(file) /\ proc[h].mark <= n
    BY <1>1
  <1>4. u \in Seq(FileRecords) /\ Len(u) = n /\ \A i \in 1..n : u[i] = file[i]
    BY <1>1, <1>3
  <1> HIDE DEF u
  <1>5. CASE v = u
    <2>1. Agree(v, file, n)
      BY <1>1, <1>3, <1>4, <1>5 DEF Agree
    <2> QED
      BY <1>3, <1>4, <1>5, <2>1
  <1>6. CASE v = Append(u, Torn(1)) /\ n < Len(file)
    <2>1. /\ v \in Seq(FileRecords) /\ Len(v) = n + 1 /\ v[n + 1] = Torn(1)
          /\ \A i \in 1..n : v[i] = u[i]
      BY <1>1, <1>4, <1>6, AppendAt
    <2>2. Agree(v, file, n)
      BY <1>1, <1>3, <1>4, <2>1 DEF Agree
    <2>3. v[n + 1].type = "Torn"
      BY <2>1, TornFields
    <2> QED
      BY <1>3, <1>6, <2>1, <2>2, <2>3
  <1> QED
    BY <1>2, <1>5, <1>6 DEF u

(* What a read of an undisturbed file returns is readable, and has what the *)
(* file has up to some place behind where its end was when it began.        *)
LEMMA ViewSound ==
  ASSUME IInv, Undisturbed, NEW h \in Handles, NEW v \in Views(h)
  PROVE  /\ Sound(v) /\ Readable(v)
         /\ \E n \in 0..Len(file) :
              /\ proc[h].mark <= n
              /\ Agree(v, file, n)
              /\ CommitPoints(v) = {j \in CommitPoints(file) : j <= n}
  <1>1. /\ file \in Seq(FileRecords) /\ Sound(file) /\ Len(file) \in Nat
        /\ TornAt(file) \subseteq {Len(file)}
    BY TypedNow DEF IInv, InvWriter, Undisturbed
  <1>2. v \in Seq(FileRecords)
    BY ViewIs
  <1>3. PICK n \in 0..Len(file) :
              /\ proc[h].mark <= n
              /\ Agree(v, file, n)
              /\ \/ Len(v) = n
                 \/ Len(v) = n + 1 /\ v[n + 1].type = "Torn" /\ n < Len(file)
    BY ViewIs
  <1>4. n < Len(file) => n \notin TornAt(file)
    <2>1. n < Len(file) => n # Len(file)
      BY <1>1
    <2> QED
      BY <1>1, <2>1
  <1>5. Sound(v) /\ CommitPoints(v) = {j \in CommitPoints(file) : j <= n}
    BY <1>1, <1>2, <1>3, <1>4, SoundPart
  <1> QED
    BY <1>3, <1>5, SoundReadable

LEMMA LatestTyped ==
  ASSUME NEW v \in Seq(FileRecords)
  PROVE  LatestCommit(v) \in Nat
  <1>1. CASE LatestCommit(v) = 0
    BY <1>1
  <1>2. CASE LatestCommit(v) # 0
    <2>1. PICK j \in CommitPoints(v) : LatestCommit(v) = v[j].commit
      BY <1>2, LatestCommitIs
    <2>2. j \in DOMAIN v /\ v[j] \in FileRecords
      BY CommitPointsInDomain
    <2> QED
      BY <2>1, <2>2, FileTypes
  <1> QED
    BY <1>1, <1>2

-----------------------------------------------------------------------------
(* The actions.                                                             *)

(* A command that is past its open has found a path.                        *)
LEMMA PathFound ==
  ASSUME IInv, NEW h \in Handles, proc[h].at \notin {"start", "create"}
  PROVE  disk # "missing"
  BY DEF IInv, InvPath

LEMMA RefuseMissingKeeps ==
  ASSUME IInv, NEW h \in Handles, RefuseMissing(h)
  PROVE  IInv'
  <1>1. proc[h].exit = "none" /\ proc[h].at = "start"
    BY DEF RefuseMissing, Runs
  <1>2. Over(h, "missing") /\ late' = late
    BY <1>1, FaultsTyped DEF RefuseMissing, history, Over, Exits
  <1> QED
    BY <1>1, <1>2, EndKeeps

LEMMA FindExistingKeeps ==
  ASSUME IInv, NEW h \in Handles, FindExisting(h)
  PROVE  IInv'
  <1>1. /\ proc[h].exit = "none" /\ proc[h].at = "start"
        /\ disk # "missing" /\ Goes(h, "load")
        /\ UNCHANGED <<disk, file, command, sole, raced, lost, late, faults>>
    BY DEF FindExisting, Runs, history
  <1> QED
    BY <1>1, FaultsTyped, GoKeeps

LEMMA HeaderIsLostKeeps ==
  ASSUME IInv, NEW h \in Handles, HeaderIsLost(h)
  PROVE  IInv'
  <1>1. /\ proc[h].exit = "none" /\ proc[h].at = "header"
        /\ Goes(h, "load") /\ lost' = TRUE /\ Fault
        /\ UNCHANGED <<disk, file, command, sole, raced, late>>
    BY DEF HeaderIsLost, Runs
  <1>2. disk # "missing"
    BY <1>1, PathFound
  <1>3. /\ lost' <=> (lost \/ proc[h].at = "header")
        /\ lost' \in BOOLEAN /\ faults' \in 0..MaxFaults
    BY <1>1, FaultsTyped
  <1> QED
    BY <1>1, <1>2, <1>3, GoKeeps

(* The beginning of a read notes what it has to show.                       *)
LEMMA BeginReadKeeps ==
  ASSUME IInv, NEW h \in Handles, NEW where \in {"loading", "checking"},
         proc[h].exit = "none", proc[h].at \in {"load", "open"},
         where = "checking" => command[h] = "check" /\ proc[h].at = "open",
         BeginRead(h, where)
  PROVE  IInv'
  <1> DEFINE m == [proc[h] EXCEPT !.at = where, !.mark = Len(file), !.owed = Succeeded]
  <1>1. proc[h] \in Memory /\ Len(file) \in Nat
    BY MemoryFields
  <1>2. Succeeded \subseteq Handles
    BY DEF Succeeded
  <1>3. m \in Memory
    BY <1>1, <1>2 DEF Memory, Places
  <1>4. /\ m.at = where /\ m.exit = "none" /\ m.pos = 0
        /\ m.mark = Len(file) /\ m.owed = Succeeded /\ m.cut = proc[h].cut
    BY <1>1 DEF IInv, InvPlaces, Memory
  <1>5. /\ proc' = [proc EXCEPT ![h] = m]
        /\ UNCHANGED <<disk, file, command, sole, raced, lost, late, faults>>
    BY DEF BeginRead, history
  <1> HIDE DEF m
  <1>6. Move(h, m)
    BY <1>5, FaultsTyped DEF Move
  <1>7. disk # "missing"
    BY PathFound
  <1>8. Undisturbed => \A a \in Succeeded : Holds(file, a, Len(file))
    BY DEF Succeeded, IInv, InvShown
  <1>9. ~raced => ~m.cut /\ (where = "checking" => disk = "store")
    BY <1>4 DEF IInv, InvCreate
  <1>10. Author(h) => h \in late'
    BY <1>5 DEF Author
  <1>11. Allowed(h, m)
    BY <1>1, <1>3, <1>4, <1>5, <1>7, <1>8, <1>9, <1>10 DEF Allowed
  <1> QED
    BY <1>6, <1>11, MoveKeeps

LEMMA BeginLoadKeeps ==
  ASSUME IInv, NEW h \in Handles, BeginLoad(h)
  PROVE  IInv'
  BY BeginReadKeeps DEF BeginLoad, Runs

LEMMA BeginCheckKeeps ==
  ASSUME IInv, NEW h \in Handles, BeginCheck(h)
  PROVE  IInv'
  BY BeginReadKeeps DEF BeginCheck, Runs

LEMMA LoadKeeps ==
  ASSUME IInv, NEW h \in Handles, Load(h)
  PROVE  IInv'
  <1>1. PICK n \in Nat : Loaded(h, n)
    <2>1. \A v \in Views(h) : LatestCommit(v) \in Nat
      BY ViewIs, LatestTyped
    <2>2. Cardinality(Handles) \in Nat
      BY StoreHandlesAssumption, FS_CardinalityType
    <2>3. \A n \in 0..Cardinality(Handles) : n \in Nat
      BY <2>2
    <2> QED
      BY <2>1, <2>3 DEF Load
  <1>2. /\ proc[h].at = "loading" /\ proc[h].exit = "none"
        /\ proc[h].cut \/ disk = "store"
        /\ UNCHANGED <<disk, file, command, sole, raced, lost, late, faults>>
    BY DEF Load, Runs, history
  <1> DEFINE m == [Fresh EXCEPT !.at = "open", !.head = n]
  <1>3. proc' = [proc EXCEPT ![h] = m]
    BY <1>1 DEF Loaded
  <1>4. Fresh \in Memory
    BY MemoryFields
  <1>5. m \in Memory /\ m.at = "open" /\ m.exit = "none" /\ m.pos = 0 /\ ~m.cut
    BY <1>4 DEF Fresh, Memory, Places
  <1> HIDE DEF m
  <1>6. Move(h, m)
    BY <1>2, <1>3, FaultsTyped DEF Move
  <1>7. disk # "missing" /\ (~raced => disk = "store")
    BY <1>2, PathFound DEF IInv, InvCreate
  <1>8. Author(h) => h \in late'
    BY <1>2 DEF Author
  <1>9. Allowed(h, m)
    BY <1>2, <1>5, <1>7, <1>8 DEF Allowed
  <1> QED
    BY <1>6, <1>9, MoveKeeps

LEMMA RefuseKeeps ==
  ASSUME IInv, NEW h \in Handles, proc[h].exit = "none",
         proc[h].at \in {"loading", "checking"}, Refuse(h)
  PROVE  IInv'
  <1>1. Over(h, "format") /\ late' = late
    BY FaultsTyped DEF Refuse, history, Over, Exits
  <1>2. disk # "missing"
    BY PathFound
  <1> QED
    BY <1>1, <1>2, EndKeeps

LEMMA CannotOpenKeeps ==
  ASSUME IInv, NEW h \in Handles, CannotOpen(h)
  PROVE  IInv'
  <1>1. /\ proc[h].exit = "none" /\ proc[h].at \in {"create", "loading", "checking", "open"}
        /\ Fault
    BY DEF CannotOpen, Runs
  <1>2. Over(h, "failed") /\ late' = late
    BY <1>1, FaultsTyped DEF CannotOpen, Over, Exits
  <1> QED
    BY <1>1, <1>2, EndKeeps

LEMMA AnswerKeeps ==
  ASSUME IInv, NEW h \in Handles, Answer(h)
  PROVE  IInv'
  <1>1. command[h] # "apply" /\ proc[h].exit = "none" /\ proc[h].at = "open"
    BY DEF Answer, Runs
  <1>2. Over(h, "ok") /\ late' = late
    BY <1>1, FaultsTyped DEF Answer, history, Over, Exits
  <1>3. disk # "missing"
    BY <1>1, PathFound
  <1> QED
    BY <1>1, <1>2, <1>3, EndKeeps

LEMMA CheckPassesKeeps ==
  ASSUME IInv, NEW h \in Handles, CheckPasses(h)
  PROVE  IInv'
  <1>1. proc[h].exit = "none" /\ proc[h].at = "checking"
    BY DEF CheckPasses, Runs
  <1>2. command[h] # "apply"
    BY <1>1 DEF IInv, InvPlaces
  <1>3. Over(h, "ok") /\ late' = late
    BY <1>1, FaultsTyped DEF CheckPasses, history, Over, Exits
  <1>4. disk # "missing"
    BY <1>1, PathFound
  <1> QED
    BY <1>1, <1>2, <1>3, <1>4, EndKeeps

LEMMA ScriptFailsKeeps ==
  ASSUME IInv, NEW h \in Handles, ScriptFails(h)
  PROVE  IInv'
  <1>1. proc[h].exit = "none" /\ proc[h].at = "open"
    BY DEF ScriptFails, Runs
  <1>2. Over(h, "usage") /\ late' = late
    BY <1>1, FaultsTyped DEF ScriptFails, history, Over, Exits
  <1>3. disk # "missing"
    BY <1>1, PathFound
  <1> QED
    BY <1>1, <1>2, <1>3, EndKeeps

(* An interrupted write leaves at most a torn record.                       *)
LEMMA LeavesTear ==
  ASSUME NEW h, LeaveTail(h)
  PROVE  MayTear(file', file)
  BY StoreHandlesAssumption DEF LeaveTail, MayTear

LEMMA AppendFailsKeeps ==
  ASSUME IInv, NEW h \in Handles, AppendFails(h)
  PROVE  IInv'
  <1>1. proc[h].exit = "none" /\ proc[h].at = "append" /\ Fault
    BY DEF AppendFails, Runs
  <1>2. Over(h, "failed") /\ late' = late
    BY <1>1, FaultsTyped, LeavesTear DEF AppendFails, Over, Exits
  <1>3. disk # "missing"
    BY <1>1, PathFound
  <1> QED
    BY <1>1, <1>2, <1>3, EndKeeps

LEMMA DieKeeps ==
  ASSUME IInv, NEW h \in Handles, Die(h)
  PROVE  IInv'
  <1>1. proc[h].exit = "none" /\ Fault
    BY DEF Die
  <1>2. MayTear(file', file) /\ (proc[h].at # "append" => file' = file)
    BY LeavesTear DEF Die, MayTear
  <1>3. Over(h, "died") /\ late' = late
    BY <1>1, <1>2, FaultsTyped DEF Die, Over, Exits
  <1> QED
    BY <1>1, <1>3, EndKeeps

LEMMA RereadKeeps ==
  ASSUME IInv, NEW h \in Handles, Reread(h)
  PROVE  IInv'
  <1>1. /\ proc[h].exit = "none" /\ proc[h].at = "reread"
        /\ disk = "store" /\ Goes(h, "patch")
        /\ UNCHANGED <<disk, file, command, sole, raced, lost, late, faults>>
    BY DEF Reread, Runs, history
  <1> QED
    BY <1>1, FaultsTyped, GoKeeps

(* A group that is complete is held, however its apply ends.                *)
LEMMA CompleteHeld ==
  ASSUME IInv, Undisturbed, NEW h \in Handles, proc[h].at \in {"reread", "patch"}
  PROVE  Holds(file, h, Len(file))
  BY DEF IInv, InvShown

LEMMA RereadRejectsKeeps ==
  ASSUME IInv, NEW h \in Handles, RereadRejects(h)
  PROVE  IInv'
  <1>1. proc[h].exit = "none" /\ proc[h].at = "reread"
    BY DEF RereadRejects, Runs
  <1>2. Over(h, "format") /\ h \in late'
    BY <1>1, FaultsTyped DEF RereadRejects, FailsLate, Over, Exits
  <1>3. disk # "missing"
    BY <1>1, PathFound
  <1> QED
    BY <1>1, <1>2, <1>3, CompleteHeld, EndKeeps

LEMMA CommitFailsKeeps ==
  ASSUME IInv, NEW h \in Handles, CommitFails(h)
  PROVE  IInv'
  <1>1. proc[h].exit = "none" /\ proc[h].at \in {"reread", "patch"} /\ Fault
    BY DEF CommitFails, Runs
  <1>2. Over(h, "failed") /\ h \in late'
    BY <1>1, FaultsTyped DEF CommitFails, FailsLate, Over, Exits
  <1> QED
    BY <1>1, <1>2, CompleteHeld, EndKeeps

LEMMA ApplySucceedsKeeps ==
  ASSUME IInv, NEW h \in Handles, ApplySucceeds(h)
  PROVE  IInv'
  <1>1. proc[h].exit = "none" /\ proc[h].at = "patch"
    BY DEF ApplySucceeds, Runs
  <1>2. Over(h, "ok") /\ late' = late
    BY <1>1, FaultsTyped DEF ApplySucceeds, history, Over, Exits
  <1>3. disk # "missing"
    BY <1>1, PathFound
  <1> QED
    BY <1>1, <1>2, <1>3, CompleteHeld, EndKeeps

-----------------------------------------------------------------------------
(* Making the path.                                                         *)

\* Only the place of h changes.
Placed(h, where) ==
  /\ proc' \in [Handles -> Memory]
  /\ proc'[h].at = where /\ proc'[h].exit = "none" /\ proc'[h].pos = proc[h].pos
  /\ proc'[h].head = proc[h].head /\ proc'[h].cut = proc[h].cut
  /\ \A g \in Handles : g # h => proc'[g] = proc[g]

LEMMA GoesPlaces ==
  ASSUME IInv, NEW h \in Handles, NEW where \in Places, proc[h].exit = "none", Goes(h, where)
  PROVE  Placed(h, where)
  <1> DEFINE m == [proc[h] EXCEPT !.at = where]
  <1>1. proc \in [Handles -> Memory] /\ proc[h] \in Memory /\ m \in Memory
    BY MemoryFields, TypedNow
  <1>2. /\ m.at = where /\ m.exit = "none" /\ m.pos = proc[h].pos
        /\ m.head = proc[h].head /\ m.cut = proc[h].cut
    BY <1>1 DEF Memory
  <1>3. proc' = [proc EXCEPT ![h] = m]
    BY DEF Goes
  <1> HIDE DEF m
  <1> QED
    BY <1>1, <1>2, <1>3 DEF Placed

(* An empty file has no groups.                                             *)
LEMMA EmptySound ==
  Sound(<<>>) /\ CommitPoints(<<>>) = {} /\ TornAt(<<>>) = {} /\ <<>> \in Seq(FileRecords)
  <1>1. <<>> \in Seq(FileRecords) /\ DOMAIN <<>> = {} /\ TornAt(<<>>) = {}
    BY DEF TornAt
  <1>2. CommitPoints(<<>>) = {}
    BY <1>1, CommitPointsInDomain
  <1> QED
    BY <1>1, <1>2 DEF Sound

LEMMA FindMissingKeeps ==
  ASSUME IInv, NEW h \in Handles, FindMissing(h)
  PROVE  IInv'
  <1>1. /\ proc[h].exit = "none" /\ proc[h].at = "start" /\ disk = "missing"
        /\ raced' = (raced \/ \E g \in Handles \ {h} : Runs(g, "create"))
        /\ UNCHANGED <<command, disk, file, sole, lost, late, faults>>
    BY DEF FindMissing, Runs
  <1>2. Placed(h, "create")
    BY <1>1, GoesPlaces DEF FindMissing, Places
  <1>3. \A g \in Handles : /\ proc[g].at \in {"start", "create"}
                           /\ proc[g].exit \in {"none", "missing", "failed", "died"}
    BY <1>1 DEF IInv, InvPath
  <1>4. \A g \in Handles : /\ proc'[g].at \in {"start", "create"}
                           /\ proc'[g].exit \in {"none", "missing", "failed", "died"}
    BY <1>2, <1>3 DEF Placed
  <1>5. raced' \in BOOLEAN /\ (~raced' => ~raced) /\ (Undisturbed' => Undisturbed)
    BY <1>1, TypedNow DEF Undisturbed
  <1>6. InvTyped'
    BY <1>1, <1>2, <1>4, <1>5, TypedNow, TypedKept DEF Placed
  <1>7. InvPlaces'
    <2>1. \A g \in Handles : /\ proc'[g].exit # "none" => proc'[g].at = "start"
                             /\ proc'[g].pos = 0
      BY <1>1, <1>2, <1>3 DEF Placed, IInv, InvPlaces
    <2> QED
      BY <1>4, <2>1 DEF InvPlaces
  <1>8. InvPath'
    BY <1>1, <1>4 DEF InvPath
  <1>9. InvCreate'
    <2>1. SUFFICES ASSUME ~raced' PROVE InvCreate'
      BY DEF InvCreate
    <2>2. \A g \in Handles : g # h => ~Runs(g, "create")
      BY <1>1, <2>1
    <2>3. \A g \in Handles : g # h => proc'[g].at # "create"
      BY <1>2, <2>2 DEF Placed, Runs, IInv, InvPlaces
    <2>4. (lost => disk = "short") /\ \A g \in Handles : ~proc[g].cut
      BY <1>5, <2>1 DEF IInv, InvCreate
    <2>5. \A g \in Handles : ~proc'[g].cut
      BY <1>2, <2>4 DEF Placed
    <2> QED
      BY <1>1, <1>4, <2>3, <2>4, <2>5 DEF InvCreate
  <1>10. InvWriter'
    <2>1. SUFFICES ASSUME Undisturbed PROVE InvWriter'
      BY <1>5 DEF InvWriter
    <2>2. \A g \in Handles : proc'[g].at # "append"
      BY <1>4
    <2>3. \A a \in Handles : Author(a) => Author(a)'
      BY <1>1, <1>2 DEF Placed, Author
    <2> QED
      BY <1>1, <2>1, <2>2, <2>3 DEF IInv, InvWriter
  <1>11. InvShown'
    <2>1. SUFFICES ASSUME Undisturbed PROVE InvShown'
      BY <1>5 DEF InvShown
    <2> QED
      BY <1>1, <1>4, <2>1 DEF IInv, InvShown
  <1> QED
    BY <1>6, <1>7, <1>8, <1>9, <1>10, <1>11 DEF IInv

(* create_empty empties the path, whoever is using it.                      *)
LEMMA TruncateKeeps ==
  ASSUME IInv, NEW h \in Handles, Truncate(h)
  PROVE  IInv'
  <1>1. /\ proc[h].exit = "none" /\ proc[h].at = "create"
        /\ disk' = "short" /\ file' = <<>>
        /\ UNCHANGED <<command, sole, raced, lost, late, faults>>
    BY DEF Truncate, Runs, history
  <1>2. \A g \in Handles : proc[g] \in Memory
    BY TypedNow
  <1>3. /\ proc' \in [Handles -> Memory]
        /\ \A g \in Handles :
             /\ proc'[g].exit = proc[g].exit /\ proc'[g].pos = proc[g].pos
             /\ proc'[g].at = IF g = h THEN "header" ELSE proc[g].at
             /\ proc[g].at \in {"start", "create"} => proc'[g].cut = proc[g].cut
    <2> DEFINE m(g) == IF g = h THEN [proc[g] EXCEPT !.at = "header"]
                       ELSE [proc[g] EXCEPT
                               !.cut = @ \/ proc[g].at \in {"loading", "checking", "append"}]
    <2>1. \A g \in Handles :
            /\ m(g) \in Memory /\ m(g).exit = proc[g].exit /\ m(g).pos = proc[g].pos
            /\ m(g).at = IF g = h THEN "header" ELSE proc[g].at
            /\ proc[g].at \in {"start", "create"} => m(g).cut = proc[g].cut
      <3>1. TAKE g \in Handles
      <3>2. proc[g] \in Memory
        BY <1>2
      <3>3. CASE g = h
        BY <3>2, <3>3 DEF Memory, Places
      <3>4. CASE g # h
        <4>1. m(g) = [proc[g] EXCEPT !.cut = proc[g].cut \/
                        proc[g].at \in {"loading", "checking", "append"}]
          BY <3>4
        <4> HIDE DEF m
        <4>2. (proc[g].cut \/ proc[g].at \in {"loading", "checking", "append"}) \in BOOLEAN
          OBVIOUS
        <4> QED
          BY <3>2, <3>4, <4>1, <4>2 DEF Memory
      <3> QED
        BY <3>3, <3>4
    <2>2. proc' = [g \in Handles |-> m(g)]
      BY DEF Truncate
    <2> HIDE DEF m
    <2> QED
      BY <2>1, <2>2
  <1>4. InvTyped'
    <2>1. <<>> \in Seq(FileRecords)
      OBVIOUS
    <2> QED
      BY <1>1, <1>3, <2>1, TypedNow, TypedKept
  <1>5. InvPlaces'
    <2>1. SUFFICES ASSUME NEW g \in Handles
                   PROVE  /\ proc'[g].exit # "none" => proc'[g].at = "start"
                          /\ proc'[g].at # "append" => proc'[g].pos = 0
                          /\ proc'[g].at \in {"append", "reread", "patch"} => command[g] = "apply"
                          /\ proc'[g].at = "checking" => command[g] = "check"
      BY <1>1 DEF InvPlaces
    <2> QED
      BY <1>1, <1>3 DEF IInv, InvPlaces
  <1>6. InvPath'
    BY <1>1, <1>3 DEF InvPath
  <1>7. CASE raced
    BY <1>1, <1>4, <1>5, <1>6, <1>7 DEF IInv, InvCreate, InvWriter, InvShown, Undisturbed
  <1>8. CASE ~raced
    <2>1. disk = "missing" /\ ~lost /\ file = <<>>
      BY <1>1, <1>8, TypedNow DEF IInv, InvCreate
    <2>2. \A g \in Handles : /\ proc[g].at \in {"start", "create"} /\ ~proc[g].cut
                             /\ proc[g].exit \in {"none", "missing", "failed", "died"}
      BY <1>8, <2>1 DEF IInv, InvPath, InvCreate
    <2>3. \A g \in Handles : g # h => proc[g].at # "create"
      BY <1>1, <1>8 DEF IInv, InvCreate
    <2>4. \A g \in Handles : /\ ~proc'[g].cut
                             /\ proc'[g].at = IF g = h THEN "header" ELSE "start"
                             /\ proc'[g].exit \in {"none", "missing", "failed", "died"}
      BY <1>3, <2>2, <2>3
    <2>5. InvCreate'
      BY <1>1, <2>1, <2>4 DEF InvCreate
    <2>6. InvWriter'
      BY <1>1, <2>4, EmptySound DEF InvWriter
    <2>7. InvShown'
      <3>1. SUFFICES ASSUME Undisturbed PROVE InvShown'
        BY <1>1, <2>1 DEF InvShown, Undisturbed
      <3>2. \A g \in Handles : g \in late => Holds(file, g, Len(file))
        BY <3>1 DEF IInv, InvShown
      <3> QED
        BY <1>1, <2>1, <2>4, <3>2 DEF InvShown, Holds, Block
    <2> QED
      BY <1>4, <1>5, <1>6, <2>5, <2>6, <2>7 DEF IInv
  <1> QED
    BY <1>7, <1>8

LEMMA WriteHeaderKeeps ==
  ASSUME IInv, NEW h \in Handles, WriteHeader(h)
  PROVE  IInv'
  <1>1. /\ proc[h].exit = "none" /\ proc[h].at = "header"
        /\ disk' = "store"
        /\ UNCHANGED <<command, file, sole, raced, lost, late, faults>>
    BY DEF WriteHeader, Runs, history
  <1>2. Placed(h, "load")
    BY <1>1, GoesPlaces DEF WriteHeader, Places
  <1>3. \A g \in Handles : /\ proc'[g].at # "load" => g # h /\ proc'[g] = proc[g]
                           /\ proc'[g].exit = proc[g].exit
    BY <1>1, <1>2 DEF Placed
  <1>4. Undisturbed' <=> Undisturbed
    BY <1>1 DEF Undisturbed
  <1>5. InvTyped'
    BY <1>1, <1>2, TypedNow, TypedKept DEF Placed
  <1>6. InvPlaces'
    <2>1. SUFFICES ASSUME NEW g \in Handles
                   PROVE  /\ proc'[g].exit # "none" => proc'[g].at = "start"
                          /\ proc'[g].at # "append" => proc'[g].pos = 0
                          /\ proc'[g].at \in {"append", "reread", "patch"} => command[g] = "apply"
                          /\ proc'[g].at = "checking" => command[g] = "check"
      BY <1>1 DEF InvPlaces
    <2>2. CASE g = h
      BY <1>1, <1>2, <2>2 DEF Placed, IInv, InvPlaces
    <2>3. CASE g # h
      <3>1. proc'[g] = proc[g]
        BY <1>2, <2>3 DEF Placed
      <3> QED
        BY <3>1 DEF IInv, InvPlaces
    <2> QED
      BY <2>2, <2>3
  <1>7. InvPath'
    BY <1>1 DEF InvPath
  <1>8. InvCreate'
    <2>1. SUFFICES ASSUME ~raced PROVE InvCreate'
      BY <1>1 DEF InvCreate
    <2>2. \A g \in Handles : proc'[g].at \notin {"create", "header"}
      <3>1. SUFFICES ASSUME NEW g \in Handles, proc'[g].at \in {"create", "header"} PROVE FALSE
        OBVIOUS
      <3>2. g # h /\ proc[g].at \in {"create", "header"}
        BY <1>3, <3>1
      <3>3. g = h
        BY <1>1, <2>1, <3>2 DEF IInv, InvCreate
      <3> QED
        BY <3>2, <3>3
    <2>3. ~lost /\ \A g \in Handles : ~proc'[g].cut
      BY <1>1, <1>2, <2>1 DEF IInv, InvCreate, Placed
    <2> QED
      BY <1>1, <2>2, <2>3 DEF InvCreate
  <1>9. InvWriter'
    <2>1. SUFFICES ASSUME Undisturbed PROVE InvWriter'
      BY <1>4 DEF InvWriter
    <2>2. \A g \in Handles : proc'[g].at = "append" =>
             proc'[g] = proc[g] /\ Records(g)' = Records(g)
      BY <1>3 DEF Records
    <2>3. \A a \in Handles : Author(a) => Author(a)'
      BY <1>1, <1>2 DEF Placed, Author
    <2> QED
      BY <1>1, <2>1, <2>2, <2>3 DEF IInv, InvWriter
  <1>10. InvShown'
    <2>1. SUFFICES ASSUME Undisturbed, NEW g \in Handles
          PROVE  /\ \/ command[g] = "apply" /\ proc'[g].exit = "ok"
                    \/ proc'[g].at \in {"reread", "patch"}
                    \/ g \in late
                    => Holds(file, g, Len(file))
                 /\ proc'[g].at \in {"loading", "checking"} =>
                      /\ proc'[g].mark <= Len(file)
                      /\ \A a \in proc'[g].owed : Holds(file, a, proc'[g].mark)
      BY <1>1, <1>4 DEF InvShown, Holds, Block
    <2>2. proc'[g].exit = proc[g].exit
      BY <1>3
    <2>3. proc'[g].at # "load" => proc'[g] = proc[g]
      BY <1>3
    <2> QED
      BY <2>1, <2>2, <2>3 DEF IInv, InvShown
  <1> QED
    BY <1>5, <1>6, <1>7, <1>8, <1>9, <1>10 DEF IInv

-----------------------------------------------------------------------------
(* Appending.                                                               *)

(* commit() starts: alone and from the head of the file, or sole goes.      *)
LEMMA BeginApplyKeeps ==
  ASSUME IInv, NEW h \in Handles, BeginApply(h)
  PROVE  IInv'
  <1>1. /\ proc[h].exit = "none" /\ proc[h].at = "open" /\ command[h] = "apply"
        /\ sole' = (sole /\ proc[h].head = LatestCommit(file)
                         /\ \A g \in Handles \ {h} : proc[g].at # "append")
        /\ UNCHANGED <<command, disk, file, raced, lost, late, faults>>
    BY DEF BeginApply, Runs
  <1>2. Placed(h, "append")
    BY <1>1, GoesPlaces DEF BeginApply, Places
  <1>3. proc[h].pos = 0
    BY <1>1 DEF IInv, InvPlaces
  <1>4. \A g \in Handles : g # h => proc'[g] = proc[g]
    BY <1>2 DEF Placed
  <1>5. /\ proc'[h].at = "append" /\ proc'[h].exit = "none" /\ proc'[h].pos = 0
        /\ proc'[h].head = proc[h].head /\ proc'[h].cut = proc[h].cut
    BY <1>2, <1>3 DEF Placed
  <1>6. sole' \in BOOLEAN /\ (sole' => sole) /\ (Undisturbed' => Undisturbed)
    BY <1>1, TypedNow DEF Undisturbed
  <1>7. disk # "missing"
    BY <1>1, PathFound
  <1>8. InvTyped'
    BY <1>1, <1>2, <1>6, <1>7, TypedNow, TypedKept DEF Placed
  <1>9. InvPlaces'
    <2>1. SUFFICES ASSUME NEW g \in Handles
                   PROVE  /\ proc'[g].exit # "none" => proc'[g].at = "start"
                          /\ proc'[g].at # "append" => proc'[g].pos = 0
                          /\ proc'[g].at \in {"append", "reread", "patch"} => command[g] = "apply"
                          /\ proc'[g].at = "checking" => command[g] = "check"
      BY <1>1 DEF InvPlaces
    <2>2. CASE g = h
      BY <1>1, <1>5, <2>2
    <2>3. CASE g # h
      <3>1. proc'[g] = proc[g]
        BY <1>4, <2>3
      <3> QED
        BY <3>1 DEF IInv, InvPlaces
    <2> QED
      BY <2>2, <2>3
  <1>10. InvPath'
    <2>1. \A g \in Handles : proc[g].at = "header" => proc'[g].at = "header"
      BY <1>1, <1>4
    <2> QED
      BY <1>1, <1>7, <2>1 DEF IInv, InvPath
  <1>11. InvCreate'
    <2>1. SUFFICES ASSUME ~raced PROVE InvCreate'
      BY <1>1 DEF InvCreate
    <2>2. \A g \in Handles : /\ proc'[g].at # "append" => proc'[g] = proc[g]
                             /\ proc'[g].cut = proc[g].cut
      BY <1>4, <1>5
    <2>3. disk = "store"
      BY <1>1, <2>1 DEF IInv, InvCreate
    <2> QED
      BY <1>1, <2>1, <2>2, <2>3 DEF IInv, InvCreate
  <1>12. InvWriter'
    <2>1. SUFFICES ASSUME sole', Undisturbed PROVE InvWriter'
      BY <1>6 DEF InvWriter, Undisturbed
    <2>2. /\ proc[h].head = LatestCommit(file)
          /\ \A g \in Handles : g # h => proc[g].at # "append"
      BY <1>1, <2>1
    <2>3. /\ Sound(file) /\ Len(file) \in Nat
          /\ proc[h].head = Cardinality(CommitPoints(file))
      BY <2>1, <2>2, SoundLatest, TypedNow DEF IInv, InvWriter
    <2>4. \A g \in Handles : proc'[g].at = "append" => g = h
      BY <1>4, <2>2
    <2>5. \A a \in Handles : Author(a) => Author(a)'
      BY <1>1, <1>4 DEF Author
    <2>6. proc'[h].pos <= Len(file) /\ 1..proc'[h].pos = {}
      BY <1>5, <2>3
    <2> QED
      BY <1>1, <1>5, <2>1, <2>3, <2>4, <2>5, <2>6 DEF IInv, InvWriter
  <1>13. InvShown'
    <2>1. SUFFICES ASSUME Undisturbed, NEW g \in Handles
          PROVE  /\ \/ command[g] = "apply" /\ proc'[g].exit = "ok"
                    \/ proc'[g].at \in {"reread", "patch"}
                    \/ g \in late
                    => Holds(file, g, Len(file))
                 /\ proc'[g].at \in {"loading", "checking"} =>
                      /\ proc'[g].mark <= Len(file)
                      /\ \A a \in proc'[g].owed : Holds(file, a, proc'[g].mark)
      BY <1>1, <1>6 DEF InvShown, Holds, Block
    <2>2. g # h => proc'[g] = proc[g]
      BY <1>4
    <2> QED
      BY <1>5, <2>1, <2>2 DEF IInv, InvShown
  <1> QED
    BY <1>8, <1>9, <1>10, <1>11, <1>12, <1>13 DEF IInv

LEMMA ConcatGrows ==
  ASSUME NEW f \in Seq(FileRecords), NEW s \in Seq(FileRecords)
  PROVE  Grows(f \o s, f)
  <1>1. /\ f \o s \in Seq(FileRecords) /\ Len(f \o s) = Len(f) + Len(s)
        /\ Len(f) \in Nat /\ Len(s) \in Nat
        /\ \A i \in 1..Len(f) : (f \o s)[i] = f[i]
    OBVIOUS
  <1>2. Len(f) <= Len(f \o s)
    BY ONLY <1>1
  <1> QED
    BY <1>1, <1>2 DEF Grows, Agree

\* The writer's memory after one record more.
Advanced(h) ==
  /\ proc' \in [Handles -> Memory]
  /\ \A g \in Handles : g # h => proc'[g] = proc[g]
  /\ proc'[h].exit = "none" /\ proc'[h].head = proc[h].head /\ proc'[h].cut = FALSE
  /\ proc'[h].pos = IF proc[h].pos = Size + 1 THEN 0 ELSE proc[h].pos + 1
  /\ proc'[h].at = IF proc[h].pos = Size + 1 THEN "reread" ELSE "append"

LEMMA AppendAdvances ==
  ASSUME IInv, NEW h \in Handles, AppendRecord(h)
  PROVE  /\ Advanced(h) /\ Grows(file', file)
         /\ proc[h].pos \in 0..(Size + 1) /\ proc[h].head + 1 \in Nat \ {0}
         /\ Records(h) = GroupRecords(h, proc[h].head + 1)
         /\ file' \in Landings(h, Records(h)[proc[h].pos + 1])
  <1>1. /\ proc \in [Handles -> Memory] /\ proc[h] \in Memory
        /\ proc[h].pos \in 0..(Size + 1) /\ proc[h].pos \in Nat /\ proc[h].head \in Nat
    BY TypedNow, SizeTyped DEF Memory
  <1>2. proc[h].exit = "none" /\ proc[h].at = "append"
    BY DEF AppendRecord, Runs
  <1>3. Records(h) = GroupRecords(h, proc[h].head + 1)
    <2>1. (proc[h].head + 1) - 1 = proc[h].head
      BY <1>1
    <2> QED
      BY <2>1 DEF Records, GroupRecords
  <1>4. Len(Records(h)) = Size + 2
    <2>1. proc[h].head + 1 \in Nat
      BY <1>1
    <2>2. IsGroup(Records(h), h, proc[h].head + 1)
      BY <1>3, <2>1, GroupShape
    <2> QED
      BY <2>2 DEF IsGroup
  <1> DEFINE last  == proc[h].pos + 1 = Len(Records(h))
             count == IF last THEN 0 ELSE proc[h].pos + 1
             place == IF last THEN "reread" ELSE "append"
             m == [proc[h] EXCEPT !.pos = count, !.at = place, !.cut = FALSE]
  <1>5. last <=> proc[h].pos = Size + 1
    BY <1>1, <1>4, SizeTyped
  <1>6. proc' = [proc EXCEPT ![h] = m]
    BY <1>1 DEF AppendRecord
  <1> HIDE DEF last
  <1>7. count \in 0..(Size + 1) /\ place \in Places
    BY <1>1, <1>5, SizeTyped DEF Places
  <1> HIDE DEF count, place
  <1>8. /\ m \in Memory /\ m.exit = "none" /\ m.head = proc[h].head
        /\ m.pos = count /\ m.at = place /\ m.cut = FALSE
    BY <1>1, <1>2, <1>7 DEF Memory
  <1> HIDE DEF m
  <1>9. Advanced(h)
    BY <1>1, <1>5, <1>6, <1>8 DEF Advanced, count, place
  <1>10. file' \in Landings(h, Records(h)[proc[h].pos + 1])
    BY DEF AppendRecord
  <1>11. Grows(file', file)
    <2> DEFINE r == Records(h)[proc[h].pos + 1]
    <2>1. r \in FileRecords
      <3>1. proc[h].head + 1 \in Nat \ {0} /\ proc[h].pos + 1 \in 1..(Size + 2)
        BY <1>1, SizeTyped
      <3> QED
        BY <1>3, <3>1 DEF FileRecords, WholeRecords
    <2>2. file \in Seq(FileRecords) /\ Torn(1) \in FileRecords
      BY TypedNow DEF FileRecords
    <2> HIDE DEF r
    <2>3. \A q \in Pieces : Grows(file \o q, file)
      <3>1. \A q \in Pieces : q \in Seq(FileRecords)
        <4>1. <<Torn(1)>> \in Seq(FileRecords) /\ <<Torn(1), Torn(1)>> \in Seq(FileRecords)
          BY <2>2
        <4> QED
          BY <4>1 DEF Pieces
      <3> QED
        BY <2>2, <3>1, ConcatGrows
    <2>4. Grows(Append(file, r), file)
      <3>1. /\ Append(file, r) \in Seq(FileRecords) /\ Len(file) \in Nat
            /\ Len(Append(file, r)) = Len(file) + 1
            /\ \A i \in 1..Len(file) : Append(file, r)[i] = file[i]
        BY <2>1, <2>2, AppendAt
      <3> QED
        BY <2>2, <3>1 DEF Grows, Agree
    <2>5. Grows(file, file)
      BY <2>2, TearGrows DEF MayTear
    <2>6. \/ file' = Append(file, r)
          \/ \E q \in Pieces : file' = file \o q
          \/ file' = file
      BY <1>10 DEF Landings, r
    <2> QED
      BY <2>3, <2>4, <2>5, <2>6
  <1> QED
    BY <1>1, <1>3, <1>9, <1>10, <1>11

(* When the file is still undisturbed after a record came, the record came  *)
(* whole and behind whole ones.                                             *)
LEMMA AppendUndisturbed ==
  ASSUME IInv, NEW h \in Handles, AppendRecord(h), Undisturbed'
  PROVE  /\ Undisturbed /\ file \in Seq(WholeRecords)
         /\ file' = Append(file, GroupRecords(h, proc[h].head + 1)[proc[h].pos + 1])
  <1>1. proc[h].at = "append" /\ UNCHANGED <<sole, raced>>
    BY DEF AppendRecord, Runs, history
  <1>2. Grows(file', file) /\ TornAt(file') \subseteq {Len(file')}
    BY AppendAdvances DEF Undisturbed
  <1>3. Undisturbed
    BY <1>1, <1>2, TypedNow, DisturbedStays
  <1>4. ~proc[h].cut /\ disk = "store"
    BY <1>1, <1>3 DEF IInv, InvCreate, Undisturbed
  <1> DEFINE r == GroupRecords(h, proc[h].head + 1)[proc[h].pos + 1]
  <1>5. file' = Append(file, r)
    <2>1. file' \in Landings(h, r)
      BY AppendAdvances
    <2> HIDE DEF r
    <2> QED
      BY <1>4, <2>1 DEF Landings
  <1> HIDE DEF r
  <1>6. Len(file) < Len(file')
    <2>1. Len(file) \in Nat /\ Len(file') = Len(file) + 1
      BY <1>5, TypedNow
    <2> QED
      BY ONLY <2>1
  <1>7. TornAt(file) = {}
    BY <1>2, <1>6, GrownTears
  <1>8. file \in Seq(WholeRecords)
    BY <1>7, TypedNow, NotTorn
  <1> QED
    BY <1>3, <1>5, <1>8 DEF r

(* Then the writer's group grows at the end, and is held when it is         *)
(* complete.                                                                *)
LEMMA AppendKeepsWriter ==
  ASSUME IInv, NEW h \in Handles, AppendRecord(h), Undisturbed'
  PROVE  /\ InvWriter'
         /\ proc'[h].at = "reread" => Holds(file', h, Len(file'))
  <1> DEFINE c == proc[h].head + 1
             p == proc[h].pos
  <1>1. /\ p \in 0..(Size + 1) /\ c \in Nat \ {0} /\ p \in Nat /\ c \in Nat
        /\ file' = Append(file, GroupRecords(h, c)[p + 1])
        /\ Records(h) = GroupRecords(h, c)
    BY AppendAdvances, AppendUndisturbed, SizeTyped
  <1>2. /\ Advanced(h) /\ proc[h].at = "append" /\ proc[h].exit = "none"
        /\ command' = command /\ late' = late /\ command[h] = "apply"
    BY AppendAdvances DEF AppendRecord, Runs, history, IInv, InvPlaces
  <1>3. /\ file \in Seq(WholeRecords) /\ Len(file) \in Nat
        /\ Sound(file)
        /\ c = Cardinality(CommitPoints(file)) + 1
    BY <1>2, AppendUndisturbed, TypedNow DEF IInv, InvWriter
  <1>4. \A g \in Handles : proc[g].at = "append" => g = h
    BY <1>2, AppendUndisturbed DEF IInv, InvWriter
  <1>5. Written(file, h, c, p)
    BY <1>1, <1>2, AppendUndisturbed DEF IInv, InvWriter, Written
  <1>6. Records(h)' = GroupRecords(h, c)
    BY <1>1, <1>2 DEF Advanced, Records
  <1>7. proc'[h].head = c - 1
    <2>1. proc[h].head \in Nat
      BY TypedNow DEF Memory
    <2> QED
      BY <1>2, <2>1 DEF Advanced
  <1>8. /\ proc'[h].at = IF p = Size + 1 THEN "reread" ELSE "append"
        /\ p # Size + 1 => proc'[h].pos = p + 1
    BY <1>2 DEF Advanced
  <1>9. \A g \in Handles : g # h => proc'[g] = proc[g]
    BY <1>2 DEF Advanced
  <1> HIDE DEF c, p
  <1>10. OneMore(file', file, GroupRecords(h, c)[p + 1]) /\ Written(file', h, c, p + 1)
    BY <1>1, <1>3, <1>5, AppendNext
  <1>11. \A g \in Handles : proc'[g].at = "append" => g = h
    BY <1>4, <1>9
  <1>12. /\ p + 1 <= Len(file')
         /\ \A k \in 1..(p + 1) : file'[Len(file') - (p + 1) + k] = GroupRecords(h, c)[k]
    BY <1>10 DEF Written
  <1>13. \A j \in CommitPoints(file) :
           /\ j \in 1..Len(file) /\ file'[j] = file[j]
           /\ \A a, k : Block(file', j, a, k) <=> Block(file, j, a, k)
    <2>1. TAKE j \in CommitPoints(file)
    <2>2. j \in 1..Len(file)
      BY <1>3, CommitPointsInDomain
    <2>3. /\ file' \in Seq(FileRecords) /\ file \in Seq(FileRecords)
          /\ Agree(file', file, Len(file))
      BY <1>3, <1>10, WholeFile DEF OneMore
    <2>4. \A a, k : Block(file', j, a, k) <=> Block(file, j, a, k)
      BY ONLY <1>3, <2>2, <2>3, SamePrefix
    <2> QED
      BY <2>2, <2>3, <2>4 DEF Agree
  <1>14. \A a \in Handles : Author(a) => Author(a)'
    BY <1>2, <1>9 DEF Author
  <1>15. ASSUME NEW j \in CommitPoints(file)
         PROVE  \E a \in Handles : Author(a)' /\ Block(file', j, a, file'[j].commit)
    <2>1. PICK a \in Handles : Author(a) /\ Block(file, j, a, file[j].commit)
      BY AppendUndisturbed DEF IInv, InvWriter
    <2> QED
      BY <1>13, <1>14, <2>1
  <1>16. CASE p = Size + 1
    <2>1. Written(file, h, c, Size + 1) /\ Grown(file', file, h, c, Size + 1)
      BY <1>1, <1>5, <1>16 DEF Grown
    <2>2. h \in Handles /\ c \in Nat \ {0} /\ c = Cardinality(CommitPoints(file)) + 1
      BY <1>1, <1>3
    <2>3. /\ Sound(file')
          /\ CommitPoints(file') = CommitPoints(file) \union {Len(file')}
          /\ Block(file', Len(file'), h, c) /\ file'[Len(file')].commit = c
      <3>1. file \in Seq(WholeRecords) /\ Sound(file)
        BY <1>1, <1>3
      <3> QED
        BY ONLY <2>1, <2>2, <3>1, AppendCommit, SMTT(30)
    <2>4. proc'[h].at = "reread" /\ Author(h)'
      BY <1>2, <1>8, <1>16 DEF Author
    <2>5. \A g \in Handles : proc'[g].at # "append"
      BY <1>11, <2>4
    <2>6. \A j \in CommitPoints(file') :
            \E a \in Handles : Author(a)' /\ Block(file', j, a, file'[j].commit)
      BY <1>15, <2>3, <2>4
    <2>7. Len(file') <= Len(file')
      BY <1>10, <1>3 DEF OneMore
    <2>8. Holds(file', h, Len(file'))
      BY <2>3, <2>7 DEF Holds
    <2> QED
      BY <2>3, <2>5, <2>6, <2>8 DEF InvWriter
  <1>17. CASE p # Size + 1
    <2>1. Sound(file') /\ CommitPoints(file') = CommitPoints(file)
      <3>1. Grown(file', file, h, c, p)
        BY <1>1 DEF Grown
      <3> QED
        BY <1>1, <1>3, <1>5, <1>17, <3>1, AppendInGroup
    <2>2. proc'[h].head = Cardinality(CommitPoints(file'))
      BY <1>3, <1>7, <2>1, SoundLatest
    <2>3. proc'[h].at # "reread" /\ proc'[h].pos = p + 1
      BY <1>8, <1>17
    <2> QED
      BY <1>6, <1>11, <1>12, <1>15, <2>1, <2>2, <2>3 DEF InvWriter
  <1> QED
    BY <1>16, <1>17

LEMMA AppendRecordKeeps ==
  ASSUME IInv, NEW h \in Handles, AppendRecord(h)
  PROVE  IInv'
  <1>1. /\ proc[h].exit = "none" /\ proc[h].at = "append"
        /\ UNCHANGED <<command, disk, sole, raced, lost, late, faults>>
    BY DEF AppendRecord, Runs, history
  <1>2. Advanced(h) /\ Grows(file', file)
    BY AppendAdvances
  <1>3. \A g \in Handles : g # h => proc'[g] = proc[g]
    BY <1>2 DEF Advanced
  <1>4. command[h] = "apply" /\ disk # "missing"
    BY <1>1, PathFound DEF IInv, InvPlaces
  <1>5. /\ proc'[h].at \in {"append", "reread"} /\ proc'[h].exit = "none"
        /\ proc'[h].at # "append" => proc'[h].pos = 0
        /\ proc'[h].cut = FALSE
    BY <1>2 DEF Advanced
  <1>6. InvTyped'
    <2>1. file' \in Seq(FileRecords)
      BY <1>2 DEF Grows
    <2> QED
      BY <1>1, <1>2, <1>4, <2>1, TypedNow, TypedKept DEF Advanced
  <1>7. InvPlaces'
    <2>1. SUFFICES ASSUME NEW g \in Handles
                   PROVE  /\ proc'[g].exit # "none" => proc'[g].at = "start"
                          /\ proc'[g].at # "append" => proc'[g].pos = 0
                          /\ proc'[g].at \in {"append", "reread", "patch"} => command[g] = "apply"
                          /\ proc'[g].at = "checking" => command[g] = "check"
      BY <1>1 DEF InvPlaces
    <2>2. CASE g = h
      BY <1>4, <1>5, <2>2
    <2>3. CASE g # h
      <3>1. proc'[g] = proc[g]
        BY <1>3, <2>3
      <3> QED
        BY <3>1 DEF IInv, InvPlaces
    <2> QED
      BY <2>2, <2>3
  <1>8. InvPath'
    <2>1. \A g \in Handles : proc[g].at = "header" => proc'[g].at = "header"
      BY <1>1, <1>3
    <2> QED
      BY <1>1, <1>4, <2>1 DEF IInv, InvPath
  <1>9. InvCreate'
    <2>1. SUFFICES ASSUME ~raced PROVE InvCreate'
      BY <1>1 DEF InvCreate
    <2>2. \A g \in Handles :
             proc'[g].at \notin {"append", "reread"} => proc'[g] = proc[g]
      BY <1>3, <1>5
    <2>3. disk = "store" /\ \A g \in Handles : ~proc'[g].cut
      BY <1>1, <1>3, <1>5, <2>1 DEF IInv, InvCreate
    <2> QED
      BY <1>1, <2>1, <2>2, <2>3 DEF IInv, InvCreate
  <1>10. InvWriter'
    <2>1. CASE Undisturbed'
      BY <2>1, AppendKeepsWriter
    <2>2. CASE ~Undisturbed'
      BY <2>2 DEF InvWriter
    <2> QED
      BY <2>1, <2>2
  <1>11. InvShown'
    <2>1. SUFFICES ASSUME Undisturbed', Undisturbed, NEW g \in Handles
          PROVE  /\ \/ command[g] = "apply" /\ proc'[g].exit = "ok"
                    \/ proc'[g].at \in {"reread", "patch"}
                    \/ g \in late
                    => Holds(file', g, Len(file'))
                 /\ proc'[g].at \in {"loading", "checking"} =>
                      /\ proc'[g].mark <= Len(file')
                      /\ \A a \in proc'[g].owed : Holds(file', a, proc'[g].mark)
      BY <1>1, AppendUndisturbed DEF InvShown, Holds, Block
    <2>2. CASE g = h
      <3>1. ASSUME h \in late PROVE Holds(file', h, Len(file'))
        <4>1. Holds(file, h, Len(file))
          BY <2>1, <3>1 DEF IInv, InvShown
        <4>2. Len(file) \in Nat /\ Len(file') \in Nat /\ Len(file) <= Len(file')
          BY <1>2 DEF Grows
        <4> QED
          BY <1>2, <4>1, <4>2, HoldsGrows
      <3> QED
        BY <1>5, <2>1, <2>2, <3>1, AppendKeepsWriter
    <2>3. CASE g # h
      BY <1>1, <1>2, <1>3, <2>1, <2>3, OthersShow
    <2> QED
      BY <2>2, <2>3
  <1> QED
    BY <1>6, <1>7, <1>8, <1>9, <1>10, <1>11 DEF IInv

-----------------------------------------------------------------------------
LEMMA InitKeeps ==
  ASSUME Init
  PROVE  IInv
  <1>1. Fresh \in Memory
    BY SizeTyped DEF Fresh, Memory, Places, Exits
  <1>2. /\ proc \in [Handles -> Memory]
        /\ \A h \in Handles : /\ proc[h].at = "start" /\ proc[h].exit = "none"
                              /\ proc[h].pos = 0 /\ proc[h].cut = FALSE
    BY <1>1 DEF Init, Fresh
  <1>3. file \in Seq(FileRecords) /\ DOMAIN file = {}
    BY DEF Init
  <1>4. InvTyped
    <2>1. \A g \in Handles : proc[g] \in Memory
      BY <1>2
    <2>2. /\ disk = "missing" /\ file = <<>> /\ command \in Mixes
          /\ sole \in BOOLEAN /\ raced \in BOOLEAN /\ lost \in BOOLEAN
          /\ late \subseteq Handles /\ faults \in 0..MaxFaults
      <3>1. 0 \in 0..MaxFaults
        BY SizeTyped
      <3> QED
        BY <3>1 DEF Init
    <2>3. TypeOK
      BY <1>2, <1>3, <2>1, <2>2 DEF TypeOK, Memory, Places, Exits
    <2> QED
      BY <1>2, <1>3, <2>3 DEF InvTyped
  <1>5. InvPlaces /\ InvPath /\ InvCreate /\ InvShown
    BY <1>2 DEF Init, InvPlaces, InvPath, InvCreate, InvShown
  <1>6. InvWriter
    <2>1. Sound(file) /\ CommitPoints(file) = {}
      BY EmptySound DEF Init
    <2> QED
      BY <1>2, <2>1 DEF InvWriter
  <1> QED
    BY <1>4, <1>5, <1>6 DEF IInv

LEMMA StepKeeps ==
  ASSUME IInv, [Next]_vars
  PROVE  IInv'
  <1>1. CASE UNCHANGED vars
    <2>1. UNCHANGED <<disk, file, command, proc, sole, raced, lost, late, faults>>
      BY <1>1 DEF vars
    <2>2. InvTyped'
      BY <2>1 DEF IInv, InvTyped, TypeOK
    <2>3. InvPlaces' /\ InvPath' /\ InvCreate'
      BY <2>1 DEF IInv, InvPlaces, InvPath, InvCreate
    <2>4. InvWriter'
      BY <2>1 DEF IInv, InvWriter, Undisturbed, Author, Records
    <2>5. InvShown'
      BY <2>1 DEF IInv, InvShown, Undisturbed
    <2> QED
      BY <2>2, <2>3, <2>4, <2>5 DEF IInv
  <1>2. CASE Next
    <2>1. PICK h \in Handles : Step(h)
      BY <1>2 DEF Next
    <2>2. CASE FindMissing(h) \/ RefuseMissing(h) \/ FindExisting(h)
      BY <2>2, FindMissingKeeps, RefuseMissingKeeps, FindExistingKeeps
    <2>3. CASE Truncate(h) \/ WriteHeader(h) \/ HeaderIsLost(h)
      BY <2>3, TruncateKeeps, WriteHeaderKeeps, HeaderIsLostKeeps
    <2>4. CASE BeginLoad(h) \/ Load(h) \/ BeginCheck(h)
      BY <2>4, BeginLoadKeeps, LoadKeeps, BeginCheckKeeps
    <2>5. CASE LoadRefused(h) \/ CheckFails(h)
      BY <2>5, RefuseKeeps DEF LoadRefused, CheckFails, Runs
    <2>6. CASE CannotOpen(h) \/ Answer(h) \/ CheckPasses(h) \/ ScriptFails(h)
      BY <2>6, CannotOpenKeeps, AnswerKeeps, CheckPassesKeeps, ScriptFailsKeeps
    <2>7. CASE BeginApply(h) \/ AppendRecord(h) \/ AppendFails(h)
      BY <2>7, BeginApplyKeeps, AppendRecordKeeps, AppendFailsKeeps
    <2>8. CASE Reread(h) \/ RereadRejects(h) \/ CommitFails(h)
      BY <2>8, RereadKeeps, RereadRejectsKeeps, CommitFailsKeeps
    <2>9. CASE ApplySucceeds(h) \/ Die(h)
      BY <2>9, ApplySucceedsKeeps, DieKeeps
    <2> QED
      BY <2>1, <2>2, <2>3, <2>4, <2>5, <2>6, <2>7, <2>8, <2>9 DEF Step
  <1> QED
    BY <1>1, <1>2

(* The inductive invariant of the processes on one path.                    *)
THEOREM HandlesInvariant == Spec => []IInv
  BY InitKeeps, StepKeeps, PTL DEF Spec

(* Every variable keeps its type, for any processes, commands and scripts.  *)
THEOREM HandlesTypeCorrect == Spec => []TypeOK
  <1>1. IInv => TypeOK
    BY DEF IInv, InvTyped
  <1> QED
    BY <1>1, HandlesInvariant, PTL

(* open only tests that the path exists, so when creates do not race a path *)
(* whose superblock was lost is never made again.                           *)
THEOREM LostStaysShort == Spec => []ShortFileStays
  <1>1. IInv => ShortFileStays
    BY DEF IInv, InvCreate, ShortFileStays
  <1> QED
    BY <1>1, HandlesInvariant, PTL

-----------------------------------------------------------------------------
(* What readers and exit statuses say.                                      *)

(* A group that is held is shown by what has the same records up to it.     *)
LEMMA HoldsShows ==
  ASSUME NEW f \in Seq(FileRecords), NEW g \in Seq(FileRecords), NEW n \in Nat,
         Agree(g, f, n), NEW a \in Handles, Holds(f, a, n)
  PROVE  Shows(g, a)
  <1>1. PICK j \in CommitPoints(f) : j <= n /\ Block(f, j, a, f[j].commit)
    BY DEF Holds
  <1>2. j \in 1..Len(f) /\ f[j] \in FileRecords
    BY LenProperties, CommitPointsInDomain
  <1>3. j \in 1..n /\ j \in Nat
    BY <1>1, <1>2
  <1>4. f[j].commit \in Nat
    BY <1>2, FileTypes
  <1>5. j \in CommitPoints(g)
    BY <1>1, <1>3, SamePrefix
  <1>6. Block(g, j, a, f[j].commit)
    <2>1. \A b, c : Block(g, j, b, c) <=> Block(f, j, b, c)
      BY <1>3, SamePrefix
    <2> QED
      BY <1>1, <2>1
  <1>7. GroupBodies(g, j) = [i \in 1..Size |-> Change(a, i)]
    BY <1>3, <1>4, <1>6, BlockGroup
  <1> QED
    BY <1>5, <1>7 DEF Shows

(* While appends are exclusive, creates did not race and nothing was        *)
(* appended behind a torn record, what a read that overlaps a writer        *)
(* returns shows every apply that had succeeded when it began, and its      *)
(* commits are numbered 1, 2, 3...                                          *)
THEOREM ReadersMissNothing == Spec => []ReadsShowSucceeded
  <1>1. ASSUME IInv PROVE ReadsShowSucceeded
    <2>1. SUFFICES ASSUME Undisturbed, NEW h \in Handles,
                          Runs(h, "loading") \/ Runs(h, "checking"), NEW v \in Views(h)
                   PROVE  /\ \A a \in proc[h].owed : Shows(v, a)
                          /\ \A j \in CommitPoints(v) :
                               v[j].commit = Cardinality({k \in CommitPoints(v) : k <= j})
      BY DEF ReadsShowSucceeded
    <2>2. PICK n \in 0..Len(file) :
              /\ proc[h].mark <= n
              /\ Agree(v, file, n)
              /\ CommitPoints(v) = {j \in CommitPoints(file) : j <= n}
      BY <1>1, <2>1, ViewSound
    <2>3. /\ file \in Seq(FileRecords) /\ v \in Seq(FileRecords) /\ n \in Nat
          /\ proc[h].mark \in Nat /\ proc[h].owed \subseteq Handles
          /\ CommitPoints(file) \subseteq Nat
      <3>1. file \in Seq(FileRecords) /\ Len(file) \in Nat /\ DOMAIN file = 1..Len(file)
        BY <1>1, TypedNow
      <3>2. CommitPoints(file) \subseteq Nat
        BY <3>1, CommitPointsInDomain
      <3> QED
        BY <1>1, <3>1, <3>2, TypedNow, ViewIs DEF Memory
    <2>4. ASSUME NEW a \in proc[h].owed PROVE Shows(v, a)
      <3>1. Holds(file, a, proc[h].mark)
        BY <1>1, <2>1 DEF IInv, InvShown, Runs
      <3>2. Holds(file, a, n)
        BY <2>2, <2>3, <3>1 DEF Holds
      <3>3. a \in Handles
        BY <2>3
      <3> QED
        BY <2>2, <2>3, <3>2, <3>3, HoldsShows
    <2>5. Sound(v)
      BY <1>1, <2>1, ViewSound
    <2> QED
      BY <2>4, <2>5 DEF Sound, CommitsTo
  <1> QED
    BY <1>1, HandlesInvariant, PTL

(* Under the same conditions the file has the script of an apply that       *)
(* succeeded, and of one that failed just when it failed after its group    *)
(* was complete.                                                            *)
THEOREM ExitStatusIsTrue ==
  ASSUME Size > 0
  PROVE  Spec => []ApplyReportsTruth
  <1>1. ASSUME IInv PROVE ApplyReportsTruth
    <2>1. SUFFICES ASSUME Undisturbed, NEW h \in Handles, command[h] = "apply"
                   PROVE  /\ proc[h].exit = "ok" => Shows(file, h)
                          /\ proc[h].exit \in {"missing", "usage", "format", "failed"} =>
                               (Shows(file, h) <=> h \in late)
      BY DEF ApplyReportsTruth
    <2>2. /\ file \in Seq(FileRecords) /\ Len(file) \in Nat
          /\ CommitPoints(file) \subseteq 1..Len(file)
          /\ \A j \in 1..Len(file) : file[j].commit \in Nat
      <3>1. file \in Seq(FileRecords) /\ Len(file) \in Nat /\ DOMAIN file = 1..Len(file)
        BY <1>1, TypedNow
      <3>2. CommitPoints(file) \subseteq 1..Len(file)
        BY <3>1, CommitPointsInDomain
      <3>3. \A j \in 1..Len(file) : file[j] \in FileRecords
        BY <3>1
      <3> QED
        BY <3>1, <3>2, <3>3, FileTypes
    <2>3. ASSUME proc[h].exit = "ok" \/ h \in late PROVE Shows(file, h)
      <3>1. Holds(file, h, Len(file))
        BY <1>1, <2>1, <2>3 DEF IInv, InvShown
      <3>2. Agree(file, file, Len(file))
        BY <2>2 DEF Agree
      <3> QED
        BY <2>2, <3>1, <3>2, HoldsShows
    <2>4. ASSUME proc[h].exit \in {"missing", "usage", "format", "failed"}, Shows(file, h)
          PROVE  h \in late
      <3>1. PICK j \in CommitPoints(file) :
               GroupBodies(file, j) = [i \in 1..Size |-> Change(h, i)]
        BY <2>4 DEF Shows
      <3>2. PICK a \in Handles : Author(a) /\ Block(file, j, a, file[j].commit)
        BY <1>1, <2>1 DEF IInv, InvWriter
      <3>3. j \in 1..Len(file) /\ j \in Nat /\ file[j].commit \in Nat
        BY <2>2
      <3>4. GroupBodies(file, j) = [i \in 1..Size |-> Change(a, i)]
        BY <2>2, <3>2, <3>3, BlockGroup
      <3>5. 1 \in 1..Size
        BY SizeTyped
      <3>6. Change(h, 1) = Change(a, 1)
        BY <3>1, <3>4, <3>5
      <3>7. a = h
        BY <3>6 DEF Change
      <3> QED
        BY <1>1, <2>4, <3>2, <3>7 DEF IInv, InvPlaces, Author
    <2> QED
      BY <2>3, <2>4
  <1> QED
    BY <1>1, HandlesInvariant, PTL

(* The commands that end with status "format" at a step.                    *)
LEMMA OnlyRefusals ==
  ASSUME IInv, NEW g \in Handles, Step(g), NEW h \in Handles,
         proc[h].exit # "format", proc'[h].exit = "format"
  PROVE  ((Runs(h, "loading") \/ Runs(h, "checking")) /\ Refuse(h)) \/ RereadRejects(h)
  <1>1. proc \in [Handles -> Memory] /\ proc[h] \in Memory /\ proc[g] \in Memory
    BY TypedNow
  <1>2. \A where : Goes(g, where) => proc'[h].exit = proc[h].exit
    BY <1>1 DEF Goes, Memory
  <1>3. \A how : Ends(g, how) => (h # g => proc'[h] = proc[h]) /\ (h = g => proc'[h].exit = how)
    BY <1>1 DEF Ends, Fresh
  <1>4. \A where : BeginRead(g, where) => proc'[h].exit = proc[h].exit
    BY <1>1 DEF BeginRead, Memory
  <1>5. \A n : Loaded(g, n) => proc'[h].exit # "format"
    BY <1>1 DEF Loaded, Fresh, Memory
  <1>6. AppendRecord(g) => proc'[h].exit = proc[h].exit
    <2>1. SUFFICES ASSUME AppendRecord(g) PROVE proc'[h].exit = proc[h].exit
      OBVIOUS
    <2>2. /\ proc'[g].exit = "none" /\ proc[g].exit = "none"
          /\ h # g => proc'[h] = proc[h]
      BY <2>1, AppendAdvances DEF Advanced, AppendRecord, Runs
    <2> QED
      BY <2>2
  <1>7. Truncate(g) => proc'[h].exit = proc[h].exit
    <2>1. SUFFICES ASSUME Truncate(g) PROVE proc'[h].exit = proc[h].exit
      OBVIOUS
    <2>2. proc'[h] = IF h = g THEN [proc[h] EXCEPT !.at = "header"]
                     ELSE [proc[h] EXCEPT
                             !.cut = @ \/ proc[h].at \in {"loading", "checking", "append"}]
      BY <2>1 DEF Truncate
    <2> QED
      BY <1>1, <2>2 DEF Memory
  <1>8. ~(FindMissing(g) \/ FindExisting(g) \/ WriteHeader(g) \/ HeaderIsLost(g)
          \/ BeginApply(g) \/ Reread(g) \/ Truncate(g))
    BY <1>2, <1>7 DEF FindMissing, FindExisting, WriteHeader, HeaderIsLost, BeginApply, Reread
  <1>9. ~(BeginLoad(g) \/ BeginCheck(g) \/ Load(g) \/ AppendRecord(g))
    BY <1>4, <1>5, <1>6 DEF BeginLoad, BeginCheck, Load
  <1>10. ~(RefuseMissing(g) \/ Answer(g) \/ CheckPasses(g) \/ ScriptFails(g) \/ ApplySucceeds(g)
           \/ Die(g) \/ CannotOpen(g) \/ AppendFails(g) \/ CommitFails(g))
    BY <1>3 DEF RefuseMissing, Answer, CheckPasses, ScriptFails, ApplySucceeds, Die,
                CannotOpen, AppendFails, CommitFails, FailsLate
  <1>11. LoadRefused(g) \/ CheckFails(g) \/ RereadRejects(g)
    BY <1>8, <1>9, <1>10 DEF Step
  <1>12. h = g
    BY <1>3, <1>11 DEF LoadRefused, CheckFails, Refuse, RereadRejects, FailsLate
  <1> QED
    BY <1>11, <1>12 DEF LoadRefused, CheckFails

(* A command is told that the store is damaged only when its superblock is  *)
(* not there, or after writers that did not see each other, racing creates, *)
(* or an append behind a torn record.                                       *)
THEOREM RefusalsHaveCause == Spec => RefusedOnlyForCause
  <1> DEFINE Cause(h) == \/ ~Undisturbed
                         \/ disk = "short" /\ (lost \/ \E g \in Handles : proc[g].at = "header")
             Told == \A h \in Handles :
                       proc[h].exit # "format" /\ proc'[h].exit = "format" => Cause(h)
  <1>1. ASSUME IInv, [Next]_vars PROVE [Told]_vars
    <2>1. SUFFICES ASSUME Next, NEW h \in Handles, Undisturbed,
                          proc[h].exit # "format", proc'[h].exit = "format"
                   PROVE  disk = "short" /\ (lost \/ \E g \in Handles : proc[g].at = "header")
      BY <1>1
    <2>2. PICK g \in Handles : Step(g)
      BY <2>1 DEF Next
    <2>3. ((Runs(h, "loading") \/ Runs(h, "checking")) /\ Refuse(h)) \/ RereadRejects(h)
      BY <1>1, <2>1, <2>2, OnlyRefusals
    <2>4. disk = "short"
      <3>1. CASE (Runs(h, "loading") \/ Runs(h, "checking")) /\ Refuse(h)
        <4>1. \A v \in Views(h) : Readable(v)
          BY <1>1, <2>1, ViewSound
        <4>2. ~proc[h].cut
          BY <1>1, <2>1 DEF IInv, InvCreate, Undisturbed
        <4> QED
          BY <3>1, <4>1, <4>2 DEF Refuse
      <3>2. CASE RereadRejects(h)
        <4>1. Readable(file)
          BY <1>1, <2>1, SoundReadable DEF IInv, InvWriter
        <4> QED
          BY <3>2, <4>1 DEF RereadRejects
      <3> QED
        BY <2>3, <3>1, <3>2
    <2> QED
      BY <1>1, <2>4 DEF IInv, InvPath
  <1> QED
    BY <1>1, HandlesInvariant, PTL DEF Spec, RefusedOnlyForCause
=============================================================================
