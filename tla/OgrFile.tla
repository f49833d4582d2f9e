------------------------------ MODULE OgrFile ------------------------------
(***************************************************************************)
(* The durable OGR file of src/src/format/ogr.cpp, at the granularity of   *)
(* whole records.  A file is the sequence of records after the superblock; *)
(* a record cut short by a crash or a failed write is one "Torn" element.  *)
(*                                                                         *)
(* Abstractions.  Payload bytes are the pair `body`; a checksum or digest  *)
(* is the data it covers (no collisions); lengths are counted in records:  *)
(* the `missing` field of a torn record says how many later records must   *)
(* be appended before the byte count it declares is reached.  missing = 0  *)
(* is a tear inside the zero padding, where payload and checksum are       *)
(* already complete.                                                       *)
(***************************************************************************)
EXTENDS Integers, Sequences, FiniteSets

CONSTANT
  Undecodable  \* contents whose records can be encoded but not decoded again

Record(type, commit, body, missing) ==
  [type |-> type, commit |-> commit, body |-> body, missing |-> missing]

Torn(missing) == Record("Torn", 0, <<0, 0>>, missing)

\* The payload of the change record number i of a transaction with contents c.
Change(c, i) == <<c, i>>

(***************************************************************************)
(* append_transaction: TXN_BEGIN, one record per mutation, TXN_COMMIT with *)
(* the record count and the digest of every earlier payload.               *)
(***************************************************************************)
EncodeTransaction(parent, commit, c, n) ==
  LET begin   == Record("TxnBegin", commit, <<parent, n>>, 0)
      changes == [i \in 1..n |-> Record("Version", commit, Change(c, i), 0)]
      digest  == <<begin.body>> \o [i \in 1..n |-> Change(c, i)]
  IN  <<begin>> \o changes \o <<Record("TxnCommit", commit, <<n + 2, digest>>, 0)>>

\* Which `missing` an interrupted write of a record may leave.  A TXN_BEGIN needs
\* no padding, and any later record is longer than what can be missing of a
\* TXN_BEGIN or TXN_COMMIT; a version's payload may be long.
CanTear(record, m) ==
  /\ m = 0 => record.type # "TxnBegin"
  /\ m > 1 => record.type = "Version"

-----------------------------------------------------------------------------
(***************************************************************************)
(* decode_record and read_store.  The scan stops at the first torn record. *)
(* A record whose bytes run past the end of the file, and non-zero padding,*)
(* are Format errors: the scan ends quietly and the prefix is kept.  Once  *)
(* enough later bytes complete the declared length, the checksum is wrong  *)
(* and the whole file is rejected.                                         *)
(***************************************************************************)
TornAt(file) == {i \in DOMAIN file : file[i].type = "Torn"}

\* The records decode_record returns before its first error.
Scanned(file) == {i \in DOMAIN file : \A k \in 1..i : file[k].type # "Torn"}

\* Where that error is, at one position at most.
ScanStop(file) == {i \in TornAt(file) : 1..(i-1) \subseteq Scanned(file)}

\* A mutation: a record that runs past the end of the file is damage too.
StopOnlyInPadding(file, i) == file[i].missing = 0

StopIsFormatError(file, i) ==
  \/ file[i].missing = 0
  \/ Len(file) - i < file[i].missing

\* Positions of the TXN_COMMIT records the scan reaches.
CommitPoints(file) == {j \in Scanned(file) : file[j].type = "TxnCommit"}

\* A mutation: TXN_BEGIN does not clear the group read so far.
StaleGroupStart(file, j) ==
  CHOOSE b \in 1..j :
    /\ file[b].type = "TxnBegin"
    /\ \A k \in 1..(b-1) :
         file[k].type = "TxnBegin" => \E c \in k..(b-1) : file[c].type = "TxnCommit"
    /\ \A c \in b..(j-1) : file[c].type # "TxnCommit"

\* A TXN_BEGIN clears the group, so a group starts at the last one before it.
GroupStart(file, j) ==
  CHOOSE b \in 1..j :
    /\ file[b].type = "TxnBegin"
    /\ \A k \in (b+1)..j : file[k].type # "TxnBegin"

GroupBodies(file, j) ==
  [i \in 1..(j - GroupStart(file, j) - 1) |-> file[GroupStart(file, j) + i].body]

Group(file, j) == [commit |-> file[j].commit, bodies |-> GroupBodies(file, j)]

\* decode_node and decode_edge accept what encode_node and encode_edge wrote.
Decodable(body) == body[1] \notin Undecodable

\* The declared count, the digest over the earlier payloads, and every payload.
GroupIsSound(file, j) ==
  LET b == GroupStart(file, j)
  IN  /\ file[j].body[1] = j - b + 1
      /\ file[j].body[2] = <<file[b].body>> \o GroupBodies(file, j)
      /\ \A i \in (b+1)..(j-1) : Decodable(file[i].body)

\* A record other than TXN_BEGIN with no open group before it.
OutsideGroup(file, i) ==
  file[i].type # "TxnBegin" /\ (i = 1 \/ file[i-1].type = "TxnCommit")

Readable(file) ==
  /\ \A i \in ScanStop(file) : StopIsFormatError(file, i)
  /\ \A i \in Scanned(file) : ~OutsideGroup(file, i)
  /\ \A j \in CommitPoints(file) : GroupIsSound(file, j)

\* StoreImage::latest_commit: that of the last group, 0 for an empty store.
LatestCommit(file) ==
  IF CommitPoints(file) = {} THEN 0
  ELSE file[CHOOSE j \in CommitPoints(file) : \A k \in CommitPoints(file) : k <= j].commit
=============================================================================
