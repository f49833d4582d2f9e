----------------------------- MODULE CommitLog -----------------------------
(***************************************************************************)
(* The commit path of one GraphStore and its file: Transaction::commit     *)
(* calls ogr::append_transaction under the store mutex, which writes the   *)
(* records one by one, closes, reads the whole file back, patches the      *)
(* superblock, and only then is the commit published in memory.            *)
(* Each of those steps can fail, and the process can die between any two.  *)
(* Only process crashes: bytes the file has received survive (the code     *)
(* never calls fsync, and a power loss is outside this model).             *)
(***************************************************************************)
EXTENDS OgrFile

CONSTANTS
  NoTxn,       \* no transaction is being committed
  Txns,        \* transactions; an identity stands for its staged contents
  Size,        \* Size[t]: the number of mutations t stages
  Tears,       \* the `missing` values of the tears that may happen
  Faults,      \* the kinds of failure that may happen
  MaxFaults,   \* bound on the number of failures in a behaviour
  MaxFile      \* bound: no append begins on a file of more records

FaultKinds == {"crash", "write", "reread", "patch"}

ASSUME CommitLogAssumption ==
  /\ NoTxn \notin Txns
  /\ Size \in [Txns -> Nat]
  /\ Undecodable \subseteq Txns
  /\ Tears \subseteq Nat
  /\ Faults \subseteq FaultKinds
  /\ MaxFaults \in Nat /\ MaxFile \in Nat

VARIABLES
  file,    \* the records of the OGR file
  header,  \* latest_commit in the superblock, which nothing reads back
  up,      \* a process has the store open
  latest,  \* GraphStore::Impl::latest
  known,   \* the transactions in the version maps: [commit, txn]
  closed,  \* transactions whose object is closed or gone with its process
  pc,      \* where append_transaction is
  cur,     \* the transaction being committed
  pos,     \* how many of its records are in the file
  acked,   \* history: the commits reported as successful
  failed,  \* history: transactions whose last commit() reported an error
  faults   \* how many failures happened

vars == <<file, header, up, latest, known, closed, pc, cur, pos, acked, failed, faults>>

Commit(t, c) == [commit |-> c, txn |-> t]

\* What the file holds of a commit: its group, as read_store returns it.
GroupOf(a) == [commit |-> a.commit, bodies |-> [i \in 1..Size[a.txn] |-> Change(a.txn, i)]]

Records == EncodeTransaction(latest, latest + 1, cur, Size[cur])

Init ==
  /\ file = <<>> /\ header = 0
  /\ up = TRUE /\ latest = 0 /\ known = {} /\ closed = {}
  /\ pc = "idle" /\ cur = NoTxn /\ pos = 0
  /\ acked = {} /\ failed = {} /\ faults = 0

-----------------------------------------------------------------------------
\* A mutation: commit() of a closed transaction is not refused.
AppendClosedToo(t) ==
  /\ up /\ pc = "idle"
  /\ Len(file) <= MaxFile
  /\ pc' = "writing" /\ cur' = t /\ pos' = 0
  /\ failed' = failed \ {t}
  /\ UNCHANGED <<file, header, up, latest, known, closed, acked, faults>>

\* commit() takes the mutex; encoding succeeded and the file is open to append.
BeginAppend(t) ==
  /\ up /\ pc = "idle" /\ t \notin closed
  /\ Len(file) <= MaxFile
  /\ pc' = "writing" /\ cur' = t /\ pos' = 0
  /\ failed' = failed \ {t}
  /\ UNCHANGED <<file, header, up, latest, known, closed, acked, faults>>

\* A mutation: the file is opened with trunc in place of app.
TruncatingWrite ==
  /\ pc = "writing" /\ pos < Len(Records)
  /\ file' = Append(IF pos = 0 THEN <<>> ELSE file, Records[pos + 1])
  /\ pos' = pos + 1
  /\ UNCHANGED <<header, up, latest, known, closed, pc, cur, acked, failed, faults>>

WriteRecord ==
  /\ pc = "writing" /\ pos < Len(Records)
  /\ file' = Append(file, Records[pos + 1])
  /\ pos' = pos + 1
  /\ UNCHANGED <<header, up, latest, known, closed, pc, cur, acked, failed, faults>>

\* A mutation: the loop over the records stops one short.
CloseOneShort ==
  /\ pc = "writing" /\ pos = Len(Records) - 1
  /\ pc' = "reread"
  /\ UNCHANGED <<file, header, up, latest, known, closed, cur, pos, acked, failed, faults>>

CloseFile ==
  /\ pc = "writing" /\ pos = Len(Records)
  /\ pc' = "reread"
  /\ UNCHANGED <<file, header, up, latest, known, closed, cur, pos, acked, failed, faults>>

\* read_store must accept the file; it need not contain the new commit.
Reread ==
  /\ pc = "reread" /\ Readable(file)
  /\ pc' = "patch"
  /\ UNCHANGED <<file, header, up, latest, known, closed, cur, pos, acked, failed, faults>>

\* A mutation: the superblock gets the number being committed, not what was read.
PatchWithIntended ==
  /\ pc = "patch"
  /\ header' = latest + 1
  /\ pc' = "publish"
  /\ UNCHANGED <<file, up, latest, known, closed, cur, pos, acked, failed, faults>>

PatchHeader ==
  /\ pc = "patch"
  /\ header' = LatestCommit(file)
  /\ pc' = "publish"
  /\ UNCHANGED <<file, up, latest, known, closed, cur, pos, acked, failed, faults>>

\* A mutation: the head is not advanced.
PublishStaleHead ==
  /\ pc = "publish"
  /\ UNCHANGED latest
  /\ known' = known \union {Commit(cur, latest + 1)}
  /\ acked' = acked \union {Commit(cur, latest + 1)}
  /\ closed' = closed \union {cur}
  /\ pc' = "idle" /\ cur' = NoTxn /\ pos' = 0
  /\ UNCHANGED <<file, header, up, failed, faults>>

\* The version maps, the head and the transaction's closed flag; then unlock.
Publish ==
  /\ pc = "publish"
  /\ latest' = latest + 1
  /\ known' = known \union {Commit(cur, latest + 1)}
  /\ acked' = acked \union {Commit(cur, latest + 1)}
  /\ closed' = closed \union {cur}
  /\ pc' = "idle" /\ cur' = NoTxn /\ pos' = 0
  /\ UNCHANGED <<file, header, up, failed, faults>>

\* A mutation: the failed append is not forgotten.
ReportKeepsCursor ==
  /\ failed' = failed \union {cur}
  /\ pc' = "idle" /\ UNCHANGED <<cur, pos>>
  /\ UNCHANGED <<header, up, latest, known, closed, acked>>

\* append_transaction returned an error: the transaction object stays open.
ReportError ==
  /\ failed' = failed \union {cur}
  /\ pc' = "idle" /\ cur' = NoTxn /\ pos' = 0
  /\ UNCHANGED <<header, up, latest, known, closed, acked>>

RereadRejects ==
  /\ pc = "reread" /\ ~Readable(file)
  /\ ReportError
  /\ UNCHANGED <<file, faults>>

Fault(kind) ==
  /\ kind \in Faults /\ faults < MaxFaults
  /\ faults' = faults + 1

\* What an interrupted write leaves: whole records, then perhaps a torn one.
LeaveTail ==
  \/ UNCHANGED file
  \/ /\ pos < Len(Records)
     /\ \E m \in {k \in Tears : CanTear(Records[pos + 1], k)} : file' = Append(file, Torn(m))

\* A mutation: an error is also reported once everything is in the file.
WriteFailsLate ==
  /\ pc = "writing"
  /\ Fault("write") /\ LeaveTail /\ ReportError

WriteFails ==
  /\ pc = "writing" /\ pos < Len(Records)
  /\ Fault("write") /\ LeaveTail /\ ReportError

RereadFails ==
  /\ pc = "reread"
  /\ Fault("reread") /\ UNCHANGED file /\ ReportError

PatchFails ==
  /\ pc = "patch"
  /\ Fault("patch") /\ UNCHANGED file /\ ReportError

\* The stream's destructor flushes the superblock and nobody looks at the result.
PatchIsLost ==
  /\ pc = "patch"
  /\ Fault("patch")
  /\ pc' = "publish"
  /\ UNCHANGED <<file, header, up, latest, known, closed, cur, pos, acked, failed>>

\* The process dies: memory and every open transaction are gone.
Crash ==
  /\ up /\ Fault("crash")
  /\ IF pc = "writing" THEN LeaveTail ELSE UNCHANGED file
  /\ up' = FALSE /\ latest' = 0 /\ known' = {}
  /\ closed' = closed \union failed \union ({cur} \ {NoTxn})
  /\ pc' = "idle" /\ cur' = NoTxn /\ pos' = 0
  /\ UNCHANGED <<header, acked, failed>>

\* GraphStore::open and Impl::load; a rejected file leaves the store closed.
Reopen ==
  /\ ~up /\ Readable(file)
  /\ up' = TRUE
  /\ latest' = LatestCommit(file)
  /\ known' = {a \in [commit : 1..Len(file), txn : Txns] :
                 \E j \in CommitPoints(file) : Group(file, j) = GroupOf(a)}
  /\ UNCHANGED <<file, header, closed, pc, cur, pos, acked, failed, faults>>

Next ==
  \/ \E t \in Txns : BeginAppend(t)
  \/ WriteRecord
  \/ CloseFile
  \/ Reread
  \/ PatchHeader
  \/ Publish
  \/ RereadRejects
  \/ WriteFails
  \/ RereadFails
  \/ PatchFails
  \/ PatchIsLost
  \/ Crash
  \/ Reopen

Spec == Init /\ [][Next]_vars

-----------------------------------------------------------------------------
(* Type correctness: the one type invariant of this module. *)
TypeOK ==
  /\ \A i \in DOMAIN file :
       /\ file[i].type \in {"TxnBegin", "Version", "TxnCommit", "Torn"}
       /\ file[i].commit \in Nat /\ file[i].missing \in Nat
  /\ header \in Nat /\ latest \in Nat /\ up \in BOOLEAN
  /\ known \subseteq [commit : Nat, txn : Txns]
  /\ acked \subseteq [commit : Nat, txn : Txns]
  /\ closed \subseteq Txns /\ failed \subseteq Txns
  /\ pc \in {"idle", "writing", "reread", "patch", "publish"}
  /\ cur \in Txns \union {NoTxn} /\ (cur = NoTxn <=> pc = "idle")
  /\ pos \in Nat /\ faults \in 0..MaxFaults

Recovered(a) == \E j \in CommitPoints(file) : Group(file, j) = GroupOf(a)

(* Atomicity: whatever failed or crashed before, a group that read_store    *)
(* replays is all of the mutations of one transaction and nothing else;     *)
(* half-written groups never leak into the next one (ogr.cpp group.clear).  *)
RecoveredWhole ==
  \A j \in CommitPoints(file) :
    \E t \in Txns : Group(file, j) = GroupOf(Commit(t, file[j].commit))

(* No step rewrites history: a group that a reopen would replay stays the   *)
(* same group at the same place, whatever is appended or torn after it.     *)
RecoverableNeverRewritten ==
  [][\A j \in CommitPoints(file) :
       /\ j \in CommitPoints(file')
       /\ Group(file', j) = Group(file, j)]_vars

(* Durability as far as the code gives it: while no record was appended     *)
(* after a torn one and no undecodable payload was written, the file opens  *)
(* and every commit reported as successful is replayed.                     *)
AckedSurviveUntilTear ==
  /\ TornAt(file) \subseteq {Len(file)}
  /\ \A i \in DOMAIN file : file[i].type = "Version" => Decodable(file[i].body)
  => /\ Readable(file)
     /\ \A a \in acked : Recovered(a)

(* The superblock never names a commit that the scan does not reach.        *)
HeaderNeverAhead == header <= LatestCommit(file)

(* With no failure after the group is complete and no torn record: between  *)
(* commits the version maps of the open store are exactly what a reopen     *)
(* would rebuild, and the head is the number of groups.                     *)
LiveEqualsDurable ==
  up /\ pc = "idle" =>
    /\ latest = LatestCommit(file)
    /\ latest = Cardinality(CommitPoints(file))
    /\ \A a \in [commit : 1..Len(file), txn : Txns] : a \in known <=> Recovered(a)

(* A transaction whose commit() reported an error changed nothing: a reopen *)
(* never shows it (docs: "no mutation after a failed transaction").         *)
FailedInvisible ==
  \A t \in failed, c \in 1..Len(file) : ~Recovered(Commit(t, c))

(* A commit() that returned a commit number is replayed by every reopen     *)
(* (docs: truncated tails "are ignored").                                   *)
AckedAlwaysRecovered ==
  \A a \in acked : Readable(file) /\ Recovered(a)

-----------------------------------------------------------------------------
(* The refinement: the durable sequence is what the scan replays.           *)
Durable ==
  [c \in 1..Cardinality(CommitPoints(file)) |->
     CHOOSE t \in Txns : Recovered(Commit(t, c))]

Abstract == INSTANCE AtomicLog WITH
  log   <- Durable,
  head  <- IF up THEN latest ELSE -1,
  acked <- {a.commit : a \in acked}

(* With crashes and failed writes that leave no torn record, the commit     *)
(* path implements the atomic log: a commit becomes durable at one point,   *)
(* is acknowledged only after it, never twice, and a reopen shows all.      *)
ImplementsAtomicLog == Abstract!Spec
=============================================================================
