---------------------------- MODULE StoreHandles ----------------------------
(***************************************************************************)
(* Commands of the orbit tool, each a process of its own, on one path:     *)
(* init, apply, check and query (src/src/cli/main.cpp).  Each opens the    *)
(* store, which creates the file if it may, loads it, and then commits one *)
(* transaction, reads the file again, or answers from memory.              *)
(*                                                                         *)
(* Nothing coordinates the processes: there is no lock file, a handle      *)
(* never sees what others append after its load, and existence is tested   *)
(* before the file is created, which truncates it under whoever uses it.   *)
(* Readers run while another process appends.  A write may fail or its     *)
(* process die in the middle of a record, and an apply may fail when its   *)
(* group is already in the file.                                           *)
(***************************************************************************)
EXTENDS OgrFile

CONSTANTS
  Handles,    \* the processes; one stands also for what its script contains
  Mixes,      \* which command each process may be: functions from Handles
  Size,       \* the mutations in the script of an apply
  Tears,      \* the `missing` values of the tears that may happen
  MaxFaults   \* bound on the failures in a behaviour

ASSUME StoreHandlesAssumption ==
  /\ IsFiniteSet(Handles)
  /\ Mixes \subseteq [Handles -> {"init", "apply", "check", "query"}]
  /\ Size \in Nat
  /\ Undecodable = {}
  /\ Tears \subseteq Nat
  /\ MaxFaults \in Nat

VARIABLES
  disk,    \* the path: "missing", "short" (no whole superblock) or "store"
  file,    \* the records after the superblock, or after the place for it
  command, \* the command each process is, "init", "apply", "check" or "query"
  proc,    \* the memory of each process
  sole,    \* history: each append began from the head of the file, alone
  raced,   \* history: two commands found the path missing before either made it
  lost,    \* history: a create died before its superblock, or did not flush it
  late,    \* history: the applies that failed when their group was in the file
  faults   \* how many failures happened

vars == <<disk, file, command, proc, sole, raced, lost, late, faults>>
history == <<sole, raced, lost, late, faults>>

\* Where the command is, how it ended ("none" while it runs), the head of its
\* GraphStore, how much of the file was there when its read began and, as
\* history, which applies had succeeded by then, how much of its group an apply
\* has written, and whether the path was truncated under its read or append.
Fresh == [at |-> "start", exit |-> "none", head |-> 0, mark |-> 0, owed |-> {},
          pos |-> 0, cut |-> FALSE]

Runs(h, where) == proc[h].exit = "none" /\ proc[h].at = where
Goes(h, where) == proc' = [proc EXCEPT ![h].at = where]
Ends(h, how)   == proc' = [proc EXCEPT ![h] = [Fresh EXCEPT !.exit = how]]

Fault == faults < MaxFaults /\ faults' = faults + 1

Init ==
  /\ disk = "missing" /\ file = <<>>
  /\ command \in Mixes
  /\ proc = [h \in Handles |-> Fresh]
  /\ sole = TRUE /\ raced = FALSE /\ lost = FALSE /\ late = {} /\ faults = 0

-----------------------------------------------------------------------------
(* GraphStore::open.                                                        *)

\* A mutation: a path without a whole superblock counts as missing.
FindUnusable(h) ==
  /\ Runs(h, "start") /\ disk # "store" /\ command[h] = "init"
  /\ Goes(h, "create")
  /\ raced' = (raced \/ \E g \in Handles \ {h} : Runs(g, "create") \/ Runs(g, "header"))
  /\ UNCHANGED <<command, disk, file, sole, lost, late, faults>>

FindMissing(h) ==
  /\ Runs(h, "start") /\ disk = "missing" /\ command[h] = "init"
  /\ Goes(h, "create")
  /\ raced' = (raced \/ \E g \in Handles \ {h} : Runs(g, "create"))
  /\ UNCHANGED <<command, disk, file, sole, lost, late, faults>>

\* A mutation: a path that does not exist is not refused.
IgnoreMissing(h) ==
  /\ Runs(h, "start") /\ disk = "missing" /\ command[h] # "init"
  /\ Goes(h, "load")
  /\ UNCHANGED <<command, disk, file, history>>

RefuseMissing(h) ==
  /\ Runs(h, "start") /\ disk = "missing" /\ command[h] # "init"
  /\ Ends(h, "missing")
  /\ UNCHANGED <<command, disk, file, history>>

FindExisting(h) ==
  /\ Runs(h, "start") /\ disk # "missing"
  /\ Goes(h, "load")
  /\ UNCHANGED <<command, disk, file, history>>

\* create_empty opens the path with trunc, whatever is there by now and whoever
\* is reading it or appending to it.
Truncate(h) ==
  /\ Runs(h, "create")
  /\ disk' = "short" /\ file' = <<>>
  /\ proc' = [g \in Handles |->
                IF g = h THEN [proc[g] EXCEPT !.at = "header"]
                ELSE [proc[g] EXCEPT
                        !.cut = @ \/ proc[g].at \in {"loading", "checking", "append"}]]
  /\ UNCHANGED <<command, history>>

\* The superblock is written at offset 0, over what others have appended there.
WriteHeader(h) ==
  /\ Runs(h, "header")
  /\ disk' = "store"
  /\ Goes(h, "load")
  /\ UNCHANGED <<command, file, history>>

\* The stream's destructor flushes the superblock and nobody looks at the result.
HeaderIsLost(h) ==
  /\ Runs(h, "header")
  /\ Fault
  /\ lost' = TRUE
  /\ Goes(h, "load")
  /\ UNCHANGED <<command, disk, file, sole, raced, late>>

Succeeded == {a \in Handles : command[a] = "apply" /\ proc[a].exit = "ok"}

BeginRead(h, where) ==
  /\ proc' = [proc EXCEPT ![h].at = where, ![h].mark = Len(file), ![h].owed = Succeeded]
  /\ UNCHANGED <<command, disk, file, history>>

BeginLoad(h) == Runs(h, "load") /\ BeginRead(h, "loading")

\* What read_all may return while others append: everything that was there when
\* it began, and a part of what came since, perhaps with half a record.
Views(h) ==
  LET prefix(n) == SubSeq(file, 1, n)
  IN  {prefix(n) : n \in proc[h].mark..Len(file)}
        \union {Append(prefix(n), Torn(1)) : n \in proc[h].mark..(Len(file) - 1)}

\* A read under which the path was truncated mixes the bytes of two files: it is
\* refused, or finds any number for the latest commit.
Refuse(h) ==
  /\ proc[h].cut \/ disk = "short" \/ \E v \in Views(h) : ~Readable(v)
  /\ Ends(h, "format")
  /\ UNCHANGED <<command, disk, file, history>>

Loaded(h, latest) ==
  proc' = [proc EXCEPT ![h] = [Fresh EXCEPT !.at = "open", !.head = latest]]

Load(h) ==
  /\ Runs(h, "loading")
  /\ \/ /\ ~proc[h].cut /\ disk = "store"
        /\ \E v \in Views(h) : Readable(v) /\ Loaded(h, LatestCommit(v))
     \/ /\ proc[h].cut
        /\ \E n \in 0..Cardinality(Handles) : Loaded(h, n)
  /\ UNCHANGED <<command, disk, file, history>>

LoadRefused(h) == Runs(h, "loading") /\ Refuse(h)

\* create_empty or read_all cannot open the path, or commit to append to it.
CannotOpen(h) ==
  /\ \/ Runs(h, "create") \/ Runs(h, "loading") \/ Runs(h, "checking")
     \/ Runs(h, "open") /\ command[h] = "apply"
  /\ Fault
  /\ Ends(h, "failed")
  /\ UNCHANGED <<command, disk, file, sole, raced, lost, late>>

-----------------------------------------------------------------------------
(* The commands after the open.                                             *)

\* init prints, query and inspect answer from the loaded versions.
Answer(h) ==
  /\ Runs(h, "open") /\ command[h] \in {"init", "query"}
  /\ Ends(h, "ok")
  /\ UNCHANGED <<command, disk, file, history>>

BeginCheck(h) == Runs(h, "open") /\ command[h] = "check" /\ BeginRead(h, "checking")

CheckPasses(h) ==
  /\ Runs(h, "checking")
  /\ proc[h].cut \/ (disk = "store" /\ \E v \in Views(h) : Readable(v))
  /\ Ends(h, "ok")
  /\ UNCHANGED <<command, disk, file, history>>

CheckFails(h) == Runs(h, "checking") /\ Refuse(h)

\* A mutation: a bad line after the commit line is only met when it is written.
ScriptFailsLate(h) ==
  /\ Runs(h, "reread") /\ command[h] = "apply"
  /\ Ends(h, "usage")
  /\ UNCHANGED <<command, disk, file, history>>

\* apply_script stops at the first bad line; the transaction goes with it.
ScriptFails(h) ==
  /\ Runs(h, "open") /\ command[h] = "apply"
  /\ Ends(h, "usage")
  /\ UNCHANGED <<command, disk, file, history>>

BeginApply(h) ==
  /\ Runs(h, "open") /\ command[h] = "apply"
  /\ Goes(h, "append")
  /\ sole' = (sole /\ proc[h].head = LatestCommit(file)
                   /\ \A g \in Handles \ {h} : proc[g].at # "append")
  /\ UNCHANGED <<command, disk, file, raced, lost, late, faults>>

Records(h) == EncodeTransaction(proc[h].head, proc[h].head + 1, h, Size)

\* A piece of a record, too short for a record header or long enough to be taken
\* for one: then what it says is wrong at once.
Pieces == {<<Torn(1)>>, <<Torn(1), Torn(1)>>}

\* What becomes of record r when h appends it.  The first to come after a
\* truncation may lie where the superblock will be written, or stick out of that
\* place; of a record half written when the path was truncated the rest comes.
Landings(h, r) ==
  LET early == disk = "short" /\ file = <<>>
  IN  {Append(file, r)}
        \union {file \o p : p \in IF early \/ proc[h].cut THEN Pieces ELSE {}}
        \union (IF early THEN {file} ELSE {})

AppendRecord(h) ==
  LET next == proc[h].pos + 1
      done == next = Len(Records(h))
  IN  /\ Runs(h, "append")
      /\ file' \in Landings(h, Records(h)[next])
      /\ proc' = [proc EXCEPT ![h].pos = IF done THEN 0 ELSE next,
                              ![h].at  = IF done THEN "reread" ELSE "append",
                              ![h].cut = FALSE]
      /\ UNCHANGED <<command, disk, history>>

\* What an interrupted write leaves: whole records, then perhaps a torn one.
LeaveTail(h) ==
  \/ UNCHANGED file
  \/ \E m \in Tears : /\ CanTear(Records(h)[proc[h].pos + 1], m)
                      /\ file' = Append(file, Torn(m))

\* A write or the flush reports an error, and the rest is not written.
AppendFails(h) ==
  /\ Runs(h, "append")
  /\ Fault
  /\ LeaveTail(h)
  /\ Ends(h, "failed")
  /\ UNCHANGED <<command, disk, sole, raced, lost, late>>

\* The file is read back whole.
Reread(h) ==
  /\ Runs(h, "reread") /\ disk = "store" /\ Readable(file)
  /\ Goes(h, "patch")
  /\ UNCHANGED <<command, disk, file, history>>

FailsLate(h, how) == Ends(h, how) /\ late' = late \union {h}

RereadRejects(h) ==
  /\ Runs(h, "reread") /\ (disk = "short" \/ ~Readable(file))
  /\ FailsLate(h, "format")
  /\ UNCHANGED <<command, disk, file, sole, raced, lost, faults>>

\* The whole group is written, but the close reports an error, the file cannot
\* be opened to read it back or to patch the superblock, or the patch fails.
CommitFails(h) ==
  /\ Runs(h, "reread") \/ Runs(h, "patch")
  /\ Fault
  /\ FailsLate(h, "failed")
  /\ UNCHANGED <<command, disk, file, sole, raced, lost>>

\* A mutation: apply_script returns success before the transaction is written.
ApplyTooSoon(h) ==
  /\ Runs(h, "append")
  /\ Ends(h, "ok")
  /\ UNCHANGED <<command, disk, file, history>>

\* The superblock is written again, unless its flush is lost, and the commit
\* reported.
ApplySucceeds(h) ==
  /\ Runs(h, "patch")
  /\ disk' = "store" \/ UNCHANGED disk
  /\ Ends(h, "ok")
  /\ UNCHANGED <<command, file, history>>

\* The process dies between any two of its steps, or in the middle of a write.
Die(h) ==
  /\ proc[h].exit = "none" /\ proc[h].at # "start"
  /\ Fault
  /\ IF proc[h].at = "append" THEN LeaveTail(h) ELSE UNCHANGED file
  /\ Ends(h, "died")
  /\ lost' = (lost \/ proc[h].at = "header")
  /\ UNCHANGED <<command, disk, sole, raced, late>>

Step(h) ==
  \/ FindMissing(h) \/ RefuseMissing(h) \/ FindExisting(h)
  \/ Truncate(h) \/ WriteHeader(h) \/ HeaderIsLost(h)
  \/ BeginLoad(h) \/ Load(h) \/ LoadRefused(h) \/ CannotOpen(h)
  \/ Answer(h)
  \/ BeginCheck(h) \/ CheckPasses(h) \/ CheckFails(h)
  \/ ScriptFails(h) \/ BeginApply(h) \/ AppendRecord(h) \/ AppendFails(h)
  \/ Reread(h) \/ RereadRejects(h) \/ CommitFails(h) \/ ApplySucceeds(h)
  \/ Die(h)

Next == \E h \in Handles : Step(h)

Spec == Init /\ [][Next]_vars

-----------------------------------------------------------------------------
(* Type correctness: the one type invariant of this module.  No command is  *)
(* past its open while the path does not exist.                             *)
TypeOK ==
  /\ disk \in {"missing", "short", "store"}
  /\ disk = "missing" =>
       file = <<>> /\ \A h \in Handles : proc[h].at \in {"start", "create"}
  /\ \A i \in DOMAIN file :
       /\ file[i].type \in {"TxnBegin", "Version", "TxnCommit", "Torn"}
       /\ file[i].commit \in Nat /\ file[i].missing \in Nat
  /\ command \in Mixes
  /\ \A h \in Handles :
       /\ proc[h].at \in {"start", "create", "header", "load", "loading", "open",
                          "checking", "append", "reread", "patch"}
       /\ proc[h].exit \in {"none", "ok", "missing", "usage", "format", "failed", "died"}
       /\ proc[h].head \in Nat /\ proc[h].mark \in Nat
       /\ proc[h].pos \in 0..(Size + 1) /\ proc[h].owed \subseteq Handles
       /\ proc[h].cut \in BOOLEAN
  /\ sole \in BOOLEAN /\ raced \in BOOLEAN /\ lost \in BOOLEAN
  /\ late \subseteq Handles /\ faults \in 0..MaxFaults

Shows(f, a) ==
  \E j \in CommitPoints(f) : GroupBodies(f, j) = [i \in 1..Size |-> Change(a, i)]

\* Appends were exclusive and each began from the head of the file, creates did
\* not race, and nothing was appended behind a torn record.
Undisturbed == sole /\ ~raced /\ TornAt(file) \subseteq {Len(file)}

(* A command is told that the store is damaged only when its superblock is  *)
(* not there - a create is under way, died or was not flushed - or when two *)
(* processes wrote without one seeing the other's commit, creates raced, or *)
(* records were appended behind a torn one.  In particular a load or check  *)
(* that overlaps one writer never is, nor one that comes after a writer     *)
(* which failed or died.                                                    *)
RefusedOnlyForCause ==
  [][\A h \in Handles : proc[h].exit # "format" /\ proc'[h].exit = "format" =>
       \/ ~Undisturbed
       \/ disk = "short" /\ (lost \/ \E g \in Handles : proc[g].at = "header")]_vars

(* While appends are exclusive and creates did not race, and until a record *)
(* is appended behind a torn one, whatever a load or check returns that     *)
(* overlaps a writer shows every transaction whose apply had succeeded when *)
(* the read began, and its numbers are 1, 2, 3...                           *)
ReadsShowSucceeded ==
  Undisturbed =>
    \A h \in Handles : Runs(h, "loading") \/ Runs(h, "checking") =>
      \A v \in Views(h) :
        /\ \A a \in proc[h].owed : Shows(v, a)
        /\ \A j \in CommitPoints(v) :
             v[j].commit = Cardinality({k \in CommitPoints(v) : k <= j})

(* What the exit status of an apply says about its script, although the     *)
(* file may have grown before, during and after it: success means that the  *)
(* file has it, and an error that it has not, unless the apply failed when  *)
(* its group was complete: then the file has it all the same, and applying  *)
(* the script again would commit it twice.                                  *)
ApplyReportsTruth ==
  Undisturbed =>
    \A h \in Handles : command[h] = "apply" =>
      /\ proc[h].exit = "ok" => Shows(file, h)
      /\ proc[h].exit \in {"missing", "usage", "format", "failed"} =>
           (Shows(file, h) <=> h \in late)

(* No command repairs a path whose create died or was not flushed: open    *)
(* only tests that the path exists, so the file is never made again, with   *)
(* or without create_if_missing, and every later command is refused.        *)
ShortFileStays == lost /\ ~raced => disk = "short"
=============================================================================
