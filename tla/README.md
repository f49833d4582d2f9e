# Orbit temporal graph engine: TLA+ verification project

This directory models the storage engine of Orbit (`src/`, C++20): the durable
OGR file and the commit path, the multi-version store with its snapshots,
indexes and subscriptions, the index generations with leases, background builds
and compaction, statements from their text to their rows, and the processes of
the command line tool on one file. TLC checks the models on small instances; TLAPS
proves, for every value of the constants, every safety property and every
refinement that the passing runs check: of the commit path, of the store and its
subscriptions, of the snapshots with their indexes, of the leases, of the
processes on one file, of the parser and of the executor. What only TLC checks is
liveness.

Line numbers below and in `PROJECT.json` refer to the sources under `src/`.

## 1. The system

| Part | Code | State it keeps | Operations |
|---|---|---|---|
| OGR file | `src/format/ogr.cpp` | 4096-byte superblock, framed records | `create_empty`, `read_store`, `append_transaction` |
| Store | `GraphStore::Impl` in `src/store/graph_store.cpp` | head `latest`, `shutting_down`, version maps `nodes`/`edges`, `change_log` | `open`/`load`, `begin`, `snapshot`, `subscribe_commits`, `shutdown`, `check`, `inspect` |
| Transaction | `Transaction::Impl` | staged puts and deletes, `closed` | `put_*`, `delete_*`, `commit`, `abort` |
| Lease registry | `LeaseRegistry` | `pins`, `known_generations`, `latest_generation` under its own mutex | register, pin, unpin, evict, `has_pinned_older_than` |
| Snapshot | `GraphSnapshot::Impl` | immutable nodes and edges at (commit, valid time), local indexes, a pin | lookups; the pin goes with the last reference |
| Background build | `BackgroundIndexBuild` | a future, a plain-`bool` cancel flag | start, cancel, wait |
| Compaction | `plan_compaction`, `compact` | only the registry | plan under a lock, verify and publish under another, evict under none |
| Query | `src/query/query.cpp` | prepared AST, cancel token, result cursor | parse, explain, execute serial or parallel, cancel, `next` |
| Command line | `src/cli/main.cpp` | one `GraphStore` per process | `init`, `apply`, `check`, `inspect`, `query`, `explain` |
| Base, tools | `src/base`, `tools`, `fuzz` | none | values, checked arithmetic, drivers |

How they interact. `Transaction::commit` holds the store mutex while it
validates against the head, calls `append_transaction` (which writes the
records, closes, reads the whole file back and patches the superblock), updates
the version maps, appends to the change log, advances the head and registers a
generation. A snapshot pins a generation and is released by any thread with no
store lock. A background worker takes a snapshot on its own thread. `compact`
locks twice. A query reads one immutable snapshot; in the parallel mode up to
four `std::async` workers expand a chunk of the seeds each and the caller joins
them in order. Each command of the tool is a process that opens the file for
itself; nothing coordinates them. After a crash `load` rebuilds everything from the file, whose last
record may be torn.

What is hard: process crashes and I/O errors between any two of those steps,
torn tails, retries of a failed commit, two separate locks, checks made under
one lock and used under another, data races on the cancel flags, limits that
one execution mode checks as it goes and the other afterwards, state that is
built incrementally while running but all at once by `load`, two ways of comparing
a property value, and processes that read and create the file with no lock. `PROJECT.json`
lists each hazard at its line with the properties that cover it.

What makes each part correct:

- the file: a scan replays whole transactions only, never fewer than before, and every acknowledged commit;
- the commit path: one durable point per transaction, acknowledged only after it, at most once;
- the store: the graph at each commit never changes, edges are put between visible endpoints, snapshots equal a replay of the file before and after a reopen;
- subscriptions: each change exactly once and in order across resubscriptions;
- leases: pin counts equal live snapshots, nothing read is evicted, generations follow the head, the mutex is released after shutdown;
- queries: serial and parallel execution return the same rows in the same order, limits are exact in both, an error has a cause;
- indexes: a lookup returns what a scan of the replayed graph selects; compaction's verification accepts every such snapshot and reaches what is retained;
- statements: a text is prepared as exactly the query it says, or refused;
- processes: a reader that overlaps one writer is never told that the file is damaged and misses no commit reported before it began; success of a command means the file has its script, and an error that it has not, but for the one path on which commit fails late.

## 2. Modules

| Module | Models | Code |
|---|---|---|
| `OgrFile` | what a sequence of records means to `decode_record`/`read_store`: where the scan stops, which groups it replays, when the file is refused | `ogr.cpp` 343-678 |
| `CommitLog` | the commit path with every failure and crash | `ogr.cpp` 623-711, `graph_store.cpp` 714-830 |
| `AtomicLog` | abstract: a log, a head, acknowledgements | what `commit` promises |
| `GraphValues` | graphs without versions and what of them is visible at a valid time | `value.cpp` 9-11 and the reference for snapshots |
| `TemporalGraph` | abstract: a growing sequence of graphs | what the store promises |
| `GraphStore` | transactions, version maps, snapshots, subscriptions, shutdown, load | `graph_store.cpp` 92-160, 363-541, 543-566, 605-841, 1028-1050 |
| `IndexLeases` | registry, snapshots, builds, compaction, shutdown | `graph_store.cpp` 165-267, 432-484, 584-603, 843-1050 |
| `QueryResult` | what a query means: its rows, their order, the work and the frontier they need | helpers from `query.cpp` 576-683; the rest is the reference |
| `QueryExec` | execution serial and parallel, limits, cancellation, merge, cursor | `query.cpp` 443-853, 876-1168 |
| `PropertyValues` | property values: canonical text, typed comparison | `value.cpp` 29-58, `query.cpp` 396-472 |
| `SnapshotIndexes` | materialization, the indexes and lookups of snapshots, verification in compaction; extends `GraphStore` | `graph_store.cpp` 44-160, 240-357, 378-484 |
| `OqsParser` | tokens, clauses and errors of a statement; the language of `docs/OQS_LANGUAGE.md` as phrases | `query.cpp` 43-394, 1209-1220 |
| `OqsQuery` | composes `OqsParser`, `PropertyValues` and `QueryExec`: text, parameters and graph to rows | `query.cpp` 474-505, 659-683, 876-960 |
| `StoreHandles` | commands as processes on one path: creation, loads beside appends, failed and torn writes, exit statuses, deaths; extends `OgrFile` | `main.cpp`, `graph_store.cpp` 814-830, `ogr.cpp` 498-532, 660-712 |
| `OgrFileProofs` | lemmas about files of any length: what an append does to the scan and to the groups | |
| `CommitLogProofs` | theorems about `CommitLog`, with every failure, and, when no record is torn and nothing fails after a group is complete, with the refinement of `AtomicLog` | |
| `GraphStoreProofs` | the invariant of `GraphStore`, subscriptions; snapshots equal replay; the refinements of `AtomicLog` and `TemporalGraph` | |
| `IndexLeasesProofs` | theorems about `IndexLeases` | |
| `SnapshotIndexesProofs` | theorems about `SnapshotIndexes` and `PropertyValues`; extends `GraphStoreProofs` | |
| `StoreHandlesProofs` | theorems about `StoreHandles` | |
| `QueryExecProofs` | theorems about `QueryExec` and the reference of `QueryResult` | |
| `OqsQueryProofs` | theorems about `OqsParser` and `OqsQuery`; extends `QueryExecProofs` | |
| `MCCommitLog`, `MCGraphStore`, `MCIndexLeases`, `MCOqsQuery`, `MCSnapshotIndexes`, `MCStoreHandles` | instances for TLC | |

`CommitLog` and `GraphStore` meet in `AtomicLog`: `CommitLog` shows that records
on a file, with crashes, implement an atomic log; `GraphStore` uses a file of
whole groups and is itself shown to implement the same `AtomicLog`. What the
second assumes is what the first establishes, and the runs that end in a
violation show where it stops being true.

Definitions whose comment begins with "A mutation:" are not part of the model.
Each is a plausible wrong version of the definition that follows it, kept to
show that the property it is paired with in `PROJECT.json` can fail.

### State and actions

`OgrFile`/`CommitLog`. A file is a sequence of records. A payload is the pair
(contents, index); a CRC is the data it covers. A record cut short is one `Torn`
element with a `missing` count: how many later records must be appended before
the bytes it declares are there. While they are not, the scan ends quietly; once
they are, the checksum is wrong and the whole file is refused; with `missing = 0`
only padding is missing, which stays a quiet end for ever. `Undecodable` contents
can be written and not read back. `pc` is the place inside `append_transaction`;
`WriteFails`, `RereadRejects`, `RereadFails`, `PatchFails` are its error returns,
`PatchIsLost` the unchecked flush of the header stream, `Crash` the process dying
at any point. Bytes the file has received survive: the code never calls fsync and
a power loss is not modelled.

`GraphStore`. `durable` is the sequence of groups of the file. `CommitAppend` is
`commit()` up to a successful append, `Publish` the rest; only a crash can come
between, because the mutex is held. Staging takes no lock and interleaves with
other commits. `Snapshot(commit, t)` is `make_snapshot_locked`. `Reopen` is
`load`: versions, then tombstones, sorted by commit, and a change log made from
the versions. Labels and properties do not influence visibility; `SnapshotIndexes`
gives the views labels, types and properties and keeps the actions.

`IndexLeases`. `mutex` is only held over several steps by a verification inside
`compact`; all other critical sections are single actions that require it free.
Registry calls take its own mutex and may come between any two steps. A snapshot
is the generation it pins; commits 0 and 1 share generation 1, as in the code. A
read of the cancel flag after a cancel may or may not see it.

`SnapshotIndexes`. It adds no variable and no action: a snapshot is a function of the
version maps, a commit and a valid time (`Materialize`), so its properties
quantify over all snapshots of every state `GraphStore` reaches. `SpecExisting` starts with a file
that exists, so both `load` and commits build the maps. Index entries are
positions in the sorted vectors, as in the code. The reference scans the graph
replayed from the file (`GraphAfter`). The verification of `compact` holds the
store mutex, so it is a function too: `ProbeTimes` and `Probed` are what it looks
at. `VerificationReachesRetained` says what that covers: every node version begun
in the window, and edges whose endpoints were begun there; an edge visible only
beside an endpoint from before the window may be missed by the code, which probes
no times of older versions.

`PropertyValues`. Doubles count halves and the range is scaled: `Exact` stands for
2^53, `Spacings` for the distances between doubles (1, 2, 4 and so on, each up to
`Exact` times itself) and `SciFrom` for 10^17. A text is represented by the value whose text it is.

`OqsParser`/`OqsQuery`. A text is a sequence of lexemes (a word, a string in quotes,
or one without its closing quote); what the code computes from the characters of
a lexeme is given by constants. The parser is one operator per clause over a state of
remaining tokens, ast and first error. The reference enumerates, for an ast, all
phrases that say it, without looking at how the parser proceeds. Where the
documentation is silent both follow the code: a quoted lexeme is a token like
any other, so `"5"` is a number and `"$x"` a parameter; a literal that
`std::stoll` or `std::stod` throws for is a refusal of its own kind. A `COST` whose
name is empty is there (`ast.cost` is a sequence of at most one name), as the
`std::optional` of the code is. `Prepare` is
the call of `prepare_query`; then `QueryExec` runs the query.

`StoreHandles`. `disk` says whether the path is missing, shorter than a superblock or a store;
`file` is its records. `proc` is the memory of each process, `command` what it was
started as. A read takes two steps, and returns everything there was at its
beginning and any part of what was appended meanwhile, perhaps with half a record.
`Truncate` and `WriteHeader` are the two effects of `create_empty`, and `HeaderIsLost` its unchecked
flush. `Truncate` has no guard but its place: it empties the path under whoever
reads or appends (`cut` remembers under whom), and a file that has no superblock yet
may get records, as a writer that loaded an earlier one goes on. Their place
may be the superblock's own, so the first is then whole, in pieces, or gone when the
superblock is written (`Landings`). An apply appends record by record
(`AppendRecord`), then reads the file back (`Reread`) and patches the superblock
(`ApplySucceeds`). It may fail to open the path (`CannotOpen`), in the
middle of its group (`AppendFails`, which leaves whole records and perhaps a torn
one), when the file read back is refused (`RereadRejects`), or at the close, the second
open or the patch (`CommitFails`). The last two happen when the group is in the file, and put
the process in `late`. `Die` may leave the same tail as a failed write. The history
variables `sole`, `raced` and `lost` record whether appends were exclusive and from
the head, whether creates raced, and whether a superblock was lost.
`Undisturbed` is the condition of three of the properties: `sole`, not `raced`, and no
record behind a torn one. Without it they are false of the code: a torn tail hides
or spoils what is appended next (finding `commitlog_torn_tail`). What the superblock says of the
latest commit is left to `CommitLog`; no read uses it.

`QueryResult`/`QueryExec`. A query is a record of the statement, the options and
the part of the snapshot it can see; `OqsQuery` makes it. Each partition of the seeds
is a record with what the worker still has to do (`todo`, the `queue` of the
search, the edges `adj` of the current path) and has done (`rows`, `work`,
`error`); a serial execution is one partition that also polls the token and the
limits. One action is one poll with what follows it: a seed, an edge, a dequeued
path. A row is the path that led to it, whatever column is yielded. Node ids are
ordered as strings by `Rank`. `Merge` joins the futures; it waits for all of
them, which changes nothing, because workers share no state and the error taken
is that of the first partition. The parallel mode reads the token once, before it
starts. Paths over parallel edges have one cost and one key, and `std::sort` is
not stable: the constant `Ties` is the orders in which it may leave them, and
`IsResult` accepts any. The design document (`09_orbit_temporal_graph_query_engine.md:339`) says
of the token that operator loops poll, which only the serial ones do. The reference does not
mention chunks, queues or polls: rows are defined by enumerating paths.

## 3. Runs

| Run | Expect | What it shows |
|---|---|---|
| `commitlog_faults` | pass | all failures, tears of every kind, an undecodable payload, two failures per behaviour: replayed groups are whole (`RecoveredWhole`) and never rewritten (`RecoverableNeverRewritten`), the superblock never names an unreachable commit (`HeaderNeverAhead`), and while nothing was appended after a tear every acknowledged commit is recovered (`AckedSurviveUntilTear`) |
| `commitlog_clean` | pass | crashes and write errors that leave whole records: refinement of `AtomicLog`, memory equals file (`LiveEqualsDurable`), failed commits invisible (`FailedInvisible`) |
| `commitlog_torn_tail` | violation | an acknowledged commit lost behind a torn tail (finding) |
| `commitlog_failed_commit` | violation | `commit()` fails after the group is durable (finding) |
| `graphstore_versions` | pass | three transactions, crashes: snapshots equal replay (`SnapshotsMatchReplay`), a client across crashes and resubscriptions (`ConsumersExactlyOnce`), refinement of `TemporalGraph` and `AtomicLog` |
| `graphstore_empty_commit` | violation | the change of an empty commit is lost by a reopen (finding) |
| `leases_safety` | pass | a snapshot caller, a build, two compactions, commits, evictions, shutdown: `PinsMatchOwners`, `PinnedAreKnown`, `GenerationTracksHead`, `CompactionWindowExists`, and `ShutdownDrains` under fairness |
| `query_modes` | pass | 630 requests of 285 texts, of which 67 are accepted: statements are prepared as written and as nothing else, or refused (`PreparedAsWritten`); executed serially and in parallel: exact rows and order (`ResultIsExact`), success exactly if the query fits its limits (`SucceedsIffFits`), errors with a cause under cancellation and several failing workers (`ErrorHasCause`), reading in batches (`CompleteMeansAll`), termination (`RequestEnds`) |
| `leases_compact_race` | violation | `compact` publishes under an old pin (finding) |
| `snapshot_indexes` | pass | lookups equal scans (`LookupsEqualScans`), the verification of compaction accepts every store (`VerificationAccepts`) and reaches what is retained (`VerificationReachesRetained`), equality through the index selects nothing that comparing would not (`EqualityIsSound`) |
| `index_equality` | violation | the index misses values that compare equal (finding) |
| `store_handles` | pass | four processes, failed and torn writes, truncation under writers: who is told that the file is damaged and why (`RefusedOnlyForCause`), what a read must show (`ReadsShowSucceeded`), what the exit status of an apply means (`ApplyReportsTruth`), and that a create cut short is never repaired (`ShortFileStays`) |

Bounds. `CommitLog`: three transactions of one, two and no mutations; no append
begins on a file of more than 8 records, which leaves room for a half-written
group, a retry and two more commits; two failures are enough for a failure, a
retry and a crash, or a tear and a crash after it. Tears: padding only, one
missing record, and four, so that both continuations (still short, and completed
by later commits) happen. `GraphStore`: two nodes and an edge between them, a
node interval shorter than the edge's, valid times on both sides of its end,
three transactions of up to two mutations and three commits, so that put, delete
and put again of one node and a concurrent delete of an endpoint all happen.
Symmetry permutes transactions, which the specification and its
properties treat alike. One client is enough: clients share nothing but the change
log, which they only read. `IndexLeases`: two commits give the
generations 1 (shared), 2 and a replacement 3; a handle and a build on one generation make
counts above one; two compactions overlap. There is no symmetry, for the liveness
property. `SnapshotIndexes`: a file with three nodes and two
parallel edges whose intervals are in another order than their ids, then two
transactions of one mutation each that put, put again with another label and
value, or delete, and a self-loop; valid times from the first start to the last
end; an integer, two doubles, one of them equal to the integer, and a string as values.
`index_equality` has one node and numbers around `Exact` and `SciFrom`.
`StoreHandles`: four processes in three mixes - two creators with a writer and a
reader, two creators with two kinds of readers, one creator with two writers and a command
that reads twice - and one failure, be it a death, a failed open, write or
patch, or a lost flush. Tears of which only padding or one record is missing: with
the second, a later exclusive apply completes the torn record and the file is
refused; with the first, the apply succeeds unseen. A torn write followed by another
apply and a read, and a failure after the group is complete, are each one failure. `OqsParser`: seven statements that use every clause, an empty name, keywords as
names and both cases, each with every token left out, repeated, replaced by a keyword, and two of
its tokens in quotes or with the closing quote missing; literals and hop bounds at
their edges; a text of more lexemes than allowed. A refused text is compared with
405 asts, which include those of the statements it was made from. `QueryExec`: a graph of three
nodes with a cycle, two parallel edges and a self-loop, searched in both
directions to depth one and two, and to three serially with ample limits; its ids 2 and 10
sort otherwise as strings. Three seeds give three workers, five seeds (in steps
and scans) give chunks of two, two and one. Every limit is ample, or in turn met
exactly, exceeded by one, or zero; each of two edges in turn has an unusable cost,
and one candidate an incomparable property. Batches of one and three rows divide
the results with and without a rest. `Ties` has two orders: equal rows stay as
they are, or are turned round.

Fairness. Two runs need it. `leases_safety`: weak fairness of each worker thread's
steps and of each thread inside `compact`. Both are ordinary running threads that
wait for nothing but the store mutex, whose critical sections all end; the only
one that spans several steps is that of a fair compactor. Nothing is assumed of
callers: they may never release a snapshot, wait for a build or call anything.
Weak fairness suffices although commits and snapshots compete for the mutex,
because commits are bounded and no action that could disable a waiting thread
recurs for ever after shutdown.

`query_modes`: weak fairness of the thread that calls `prepare_query` and `execute` and of each worker;
nobody need cancel or read the cursor.

Deadlock is not checked in `query_modes`, where an execution that has ended is
finished, in `store_handles`, where every command ends, and in the `CommitLog` runs: a file that can no longer be
read stays closed, which is what the code does, and the number of transactions
and failures is bounded.

## 4. Proofs

What TLAPS proves, each for every value of the constants under the assumption
its module names (`CommitLogAssumption`, `GraphStoreAssumption`,
`SnapshotIndexesAssumption`, `ExistingFileAssumption`, `PropertyValuesAssumption`,
`IndexLeasesAssumption`, `StoreHandlesAssumption`, `RankAssumption`,
`QueryExecAssumption`, `OqsParserAssumption`, `OqsQueryAssumption`) and the hypothesis in the last
column:

| Theorem | Property | Module | Hypothesis |
|---|---|---|---|
| `CommitLogTypeCorrect` | `TypeOK` | `CommitLogProofs` | |
| `RecoveryIsAtomic` | `RecoveredWhole` | `CommitLogProofs` | |
| `RecoverableIsStable` | `RecoverableNeverRewritten` | `CommitLogProofs` | |
| `SuperblockNotAhead` | `HeaderNeverAhead` | `CommitLogProofs` | |
| `AckedAreDurable` | `AckedSurviveUntilTear` | `CommitLogProofs` | |
| `MemoryIsDurable` | `LiveEqualsDurable` | `CommitLogProofs` | `OnlyCleanFailures`, `ContentsDiffer` |
| `FailureLeavesNothing` | `FailedInvisible` | `CommitLogProofs` | the same |
| `CommitLogIsAtomicLog` | `ImplementsAtomicLog` | `CommitLogProofs` | the same |
| `TypeCorrect` | `TypeOK` | `GraphStoreProofs` | |
| `EveryConsumerExactlyOnce` | `ConsumersExactlyOnce` | `GraphStoreProofs` | |
| `SnapshotsEqualReplay` | `SnapshotsMatchReplay` | `GraphStoreProofs` | |
| `StoreIsAtomicLog` | `ImplementsAtomicLog` | `GraphStoreProofs` | |
| `StoreIsTemporalGraph` | `ImplementsTemporalGraph` | `GraphStoreProofs` | |
| `LookupsAreScans` | `LookupsEqualScans` | `SnapshotIndexesProofs` | |
| `CompactionAccepts` | `VerificationAccepts` | `SnapshotIndexesProofs` | |
| `CompactionReachesRetained` | `VerificationReachesRetained` | `SnapshotIndexesProofs` | |
| `EqualitySound` | `EqualityIsSound` | `SnapshotIndexesProofs` | |
| `LeasesTypeCorrect` | `TypeOK` | `IndexLeasesProofs` | |
| `PinCountsExact` | `PinsMatchOwners` | `IndexLeasesProofs` | |
| `EvictionSparesReaders` | `PinnedAreKnown` | `IndexLeasesProofs` | |
| `GenerationsFollowHead` | `GenerationTracksHead` | `IndexLeasesProofs` | |
| `CompactionWindowSound` | `CompactionWindowExists` | `IndexLeasesProofs` | |
| `HandlesTypeCorrect` | `TypeOK` | `StoreHandlesProofs` | |
| `ReadersMissNothing` | `ReadsShowSucceeded` | `StoreHandlesProofs` | |
| `ExitStatusIsTrue` | `ApplyReportsTruth` | `StoreHandlesProofs` | `Size > 0` |
| `RefusalsHaveCause` | `RefusedOnlyForCause` | `StoreHandlesProofs` | |
| `LostStaysShort` | `ShortFileStays` | `StoreHandlesProofs` | |
| `ExecTypes` | `TypeOK` | `QueryExecProofs` | |
| `ExecResult` | `ResultIsExact` | `QueryExecProofs` | |
| `ExecSucceeds` | `SucceedsIffFits` | `QueryExecProofs` | |
| `ExecCauses` | `ErrorHasCause` | `QueryExecProofs` | |
| `ExecComplete` | `CompleteMeansAll` | `QueryExecProofs` | |
| `ParserIsExact` | | `OqsQueryProofs` | |
| `OqsPrepares` | `PreparedAsWritten` | `OqsQueryProofs` | |
| `OqsExecutes` | the five above | `OqsQueryProofs` | |

The assumptions name what the constants are (sets that do not meet, naturals) and
a few things of substance. `GraphStoreAssumption` has the endpoints of every edge
view among the nodes: an edge to another id could never be put, because its
endpoint is visible at no commit. `Undecodable = {}` in `StoreHandlesAssumption`
leaves payloads that cannot be read back to `CommitLog`; tears, failures and
truncations are any. `SnapshotIndexesAssumption`
has finitely many numbered ids, and of each view what `commit()` and the scan make
sure of (`validate_interval`, finite values): its interval is not empty and its
values are those of `PropertyValues`, where a double is a half or, from `Exact` on,
a multiple of the distance between the doubles there. `ExistingFileAssumption` says that the file a process opens has
consecutive groups of staged mutations, as the commit path leaves it.
`QueryExecAssumption` says what a query is (`IsQuery`): its edges join nodes the
snapshot can see, its numbers are naturals. It is no assumption about statements:
`OqsQueryProofs` derives it for every ast the parser accepts, from graphs whose
edges join nodes of the graph (`IsGraph`), which is what `SnapshotIndexes` shows of
snapshots, and options that are naturals (`IsOptions`).

The hypotheses. `OnlyCleanFailures` allows crashes and write errors that leave
whole records; with a torn record, or with an error after the group is complete,
the properties are false, as `commitlog_torn_tail` and `commitlog_failed_commit`
show. `ContentsDiffer` (no two transactions without mutations) and `Size > 0` are
needed because the models name a transaction by its contents: of two empty
ones, the file holds only the number, and whose it is cannot be asked.

The commit path. A group is complete only when its last record is appended, and
what makes it the group of one transaction was written many steps before, with
failures in between. The inductive invariant `IInv` carries that: inside
`commit()` the end of the file is the part written so far of the group being
appended (`WrittenPrefix`); every TXN_COMMIT has a TXN_BEGIN before it
(`GroupsHaveStart`), without which the start of a group, the last TXN_BEGIN,
would depend on later records; every group a scan reaches is that of one
transaction and carries its own count and digest (`GroupsGood`); and no record
but a TXN_BEGIN follows a TXN_COMMIT directly (`NothingOutside`). The step of
interest appends the TXN_COMMIT: lemma `ClosedGroup` shows that the last
TXN_BEGIN is then that of this transaction, so garbage of an interrupted append
is cut off. All other appends keep every group (`AppendKeepsGroups`), because a
group is determined by the records up to its TXN_COMMIT (`GroupKeepsPrefix`).

The second part of `CommitLogProofs` adds `DInv`: the scan never finds more than the commit the
store would number next (`HeadBound`), a closed file holds the whole group
(`WrittenWhole`), and acknowledged commits are recovered while a tear can only be
the last record. `AckedAreDurable` then needs that such a file is accepted
(`UntornIsReadable`): its groups are sound by `GroupsGood`, nothing is outside a
group, and a tear at the very end is a quiet end of the scan. The hypothesis of
`AckedSurviveUntilTear` is not removable: `commitlog_torn_tail` shows it.

That a non-empty bounded set of positions has a largest element, which the
existence of a last TXN_BEGIN and of a latest commit needs, is proved from the
well-foundedness of < on the naturals as a set of pairs (`MinExists`,
`MaxExists`).

The third part, under the hypotheses above, adds `AInv`. That the head is the number of groups is not
inductive: while a commit is between its last record and its publication it is
one less (`Ahead`, `InvMemory`). That a failed commit is invisible needs to know
whose the groups in the file are: those of closed transactions, and of the one
ahead (`InvAuthors`), so that a transaction whose write failed before the last
record has none. For the refinement, `LogEntry` shows that each number has one
group and each group one transaction, so the `CHOOSE` in `Durable` has one
answer, which an append does not change.

The store. Memory is built in two ways, commit by commit and by `load`, which puts
all versions before all tombstones and sorts. `IInv` says what both arrive at:
the version map of a node lists what the groups up to the head say of it, in
commit order (`InvMaps`, `Lists`), and the change log lists a set of commits
that has at least those that mutate something (`InvChangeLog`; an empty commit is
there until a reopen). A list in commit order is unique, so what `load` sorts is
determined and appending to it is adding the next commit. Between `CommitAppend`
and `Publish` the file is one group longer than the prefix memory is a function of
(`InvHead`). `ConsumersExactlyOnce` is part of the invariant; a client's position
is the last commit it has seen, so what `next` skips was empty. The graph a file
replays to is a recursive function; that a snapshot equals it is proved without
induction, from the smallest commit at which the latest version of an id would differ.
The refinements then only compare two consecutive states; that a put edge has
endpoints in the new graph is what validation checked against the head, which is
the last group of the file while the mutex is held.

The snapshots. No inductive invariant is added: `IInv` of the store holds from
`InitExisting` too (`InitExistingInv`), and the rest is about the functions a
snapshot is made of. `GraphHeld` turns `IInv` into what materialization reads: at
each commit the live views of the version maps are those of the replayed graph.
`SelectActiveIs` shows that stopping the scan of the interval index at the first
later start loses nothing; it rests on the existence of a list in any order that
is total on a finite set (`OrderExists`, by counting what comes before each element).
`MaterializeIs` combines them: a materialized snapshot is the visible part of the
replayed graph with four indexes over the ids in ascending order. There is only
one such order (`AscendsUnique`), so places picked from it in ascending order
list a subset in ascending order (`PickedIsById`), which is each lookup. The
binary search is a recursive function on the number of ids left; its
answer is shown right without induction, from the smallest number for which it is
wrong (`LowerBoundSplits`). `CompactionReachesRetained`: the version and the
endpoints that an edge needs all cover the time it was seen at, so they cover the
latest of their three starts, which is probed. `EqualitySound` is
`CanonicalComparesEqual` at each node found: a double written as an integer is
converted back to itself, because rounding changes no integer that is a double
(`DoubleIsRounded`). The converse is false, as `index_equality` shows.

The processes. A reader sees a prefix of the file that may end in half a record,
so `IInv` speaks of files that are sound to any length (`Sound`): only the last
record may be torn, no record but a TXN_BEGIN follows a TXN_COMMIT, and every
TXN_COMMIT ends the whole group of one apply and has the next number. While the file is
`Undisturbed` its end is what the one writer has written of its
group, and every group has an author that succeeded, died, is not yet told, or
failed late (`InvWriter`, `Author`); this is what makes any other error true. The
file has every group that was complete when its apply was told, of success or of a late
failure, and what a reader must show (`owed`) lies before the length it found at its
beginning (`InvShown`). A failed write or a death keeps all this, because it leaves
a beginning of the writer's group and at most a torn record at the very
end; the first record behind that one disturbs the file, and `Undisturbed`
never comes back while the path is not truncated. That creates do not race is
needed because a second `create_empty` truncates; `InvCreate` says that otherwise one
process makes the path, once, and that nothing was cut.

The leases. `IInv` is needed because none of the properties is
inductive alone. That a pin count equals the number of owners needs to know that
an owner in the middle of an operation holds exactly what its program counter
says (a handle holds a generation only while "holding", a build only while
"built" or "finishing"), or an unpin could release what was never pinned. That
eviction spares readers follows from exact counts: a held generation has a
non-zero pin. That generations follow the head needs every known generation to
be bounded by the newest, and every build target and compaction window to be at
or below the head. The proof has one lemma about the cardinality of owners when
one owner changes its generation, and one step per action.

The executor. `IInv` says of every partition where its search is, in terms of the
reference. A search from the seeds `S` is at a path `c` with the edges `A` still
to be looked at (`At`). The rows it has found are a set that does not mention the
search (`FoundTo`): those whose parent comes before `c` in the order of the
result, and those over edges of `c` that are not in `A`. Its queue lists the found rows
after `c` (`Ahead`), in order, and `rows` lists all found rows in order; so every
step is a fact about sets: taking the next path moves `c` to its successor,
looking at an edge takes it out of `A`. The work done is the number of paths
expanded, edges looked at and rows found so far, which are subsets of all there
are (`DoneFinite`). So a limit that is exceeded anywhere is exceeded by the whole query
(`ErrorHasCause`), and a search that ends has found everything (`SearchEnds`),
within all limits. The frontier limit is the one that is not a sum: the queue
when a row joins it is `Waiting`, so the reference can say which row is refused.
In parallel mode the chunks divide the seeds (`Chunks` is never empty and loses
none, whatever the division leaves over), so rows, work and waiting paths of the
partitions are those of the query: the rows joined in the order of the chunks
list all rows in order, and the sums of work are the whole work. `std::sort` is
shown to list the rows in order of cost and key for any order of ties, because
what it sorts by is total on positions (`ListedLists`). `FirstError` is an error of
the first partition that failed, and it has a cause by itself, so the order of failing
does not matter. Sums and concatenations are recursive; what is needed of them is
shown from the smallest length at which it would fail.

Statements. The parser reads clause by clause, and each clause has a lemma in both
directions: what is read is spelled as the clause of the ast it leaves, and a
clause that is there, followed by a keyword that may follow it, is read to its
end. `FitsAt` and `IsAt` say where in the text that is. An error, once there,
stays (`ErrorStays`), so no error at the end means none at any clause. Joined along
the text these are `ParsedFits` and `FitsParsed`. That an omitted clause is not found,
although every keyword may be a name, follows because at each place the next
token is a keyword that cannot open that clause (`PhrasePlaces`). The same places
show that a text says one thing: two asts whose phrases both fit it agree clause by
clause (`OneMeaning`), up to what a clause that is not there would say. A parsed
ast, bound to a graph and options, is a query in the sense of `IsQuery`
(`QueryOfAst`), so `OqsInv`, that a prepared request satisfies `IInv` and any other
request has not started, carries all results over (`OqsExecutes`).

Only model-checked. `ShutdownDrains` and `RequestEnds`: liveness under fairness
and ENABLED are beyond the proof system and stay with TLC. Every other property
of a passing run is a theorem. Nothing is proved of the violation runs, whose
counterexamples are the point.

## 5. Findings

The five violation runs are disagreements between a document of the repository
and the code; `PROJECT.json` quotes the lines. In short: a torn tail is skipped
but never removed, so later commits go behind it; an error after the group is
durable is reported as a failed commit; `compact` tests pins under one lock and
publishes under another; empty commits are in the change log only until a reopen;
equality through the property index compares texts, so it misses numbers that
compare equal (0 and -0.0, large integers and doubles).

Two more observations have no run of their own. A literal such as `.` or one past
64 bits makes `prepare_query` throw instead of returning an error
(`query.cpp` 384-386). Two processes that create one path at the same time can
lose a commit made in between, and the second can empty the file under one that is appending, whose
remaining records are then outside a group, so that the path is refused from then on
(`graph_store.cpp` 815-819); no document promises otherwise. A number that is not finite can only be the value of a parameter,
and comparing it is an error (`query.cpp` 447): `PropertyValues` has it and the
proofs cover it, but the texts of `query_modes` do not meet it.

## 6. State of the plan

Every part of the table in section 1 but the drivers is modelled and checked, and
every safety property and refinement of a passing run is proved. What is left
is outside the models: see below.

Not modelled, and why: CRC arithmetic and byte encoding (abstracted: a checksum is
the data it covers), the characters of a statement (lexemes), `explain`, the
fingerprint and `inspect` (reports; `inspect` reads the head without the mutex,
in a process where no other thread runs), arguments and script syntax of the
tool, benchmark, soak and fuzz programs (drivers), power loss (no fsync in the
code).
