---------------------------- MODULE IndexLeases ----------------------------
(***************************************************************************)
(* Index generations of one open GraphStore: the lease registry with its   *)
(* own mutex, and the operations that meet in it - commits, snapshots and  *)
(* their release, background index builds, eviction, the two-phase         *)
(* compaction and shutdown (src/src/store/graph_store.cpp).                *)
(*                                                                         *)
(* Two locks.  An action that needs the store mutex requires mutex = Free; *)
(* only the verification inside compact() holds it over several steps.     *)
(* The registry's mutex covers single registry calls, so a release or an   *)
(* eviction may happen between any two steps of the others.                *)
(*                                                                         *)
(* What a snapshot contains is the subject of GraphStore; here a snapshot  *)
(* is the generation it pins.                                              *)
(***************************************************************************)
EXTENDS Integers, FiniteSets

CONSTANTS
  Handles,     \* callers of snapshot(), each with at most one snapshot
  Builds,      \* background index builds in flight
  Compactors,  \* callers of compact()
  Free,        \* nobody holds the store mutex over several steps
  MaxCommit    \* bound on the number of commits

ASSUME IndexLeasesAssumption ==
  /\ IsFiniteSet(Handles) /\ IsFiniteSet(Builds)
  /\ Handles \intersect Builds = {}
  /\ Free \notin Compactors
  /\ MaxCommit \in Nat

Commits == 0..MaxCommit
Gens    == 1..(MaxCommit + 1)
Owners  == Handles \union Builds
NoGen   == 0
Head    == -1   \* a selector without a commit: the head when it is resolved

VARIABLES
  latest,        \* GraphStore::Impl::latest
  shuttingDown,  \* GraphStore::Impl::shutting_down
  mutex,         \* the compactor inside verify_compaction_locked, or Free
  pins,          \* LeaseRegistry::pins, 0 for an absent key
  known,         \* LeaseRegistry::known_generations
  latestGen,     \* LeaseRegistry::latest_generation
  held,          \* the generation an owner's snapshot pins, or NoGen
  call,          \* [pc, sel] of each caller of snapshot()
  build,         \* [pc, target, cancel] of each background build
  comp           \* [pc, from, through, at] of each caller of compact()

registry == <<pins, known, latestGen>>
vars == <<latest, shuttingDown, mutex, pins, known, latestGen, held, call, build, comp>>

MaxOf(a, b) == IF a >= b THEN a ELSE b

\* The generation of a commit: commits 0 and 1 share generation 1.
GenOf(c) == IF c = 0 THEN 1 ELSE c

CallIdle  == [pc |-> "idle", sel |-> Head]
BuildIdle == [pc |-> "idle", target |-> 0, cancel |-> FALSE]
CompIdle  == [pc |-> "idle", from |-> 0, through |-> 0, at |-> 0]

Init ==
  /\ latest = 0 /\ shuttingDown = FALSE /\ mutex = Free
  /\ pins = [g \in Gens |-> 0] /\ known = {1} /\ latestGen = 1
  /\ held = [o \in Owners |-> NoGen]
  /\ call = [h \in Handles |-> CallIdle]
  /\ build = [b \in Builds |-> BuildIdle]
  /\ comp = [c \in Compactors |-> CompIdle]

-----------------------------------------------------------------------------
(* The registry's calls.                                                    *)

\* A mutation: the newest generation is overwritten, not maximized.
RegisterOverwrites(g) ==
  /\ latestGen' = g
  /\ known' = known \union {g}

Register(g) ==
  /\ latestGen' = MaxOf(latestGen, g)
  /\ known' = known \union {g}

Pin(g) ==
  /\ Register(g)
  /\ pins' = [pins EXCEPT ![g] = @ + 1]

\* A mutation: any release erases the key.
UnpinErases(g) ==
  /\ pins' = [pins EXCEPT ![g] = 0]
  /\ UNCHANGED <<known, latestGen>>

\* An absent key is ignored; the last pin erases the key.
Unpin(g) ==
  /\ pins' = [pins EXCEPT ![g] = IF @ <= 1 THEN 0 ELSE @ - 1]
  /\ UNCHANGED <<known, latestGen>>

\* A mutation: pins are not consulted.
EvictOlder ==
  /\ known' = {g \in known : g >= latestGen}
  /\ UNCHANGED <<pins, latestGen>>

EvictUnpinned ==
  /\ known' = {g \in known : g >= latestGen \/ pins[g] # 0}
  /\ UNCHANGED <<pins, latestGen>>

PinnedOlderThan(g) == \E p \in Gens : pins[p] # 0 /\ p < g

-----------------------------------------------------------------------------
(* Transaction::commit, as far as generations are concerned.                *)
CommitTxn ==
  /\ mutex = Free /\ ~shuttingDown /\ latest < MaxCommit
  /\ latest' = latest + 1
  /\ Register(latest + 1)
  /\ UNCHANGED <<shuttingDown, mutex, pins, held, call, build, comp>>

(* snapshot(): the shutdown check and make_snapshot lock separately.        *)
CheckOpen(h, sel) ==
  /\ mutex = Free /\ ~shuttingDown
  /\ call[h].pc = "idle"
  /\ call' = [call EXCEPT ![h] = [pc |-> "checked", sel |-> sel]]
  /\ UNCHANGED <<latest, shuttingDown, mutex, pins, known, latestGen, held, build, comp>>

Selected(h) == IF call[h].sel = Head THEN latest ELSE call[h].sel

Materialize(h) ==
  /\ mutex = Free
  /\ call[h].pc = "checked" /\ Selected(h) <= latest
  /\ Pin(GenOf(Selected(h)))
  /\ held' = [held EXCEPT ![h] = GenOf(Selected(h))]
  /\ call' = [call EXCEPT ![h].pc = "holding"]
  /\ UNCHANGED <<latest, shuttingDown, mutex, build, comp>>

RejectNewer(h) ==
  /\ mutex = Free
  /\ call[h].pc = "checked" /\ Selected(h) > latest
  /\ call' = [call EXCEPT ![h] = CallIdle]
  /\ UNCHANGED <<latest, shuttingDown, mutex, pins, known, latestGen, held, build, comp>>

(* ~Impl of the last shared reference: no store mutex.                      *)
Release(h) ==
  /\ call[h].pc = "holding"
  /\ Unpin(held[h])
  /\ held' = [held EXCEPT ![h] = NoGen]
  /\ call' = [call EXCEPT ![h] = CallIdle]
  /\ UNCHANGED <<latest, shuttingDown, mutex, build, comp>>

EvictUnpinnedIndexes ==
  /\ EvictUnpinned
  /\ UNCHANGED <<latest, shuttingDown, mutex, held, call, build, comp>>

-----------------------------------------------------------------------------
\* A mutation: no shutdown check.
StartBuildAnyway(b, target) ==
  /\ mutex = Free
  /\ build[b].pc = "idle" /\ target <= latest
  /\ build' = [build EXCEPT ![b] = [pc |-> "queued", target |-> target, cancel |-> FALSE]]
  /\ UNCHANGED <<latest, shuttingDown, mutex, pins, known, latestGen, held, call, comp>>

(* build_indexes_background and its worker.                                 *)
StartBuild(b, target) ==
  /\ mutex = Free /\ ~shuttingDown
  /\ build[b].pc = "idle" /\ target <= latest
  /\ build' = [build EXCEPT ![b] = [pc |-> "queued", target |-> target, cancel |-> FALSE]]
  /\ UNCHANGED <<latest, shuttingDown, mutex, pins, known, latestGen, held, call, comp>>

CancelBuild(b) ==
  /\ build[b].pc # "idle"
  /\ build' = [build EXCEPT ![b].cancel = TRUE]
  /\ UNCHANGED <<latest, shuttingDown, mutex, pins, known, latestGen, held, call, comp>>

\* The flag is a plain bool written by another thread: a read may miss the write.
ReadsCancel(b, seen) == seen \in (IF build[b].cancel THEN BOOLEAN ELSE {FALSE})

BuildFirstCheck(b) ==
  /\ build[b].pc = "queued"
  /\ \E seen \in BOOLEAN :
       /\ ReadsCancel(b, seen)
       /\ build' = [build EXCEPT ![b].pc = IF seen THEN "done" ELSE "started"]
  /\ UNCHANGED <<latest, shuttingDown, mutex, pins, known, latestGen, held, call, comp>>

\* The worker's snapshot: no shutdown check here.
BuildMaterialize(b) ==
  /\ mutex = Free
  /\ build[b].pc = "started"
  /\ Pin(GenOf(build[b].target))
  /\ held' = [held EXCEPT ![b] = GenOf(build[b].target)]
  /\ build' = [build EXCEPT ![b].pc = "built"]
  /\ UNCHANGED <<latest, shuttingDown, mutex, call, comp>>

BuildSecondCheck(b) ==
  /\ build[b].pc = "built"
  /\ build' = [build EXCEPT ![b].pc = "finishing"]
  /\ UNCHANGED pins
  /\ \E seen \in BOOLEAN :
       /\ ReadsCancel(b, seen)
       /\ IF seen THEN UNCHANGED <<known, latestGen>> ELSE Register(held[b])
  /\ UNCHANGED <<latest, shuttingDown, mutex, held, call, comp>>

\* The worker's local snapshot dies with its scope; the future is ready.
BuildRelease(b) ==
  /\ build[b].pc = "finishing"
  /\ Unpin(held[b])
  /\ held' = [held EXCEPT ![b] = NoGen]
  /\ build' = [build EXCEPT ![b].pc = "done"]
  /\ UNCHANGED <<latest, shuttingDown, mutex, call, comp>>

\* wait() consumes the future.
WaitBuild(b) ==
  /\ build[b].pc = "done"
  /\ build' = [build EXCEPT ![b] = BuildIdle]
  /\ UNCHANGED <<latest, shuttingDown, mutex, pins, known, latestGen, held, call, comp>>

-----------------------------------------------------------------------------
\* A mutation: keeping more commits than there are is not clamped.
RetainedFromUnclamped(keep) ==
  IF latest = 0 THEN 0 ELSE latest - keep + 1

(* compact(): plan_compaction under one lock, verification and publication  *)
(* under another, eviction under none.                                      *)
RetainedFrom(keep) ==
  IF latest = 0 THEN 0 ELSE IF keep >= latest THEN 1 ELSE latest - keep + 1

\* With no commit at all the plan is publishable whatever is pinned.
Publishable(keep) == latest = 0 \/ ~PinnedOlderThan(RetainedFrom(keep))

PlanCompaction(c, keep) ==
  /\ mutex = Free
  /\ comp[c].pc = "idle" /\ Publishable(keep)
  /\ comp' = [comp EXCEPT ![c] = [pc |-> "planned", from |-> RetainedFrom(keep),
                                  through |-> latest, at |-> RetainedFrom(keep)]]
  /\ UNCHANGED <<latest, shuttingDown, mutex, pins, known, latestGen, held, call, build>>

\* A mutation: the verification does not take the store mutex.
BeginVerifyUnlocked(c) ==
  /\ comp[c].pc = "planned" /\ ~shuttingDown
  /\ comp' = [comp EXCEPT ![c].pc = "verifying"]
  /\ UNCHANGED <<latest, shuttingDown, mutex, pins, known, latestGen, held, call, build>>

BeginVerify(c) ==
  /\ mutex = Free
  /\ comp[c].pc = "planned" /\ ~shuttingDown
  /\ mutex' = c
  /\ comp' = [comp EXCEPT ![c].pc = "verifying"]
  /\ UNCHANGED <<latest, shuttingDown, pins, known, latestGen, held, call, build>>

RejectShutdown(c) ==
  /\ mutex = Free
  /\ comp[c].pc = "planned" /\ shuttingDown
  /\ comp' = [comp EXCEPT ![c] = CompIdle]
  /\ UNCHANGED <<latest, shuttingDown, mutex, pins, known, latestGen, held, call, build>>

\* The probe snapshots of one commit are pinned and released one by one; an
\* eviction between the two spares the generation, so only Register remains.
VerifyCommit(c) ==
  /\ comp[c].pc = "verifying" /\ comp[c].at <= comp[c].through
  /\ Register(GenOf(comp[c].at))
  /\ comp' = [comp EXCEPT ![c].at = @ + 1]
  /\ UNCHANGED <<latest, shuttingDown, mutex, pins, held, call, build>>

PublishCompaction(c) ==
  /\ comp[c].pc = "verifying" /\ comp[c].at > comp[c].through
  /\ Register(IF latest = 0 THEN 1 ELSE latest + 1)
  /\ mutex' = Free
  /\ comp' = [comp EXCEPT ![c].pc = "published"]
  /\ UNCHANGED <<latest, shuttingDown, pins, held, call, build>>

EvictAfterPublish(c) ==
  /\ comp[c].pc = "published"
  /\ EvictUnpinned
  /\ comp' = [comp EXCEPT ![c] = CompIdle]
  /\ UNCHANGED <<latest, shuttingDown, mutex, held, call, build>>

Shutdown ==
  /\ mutex = Free
  /\ shuttingDown' = TRUE
  /\ UNCHANGED <<latest, mutex, pins, known, latestGen, held, call, build, comp>>

Next ==
  \/ CommitTxn
  \/ \E h \in Handles, sel \in Commits \union {Head} : CheckOpen(h, sel)
  \/ \E h \in Handles : Materialize(h)
  \/ \E h \in Handles : RejectNewer(h)
  \/ \E h \in Handles : Release(h)
  \/ EvictUnpinnedIndexes
  \/ \E b \in Builds, target \in Commits : StartBuild(b, target)
  \/ \E b \in Builds : CancelBuild(b)
  \/ \E b \in Builds : BuildFirstCheck(b)
  \/ \E b \in Builds : BuildMaterialize(b)
  \/ \E b \in Builds : BuildSecondCheck(b)
  \/ \E b \in Builds : BuildRelease(b)
  \/ \E b \in Builds : WaitBuild(b)
  \/ \E c \in Compactors, keep \in 1..(MaxCommit + 1) : PlanCompaction(c, keep)
  \/ \E c \in Compactors : BeginVerify(c)
  \/ \E c \in Compactors : RejectShutdown(c)
  \/ \E c \in Compactors : VerifyCommit(c)
  \/ \E c \in Compactors : PublishCompaction(c)
  \/ \E c \in Compactors : EvictAfterPublish(c)
  \/ Shutdown

Spec == Init /\ [][Next]_vars

\* A worker thread and a thread inside compact() keep running; nothing is
\* assumed of the callers, and no more than weak fairness of the mutex.
WorkerStep(b) ==
  BuildFirstCheck(b) \/ BuildMaterialize(b) \/ BuildSecondCheck(b) \/ BuildRelease(b)

CompactStep(c) ==
  \/ BeginVerify(c) \/ RejectShutdown(c) \/ VerifyCommit(c)
  \/ PublishCompaction(c) \/ EvictAfterPublish(c)

FairSpec ==
  /\ Spec
  /\ \A b \in Builds : WF_vars(WorkerStep(b))
  /\ \A c \in Compactors : WF_vars(CompactStep(c))

-----------------------------------------------------------------------------
(* The states of a snapshot() call, a background build and a compact() call. *)
CallState  == [pc : {"idle", "checked", "holding"}, sel : Commits \union {Head}]
BuildState == [pc : {"idle", "queued", "started", "built", "finishing", "done"},
               target : Commits, cancel : BOOLEAN]
CompState  == [pc : {"idle", "planned", "verifying", "published"},
               from : Commits, through : Commits, at : 0..(MaxCommit + 1)]

(* Type correctness: the one type invariant of this module.                 *)
TypeOK ==
  /\ latest \in Commits /\ shuttingDown \in BOOLEAN
  /\ mutex \in Compactors \union {Free}
  /\ pins \in [Gens -> Nat] /\ known \subseteq Gens /\ latestGen \in Gens
  /\ held \in [Owners -> Gens \union {NoGen}]
  /\ call \in [Handles -> CallState]
  /\ build \in [Builds -> BuildState]
  /\ comp \in [Compactors -> CompState]

(* The pin count of every generation is the number of live snapshots of it, *)
(* whoever made them and in whatever order they are released: no leaked pin *)
(* blocks a compaction for ever and none is dropped under a reader.         *)
PinsMatchOwners ==
  \A g \in Gens : pins[g] = Cardinality({o \in Owners : held[o] = g})

(* A generation that somebody reads is never evicted from the registry.     *)
PinnedAreKnown ==
  \A o \in Owners : held[o] # NoGen => held[o] \in known

(* Commits and compactions number generations from the same counter: the    *)
(* newest generation is the head's or one past it, and is never evicted.    *)
GenerationTracksHead ==
  /\ GenOf(latest) <= latestGen /\ latestGen <= latest + 1
  /\ latestGen \in known
  /\ \A g \in known : g <= latestGen

(* However late a compaction publishes, the commits it verified exist and   *)
(* end at or before the head; only the holder of the mutex is verifying.    *)
CompactionWindowExists ==
  \A c \in Compactors :
    /\ comp[c].pc # "idle" =>
         comp[c].from <= comp[c].through /\ comp[c].through <= latest
    /\ comp[c].pc = "verifying" <=> mutex = c

BuildRunning(b) == build[b].pc \in {"queued", "started", "built", "finishing"}

(* After shutdown the background work drains for good: every build finishes *)
(* and releases its pin, and no compaction keeps the store mutex.           *)
ShutdownDrains ==
  shuttingDown ~> [](mutex = Free /\ \A b \in Builds : ~BuildRunning(b) /\ held[b] = NoGen)

(* docs/ARCHITECTURE.md: compaction "rejects publication under active       *)
(* old-generation pins".                                                    *)
NoPublishUnderOldPin ==
  [][\A c \in Compactors :
       comp[c].pc = "verifying" /\ comp'[c].pc = "published" =>
         ~PinnedOlderThan(comp[c].from)]_vars
=============================================================================
