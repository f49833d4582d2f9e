------------------------- MODULE IndexLeasesProofs -------------------------
(***************************************************************************)
(* Proofs about IndexLeases for any set of handles, builds and compactors  *)
(* and any number of commits.                                              *)
(***************************************************************************)
EXTENDS IndexLeases, FiniteSetTheorems, TLAPS

(* What the program counters say about the pins, and about the commit a    *)
(* running build was started for: the strengthening the others need.       *)
OwnersConsistent ==
  /\ \A h \in Handles : call[h].pc = "holding" <=> held[h] # NoGen
  /\ \A b \in Builds : build[b].pc \in {"built", "finishing"} <=> held[b] # NoGen
  /\ \A b \in Builds : build[b].target <= latest

VerifyPosition ==
  \A c \in Compactors : comp[c].at <= comp[c].through + 1

IInv ==
  /\ TypeOK
  /\ PinsMatchOwners
  /\ PinnedAreKnown
  /\ GenerationTracksHead
  /\ CompactionWindowExists
  /\ OwnersConsistent
  /\ VerifyPosition

-----------------------------------------------------------------------------
(* Generations of existing commits are generations, at most the head's.     *)
LEMMA GenOfCommit ==
  ASSUME NEW l \in Commits, NEW c \in Commits, c <= l
  PROVE  /\ GenOf(c) \in Gens
         /\ GenOf(c) <= GenOf(l)
         /\ l + 1 \in 1..(MaxCommit + 1)
  BY IndexLeasesAssumption DEF GenOf, Gens, Commits

(* Owners are finitely many, so the owners of a generation can be counted.  *)
LEMMA OwnersFinite ==
  ASSUME NEW g
  PROVE  IsFiniteSet({o \in Owners : held[o] = g})
  <1>1. IsFiniteSet(Owners)
    BY IndexLeasesAssumption, FS_Union DEF Owners
  <1> QED
    BY <1>1, FS_Subset

(* A pin taken together with the snapshot that owns it keeps counts exact.  *)
LEMMA PinCounts ==
  ASSUME TypeOK, PinsMatchOwners,
         NEW o \in Owners, held[o] = NoGen,
         NEW g \in Gens,
         pins' = [pins EXCEPT ![g] = @ + 1],
         held' = [held EXCEPT ![o] = g]
  PROVE  PinsMatchOwners'
  <1> DEFINE Of(p) == {x \in Owners : held[x] = p}
  <1> SUFFICES ASSUME NEW p \in Gens
               PROVE  pins'[p] = Cardinality({x \in Owners : held'[x] = p})
    BY DEF PinsMatchOwners
  <1>0. NoGen \notin Gens
    BY DEF NoGen, Gens
  <1>1. CASE p = g
    <2>1. {x \in Owners : held'[x] = p} = Of(p) \union {o}
      BY <1>1 DEF TypeOK
    <2>2. o \notin Of(p)
      BY <1>0, <1>1
    <2>3. IsFiniteSet(Of(p))
      BY OwnersFinite
    <2>4. Cardinality(Of(p) \union {o}) = Cardinality(Of(p)) + 1
      <3> HIDE DEF Of
      <3> QED BY <2>2, <2>3, FS_AddElement
    <2> QED
      BY <1>1, <2>1, <2>4 DEF PinsMatchOwners, TypeOK
  <1>2. CASE p # g
    <2>1. {x \in Owners : held'[x] = p} = Of(p)
      BY <1>0, <1>2 DEF TypeOK
    <2> QED
      BY <1>2, <2>1 DEF PinsMatchOwners, TypeOK
  <1> QED
    BY <1>1, <1>2

(* Releasing a snapshot gives back exactly the pin it took, although unpin  *)
(* erases the key at one and ignores an absent key.                         *)
LEMMA UnpinCounts ==
  ASSUME TypeOK, PinsMatchOwners,
         NEW o \in Owners, held[o] # NoGen,
         Unpin(held[o]),
         held' = [held EXCEPT ![o] = NoGen]
  PROVE  PinsMatchOwners'
  <1> DEFINE g == held[o]
             Of(p) == {x \in Owners : held[x] = p}
  <1> SUFFICES ASSUME NEW p \in Gens
               PROVE  pins'[p] = Cardinality({x \in Owners : held'[x] = p})
    BY DEF PinsMatchOwners
  <1>0. NoGen \notin Gens /\ g \in Gens
    BY DEF NoGen, Gens, TypeOK
  <1>1. CASE p = g
    <2>1. {x \in Owners : held'[x] = p} = Of(p) \ {o}
      BY <1>0, <1>1 DEF TypeOK
    <2>2. o \in Of(p)
      BY <1>1
    <2>3. IsFiniteSet(Of(p))
      BY OwnersFinite
    <2>4. /\ Cardinality(Of(p) \ {o}) = Cardinality(Of(p)) - 1
          /\ Cardinality(Of(p)) \in Nat /\ Cardinality(Of(p) \ {o}) \in Nat
      <3> HIDE DEF Of
      <3> QED BY <2>2, <2>3, FS_RemoveElement, FS_CardinalityType
    <2>5. pins[p] = Cardinality(Of(p))
      BY DEF PinsMatchOwners
    <2>6. pins'[p] = IF pins[p] <= 1 THEN 0 ELSE pins[p] - 1
      BY <1>0, <1>1 DEF TypeOK, Unpin
    <2> QED
      BY <2>1, <2>4, <2>5, <2>6
  <1>2. CASE p # g
    <2>1. {x \in Owners : held'[x] = p} = Of(p)
      BY <1>0, <1>2 DEF TypeOK
    <2> QED
      BY <1>2, <2>1 DEF PinsMatchOwners, TypeOK, Unpin
  <1> QED
    BY <1>1, <1>2

(* A generation somebody holds has a pin.                                   *)
LEMMA HeldIsPinned ==
  ASSUME TypeOK, PinsMatchOwners, NEW o \in Owners, held[o] # NoGen
  PROVE  held[o] \in Gens /\ pins[held[o]] # 0
  <1>1. held[o] \in Gens
    BY DEF TypeOK
  <1>2. Cardinality({x \in Owners : held[x] = held[o]}) # 0
    BY OwnersFinite, FS_EmptySet
  <1> QED
    BY <1>1, <1>2 DEF PinsMatchOwners

-----------------------------------------------------------------------------
(* The states the actions assign are states.                                *)
LEMMA CallStates ==
  ASSUME TypeOK, NEW h \in Handles
  PROVE  /\ \A sel \in Commits \union {Head} :
              [pc |-> "checked", sel |-> sel] \in CallState
         /\ [call[h] EXCEPT !.pc = "holding"] \in CallState
         /\ CallIdle \in CallState
  BY DEF TypeOK, CallState, CallIdle

LEMMA BuildStates ==
  ASSUME TypeOK, NEW b \in Builds
  PROVE  /\ \A target \in Commits :
              [pc |-> "queued", target |-> target, cancel |-> FALSE] \in BuildState
         /\ [build[b] EXCEPT !.cancel = TRUE] \in BuildState
         /\ \A p \in {"started", "built", "finishing", "done"} :
              [build[b] EXCEPT !.pc = p] \in BuildState
         /\ BuildIdle \in BuildState
  <1>1. build[b] \in BuildState
    BY DEF TypeOK
  <1>2. [build[b] EXCEPT !.cancel = TRUE] \in BuildState
    BY <1>1 DEF BuildState
  <1>3. \A p \in {"started", "built", "finishing", "done"} :
          [build[b] EXCEPT !.pc = p] \in BuildState
    BY <1>1 DEF BuildState
  <1>4. BuildIdle \in BuildState
    BY IndexLeasesAssumption DEF BuildState, BuildIdle, Commits
  <1> QED
    BY <1>2, <1>3, <1>4 DEF BuildState

LEMMA CompStates ==
  ASSUME TypeOK, NEW c \in Compactors
  PROVE  /\ \A from \in Commits :
              [pc |-> "planned", from |-> from, through |-> latest, at |-> from] \in CompState
         /\ \A p \in {"verifying", "published"} : [comp[c] EXCEPT !.pc = p] \in CompState
         /\ comp[c].at + 1 \in 0..(MaxCommit + 1) =>
              [comp[c] EXCEPT !.at = @ + 1] \in CompState
         /\ CompIdle \in CompState
  <1>1. /\ \A p \in {"verifying", "published"} : [comp[c] EXCEPT !.pc = p] \in CompState
        /\ comp[c].at + 1 \in 0..(MaxCommit + 1) =>
             [comp[c] EXCEPT !.at = @ + 1] \in CompState
    BY DEF TypeOK, CompState
  <1> QED
    BY <1>1, IndexLeasesAssumption DEF TypeOK, CompState, CompIdle, Commits

(* The invariant is inductive, one part after another.                      *)
LEMMA TypeOKStep ==
  ASSUME IInv, Next
  PROVE  TypeOK'
  <1> USE DEF IInv
  <1>0. TypeOK /\ latest + 1 \in Nat
    BY DEF TypeOK, Commits
  <1>1. CASE CommitTxn
    BY <1>1, IndexLeasesAssumption DEF CommitTxn, Register, MaxOf, TypeOK, Commits, Gens
  <1>2. ASSUME NEW h \in Handles, NEW sel \in Commits \union {Head}, CheckOpen(h, sel)
        PROVE  TypeOK'
    BY <1>2, CallStates DEF CheckOpen, TypeOK
  <1>3. ASSUME NEW h \in Handles, Materialize(h)
        PROVE  TypeOK'
    <2>1. GenOf(Selected(h)) \in Gens
      BY <1>3, IndexLeasesAssumption
      DEF Materialize, Selected, TypeOK, CallState, Commits, Head, GenOf, Gens
    <2>2. call' \in [Handles -> CallState]
      BY <1>3, CallStates DEF Materialize, TypeOK
    <2>3. pins' \in [Gens -> Nat] /\ known' \subseteq Gens /\ latestGen' \in Gens
      BY <1>3, <2>1 DEF Materialize, Pin, Register, MaxOf, TypeOK
    <2>4. held' \in [Owners -> Gens \union {NoGen}]
      BY <1>3, <2>1 DEF Materialize, TypeOK, Owners
    <2> QED
      BY <1>3, <2>2, <2>3, <2>4 DEF Materialize, TypeOK
  <1>4. ASSUME NEW h \in Handles, RejectNewer(h)
        PROVE  TypeOK'
    BY <1>4, CallStates DEF RejectNewer, TypeOK
  <1>5. ASSUME NEW h \in Handles, Release(h)
        PROVE  TypeOK'
    <2>1. call' \in [Handles -> CallState]
      BY <1>5, CallStates DEF Release, TypeOK
    <2>2. held[h] \in Gens /\ pins' \in [Gens -> Nat]
      BY <1>5, HeldIsPinned DEF Release, Unpin, TypeOK, OwnersConsistent, Owners
    <2>3. held' \in [Owners -> Gens \union {NoGen}]
      BY <1>5 DEF Release, TypeOK, Owners
    <2> QED
      BY <1>5, <2>1, <2>2, <2>3 DEF Release, Unpin, TypeOK
  <1>6. CASE EvictUnpinnedIndexes
    BY <1>6 DEF EvictUnpinnedIndexes, EvictUnpinned, TypeOK
  <1>7. ASSUME NEW b \in Builds, NEW target \in Commits, StartBuild(b, target)
        PROVE  TypeOK'
    BY <1>7, BuildStates DEF StartBuild, TypeOK
  <1>8. ASSUME NEW b \in Builds, CancelBuild(b)
        PROVE  TypeOK'
    BY <1>8, BuildStates DEF CancelBuild, TypeOK
  <1>9. ASSUME NEW b \in Builds, BuildFirstCheck(b)
        PROVE  TypeOK'
    <2>1. PICK p \in {"done", "started"} : build' = [build EXCEPT ![b].pc = p]
      BY <1>9 DEF BuildFirstCheck
    <2> QED
      BY <1>9, <2>1, BuildStates DEF BuildFirstCheck, TypeOK
  <1>10. ASSUME NEW b \in Builds, BuildMaterialize(b)
         PROVE  TypeOK'
    <2>1. GenOf(build[b].target) \in Gens
      BY IndexLeasesAssumption DEF TypeOK, BuildState, Commits, GenOf, Gens
    <2>2. build' \in [Builds -> BuildState]
      BY <1>10, BuildStates DEF BuildMaterialize, TypeOK
    <2>3. pins' \in [Gens -> Nat] /\ known' \subseteq Gens /\ latestGen' \in Gens
      BY <1>10, <2>1 DEF BuildMaterialize, Pin, Register, MaxOf, TypeOK
    <2>4. held' \in [Owners -> Gens \union {NoGen}]
      BY <1>10, <2>1 DEF BuildMaterialize, TypeOK, Owners
    <2> QED
      BY <1>10, <2>2, <2>3, <2>4 DEF BuildMaterialize, TypeOK
  <1>11. ASSUME NEW b \in Builds, BuildSecondCheck(b)
         PROVE  TypeOK'
    <2>1. build' \in [Builds -> BuildState]
      BY <1>11, BuildStates DEF BuildSecondCheck, TypeOK
    <2>2. held[b] \in Gens
      BY <1>11, HeldIsPinned DEF BuildSecondCheck, OwnersConsistent, Owners
    <2>3. known' \subseteq Gens /\ latestGen' \in Gens
      BY <1>11, <2>2 DEF BuildSecondCheck, Register, MaxOf, TypeOK
    <2> QED
      BY <1>11, <2>1, <2>3 DEF BuildSecondCheck, TypeOK
  <1>12. ASSUME NEW b \in Builds, BuildRelease(b)
         PROVE  TypeOK'
    <2>1. build' \in [Builds -> BuildState]
      BY <1>12, BuildStates DEF BuildRelease, TypeOK
    <2>2. held[b] \in Gens /\ pins' \in [Gens -> Nat]
      BY <1>12, HeldIsPinned DEF BuildRelease, Unpin, TypeOK, OwnersConsistent, Owners
    <2>3. held' \in [Owners -> Gens \union {NoGen}]
      BY <1>12 DEF BuildRelease, TypeOK, Owners
    <2> QED
      BY <1>12, <2>1, <2>2, <2>3 DEF BuildRelease, Unpin, TypeOK
  <1>13. ASSUME NEW b \in Builds, WaitBuild(b)
         PROVE  TypeOK'
    BY <1>13, BuildStates DEF WaitBuild, TypeOK
  <1>14. ASSUME NEW c \in Compactors, NEW keep \in 1..(MaxCommit + 1), PlanCompaction(c, keep)
         PROVE  TypeOK'
    <2>1. RetainedFrom(keep) \in Commits
      BY IndexLeasesAssumption DEF RetainedFrom, TypeOK, Commits
    <2> QED
      BY <1>14, <2>1, CompStates DEF PlanCompaction, TypeOK
  <1>15. ASSUME NEW c \in Compactors, BeginVerify(c)
         PROVE  TypeOK'
    BY <1>15, CompStates DEF BeginVerify, TypeOK
  <1>16. ASSUME NEW c \in Compactors, RejectShutdown(c)
         PROVE  TypeOK'
    BY <1>16, CompStates DEF RejectShutdown, TypeOK
  <1>17. ASSUME NEW c \in Compactors, VerifyCommit(c)
         PROVE  TypeOK'
    <2>1. comp[c].at \in Commits /\ comp[c].at + 1 \in 0..(MaxCommit + 1)
      BY <1>17, IndexLeasesAssumption DEF VerifyCommit, TypeOK, CompState, Commits
    <2>2. GenOf(comp[c].at) \in Gens
      BY <2>1, IndexLeasesAssumption DEF GenOf, Gens, Commits
    <2>3. comp' \in [Compactors -> CompState]
      BY <1>17, <2>1, CompStates DEF VerifyCommit, TypeOK
    <2>4. known' \subseteq Gens /\ latestGen' \in Gens
      BY <1>17, <2>2 DEF VerifyCommit, Register, MaxOf, TypeOK
    <2> QED
      BY <1>17, <2>3, <2>4 DEF VerifyCommit, TypeOK
  <1>18. ASSUME NEW c \in Compactors, PublishCompaction(c)
         PROVE  TypeOK'
    <2>1. comp' \in [Compactors -> CompState]
      BY <1>18, CompStates DEF PublishCompaction, TypeOK
    <2>2. (IF latest = 0 THEN 1 ELSE latest + 1) \in Gens
      BY IndexLeasesAssumption DEF TypeOK, Commits, Gens
    <2>3. known' \subseteq Gens /\ latestGen' \in Gens
      BY <1>18, <2>2 DEF PublishCompaction, Register, MaxOf, TypeOK
    <2> QED
      BY <1>18, <2>1, <2>3 DEF PublishCompaction, TypeOK
  <1>19. ASSUME NEW c \in Compactors, EvictAfterPublish(c)
         PROVE  TypeOK'
    BY <1>19, CompStates DEF EvictAfterPublish, EvictUnpinned, TypeOK
  <1>20. CASE Shutdown
    BY <1>20 DEF Shutdown, TypeOK
  <1> QED
    BY <1>1, <1>2, <1>3, <1>4, <1>5, <1>6, <1>7, <1>8, <1>9, <1>10, <1>11, <1>12,
       <1>13, <1>14, <1>15, <1>16, <1>17, <1>18, <1>19, <1>20 DEF Next

(* Only four actions touch the pins or their owners.                        *)
LEMMA PinsStep ==
  ASSUME IInv, Next
  PROVE  PinsMatchOwners'
  <1> USE DEF IInv
  <1>1. ASSUME NEW h \in Handles, Materialize(h)
        PROVE  PinsMatchOwners'
    <2>1. GenOf(Selected(h)) \in Gens
      BY <1>1, IndexLeasesAssumption
      DEF Materialize, Selected, TypeOK, CallState, Commits, Head, GenOf, Gens
    <2>2. h \in Owners /\ held[h] = NoGen
      BY <1>1 DEF Materialize, OwnersConsistent, Owners
    <2> QED
      BY <1>1, <2>1, <2>2, PinCounts DEF Materialize, Pin
  <1>2. ASSUME NEW h \in Handles, Release(h)
        PROVE  PinsMatchOwners'
    BY <1>2, UnpinCounts DEF Release, OwnersConsistent, Owners
  <1>3. ASSUME NEW b \in Builds, BuildMaterialize(b)
        PROVE  PinsMatchOwners'
    <2>1. GenOf(build[b].target) \in Gens
      BY IndexLeasesAssumption DEF TypeOK, BuildState, Commits, GenOf, Gens
    <2>2. b \in Owners /\ held[b] = NoGen
      BY <1>3 DEF BuildMaterialize, OwnersConsistent, Owners
    <2> QED
      BY <1>3, <2>1, <2>2, PinCounts DEF BuildMaterialize, Pin
  <1>4. ASSUME NEW b \in Builds, BuildRelease(b)
        PROVE  PinsMatchOwners'
    BY <1>4, UnpinCounts DEF BuildRelease, OwnersConsistent, Owners
  <1>5. ASSUME UNCHANGED <<pins, held>>
        PROVE  PinsMatchOwners'
    BY <1>5 DEF PinsMatchOwners
  <1> QED
    BY <1>1, <1>2, <1>3, <1>4, <1>5
    DEF Next, CommitTxn, CheckOpen, RejectNewer, EvictUnpinnedIndexes, EvictUnpinned,
        StartBuild, CancelBuild, BuildFirstCheck, BuildSecondCheck, WaitBuild,
        PlanCompaction, BeginVerify, RejectShutdown, VerifyCommit, PublishCompaction,
        EvictAfterPublish, Shutdown

(* Eviction spares what is pinned, and a held generation is pinned.         *)
LEMMA KnownStep ==
  ASSUME IInv, Next
  PROVE  PinnedAreKnown'
  <1> USE DEF IInv
  <1>1. ASSUME EvictUnpinned, UNCHANGED held
        PROVE  PinnedAreKnown'
    BY <1>1, HeldIsPinned DEF EvictUnpinned, PinnedAreKnown
  <1>2. ASSUME NEW g, Pin(g), NEW o \in Owners, held' = [held EXCEPT ![o] = g]
        PROVE  PinnedAreKnown'
    BY <1>2 DEF Pin, Register, PinnedAreKnown, TypeOK
  <1>3. ASSUME NEW o \in Owners, held' = [held EXCEPT ![o] = NoGen], UNCHANGED known
        PROVE  PinnedAreKnown'
    BY <1>3 DEF PinnedAreKnown, TypeOK
  <1>4. ASSUME known \subseteq known', UNCHANGED held
        PROVE  PinnedAreKnown'
    BY <1>4 DEF PinnedAreKnown
  <1>5. ASSUME NEW h \in Handles, Materialize(h) \/ Release(h)
        PROVE  PinnedAreKnown'
    BY <1>2, <1>3, <1>5 DEF Materialize, Release, Unpin, Owners
  <1>6. ASSUME NEW b \in Builds, BuildMaterialize(b) \/ BuildRelease(b)
        PROVE  PinnedAreKnown'
    BY <1>2, <1>3, <1>6 DEF BuildMaterialize, BuildRelease, Unpin, Owners
  <1>7. ASSUME NEW b \in Builds, BuildSecondCheck(b)
        PROVE  PinnedAreKnown'
    BY <1>4, <1>7 DEF BuildSecondCheck, Register
  <1>8. ASSUME NEW c \in Compactors,
               VerifyCommit(c) \/ PublishCompaction(c) \/ EvictAfterPublish(c)
        PROVE  PinnedAreKnown'
    BY <1>1, <1>4, <1>8 DEF VerifyCommit, PublishCompaction, EvictAfterPublish, Register
  <1>9. CASE CommitTxn \/ EvictUnpinnedIndexes
    BY <1>1, <1>4, <1>9 DEF CommitTxn, EvictUnpinnedIndexes, Register
  <1> QED
    BY <1>4, <1>5, <1>6, <1>7, <1>8, <1>9
    DEF Next, CheckOpen, RejectNewer, StartBuild, CancelBuild, BuildFirstCheck, WaitBuild,
        PlanCompaction, BeginVerify, RejectShutdown, Shutdown

(* Registering any generation up to the one after the head keeps the        *)
(* newest generation at the head's or one past it.                          *)
LEMMA GenerationStep ==
  ASSUME IInv, Next
  PROVE  GenerationTracksHead'
  <1> USE DEF IInv
  <1>0. latest \in Nat /\ latestGen \in Nat /\ known \subseteq Nat
    BY DEF TypeOK, Commits, Gens
  <1>1. ASSUME NEW g \in Nat, g <= latest + 1, Register(g), UNCHANGED latest
        PROVE  GenerationTracksHead'
    BY <1>0, <1>1 DEF Register, MaxOf, GenerationTracksHead, GenOf
  <1>2. ASSUME EvictUnpinned, UNCHANGED latest
        PROVE  GenerationTracksHead'
    BY <1>0, <1>2 DEF EvictUnpinned, GenerationTracksHead
  <1>3. ASSUME UNCHANGED <<latest, known, latestGen>>
        PROVE  GenerationTracksHead'
    BY <1>3 DEF GenerationTracksHead
  <1>4. CASE CommitTxn
    BY <1>0, <1>4 DEF CommitTxn, Register, MaxOf, GenerationTracksHead, GenOf
  <1>5. ASSUME NEW h \in Handles, Materialize(h)
        PROVE  GenerationTracksHead'
    <2>1. Selected(h) \in Nat /\ Selected(h) <= latest
      BY <1>0, <1>5 DEF Materialize, Selected, TypeOK, CallState, Commits, Head
    <2>2. GenOf(Selected(h)) \in Nat /\ GenOf(Selected(h)) <= latest + 1
      BY <1>0, <2>1 DEF GenOf
    <2> QED
      BY <1>1, <1>5, <2>2 DEF Materialize, Pin
  <1>6. ASSUME NEW b \in Builds, BuildMaterialize(b)
        PROVE  GenerationTracksHead'
    <2>1. build[b].target \in Nat /\ build[b].target <= latest
      BY <1>6 DEF OwnersConsistent, TypeOK, BuildState, Commits
    <2>2. GenOf(build[b].target) \in Nat /\ GenOf(build[b].target) <= latest + 1
      BY <1>0, <2>1 DEF GenOf
    <2> QED
      BY <1>1, <1>6, <2>2 DEF BuildMaterialize, Pin
  <1>7. ASSUME NEW b \in Builds, BuildSecondCheck(b)
        PROVE  GenerationTracksHead'
    <2>1. held[b] \in known
      BY <1>7 DEF BuildSecondCheck, OwnersConsistent, PinnedAreKnown, Owners
    <2>2. held[b] \in Nat /\ held[b] <= latest + 1
      <3>1. latestGen <= latest + 1 /\ \A g \in known : g <= latestGen
        BY DEF GenerationTracksHead
      <3> DEFINE g == held[b]
      <3>2. g \in known /\ g \in Nat /\ g <= latestGen
        BY <1>0, <2>1, <3>1
      <3> HIDE DEF g
      <3>3. g \in Nat /\ g <= latest + 1
        BY <1>0, <3>1, <3>2
      <3> QED BY <3>3 DEF g
    <2>3. CASE Register(held[b])
      BY <1>1, <1>7, <2>2, <2>3 DEF BuildSecondCheck
    <2>4. CASE UNCHANGED <<known, latestGen>>
      BY <1>3, <1>7, <2>4 DEF BuildSecondCheck
    <2> QED
      BY <1>7, <2>3, <2>4 DEF BuildSecondCheck
  <1>8. ASSUME NEW c \in Compactors, VerifyCommit(c)
        PROVE  GenerationTracksHead'
    <2>1. comp[c].at \in Nat /\ comp[c].at <= latest
      BY <1>0, <1>8 DEF VerifyCommit, CompactionWindowExists, TypeOK, CompState, Commits
    <2>2. GenOf(comp[c].at) \in Nat /\ GenOf(comp[c].at) <= latest + 1
      BY <1>0, <2>1 DEF GenOf
    <2> QED
      BY <1>1, <1>8, <2>2 DEF VerifyCommit
  <1>9. ASSUME NEW c \in Compactors, PublishCompaction(c)
        PROVE  GenerationTracksHead'
    <2>1. (IF latest = 0 THEN 1 ELSE latest + 1) \in Nat
          /\ (IF latest = 0 THEN 1 ELSE latest + 1) <= latest + 1
      BY <1>0
    <2> QED
      BY <1>1, <1>9, <2>1 DEF PublishCompaction
  <1>10. ASSUME NEW c \in Compactors, EvictAfterPublish(c)
         PROVE  GenerationTracksHead'
    BY <1>2, <1>10 DEF EvictAfterPublish
  <1>11. CASE EvictUnpinnedIndexes
    BY <1>2, <1>11 DEF EvictUnpinnedIndexes
  <1> QED
    BY <1>3, <1>4, <1>5, <1>6, <1>7, <1>8, <1>9, <1>10, <1>11
    DEF Next, CheckOpen, RejectNewer, Release, Unpin, StartBuild, CancelBuild,
        BuildFirstCheck, BuildRelease, WaitBuild, PlanCompaction, BeginVerify,
        RejectShutdown, Shutdown

(* A planned window lies inside the commits that exist and stays there; the *)
(* verification walks it once, under the mutex.                             *)
LEMMA WindowStep ==
  ASSUME IInv, Next
  PROVE  CompactionWindowExists' /\ VerifyPosition'
  <1> USE DEF IInv
  <1> DEFINE Goal == CompactionWindowExists' /\ VerifyPosition'
  <1>0. /\ latest \in Nat /\ comp \in [Compactors -> CompState]
        /\ \A c \in Compactors : comp[c].from \in Nat /\ comp[c].through \in Nat
                                 /\ comp[c].at \in Nat
    BY DEF TypeOK, Commits, CompState
  <1>1. ASSUME UNCHANGED <<mutex, comp>>, latest' = latest \/ latest' = latest + 1
        PROVE  Goal
    BY <1>0, <1>1 DEF CompactionWindowExists, VerifyPosition
  <1>2. ASSUME NEW c \in Compactors, NEW keep \in 1..(MaxCommit + 1), PlanCompaction(c, keep)
        PROVE  Goal
    <2>1. RetainedFrom(keep) \in Nat /\ RetainedFrom(keep) <= latest
      BY <1>0, IndexLeasesAssumption DEF RetainedFrom
    <2>2. mutex \notin Compactors
      BY <1>2, IndexLeasesAssumption DEF PlanCompaction
    <2> QED
      BY <1>0, <1>2, <2>1, <2>2 DEF PlanCompaction, CompactionWindowExists, VerifyPosition
  <1>3. ASSUME NEW c \in Compactors, BeginVerify(c)
        PROVE  Goal
    BY <1>0, <1>3, IndexLeasesAssumption
    DEF BeginVerify, CompactionWindowExists, VerifyPosition
  <1>4. ASSUME NEW c \in Compactors, RejectShutdown(c)
        PROVE  Goal
    BY <1>0, <1>4, IndexLeasesAssumption
    DEF RejectShutdown, CompIdle, CompactionWindowExists, VerifyPosition
  <1>5. ASSUME NEW c \in Compactors, VerifyCommit(c)
        PROVE  Goal
    BY <1>0, <1>5 DEF VerifyCommit, CompactionWindowExists, VerifyPosition
  <1>6. ASSUME NEW c \in Compactors, PublishCompaction(c)
        PROVE  Goal
    BY <1>0, <1>6, IndexLeasesAssumption
    DEF PublishCompaction, CompactionWindowExists, VerifyPosition
  <1>7. ASSUME NEW c \in Compactors, EvictAfterPublish(c)
        PROVE  Goal
    BY <1>0, <1>7 DEF EvictAfterPublish, CompIdle, CompactionWindowExists, VerifyPosition
  <1> HIDE DEF Goal
  <1>8. Goal
    BY <1>0, <1>1, <1>2, <1>3, <1>4, <1>5, <1>6, <1>7
    DEF Next, CommitTxn, CheckOpen, Materialize, RejectNewer, Release, EvictUnpinnedIndexes,
        StartBuild, CancelBuild, BuildFirstCheck, BuildMaterialize, BuildSecondCheck,
        BuildRelease, WaitBuild, Shutdown
  <1> QED
    BY <1>8 DEF Goal

(* The program counters keep saying who holds a snapshot.                   *)
LEMMA OwnersStep ==
  ASSUME IInv, Next
  PROVE  OwnersConsistent'
  <1> USE DEF IInv
  <1>0. /\ latest \in Nat /\ \A b \in Builds : build[b].target \in Nat
        /\ call \in [Handles -> CallState] /\ build \in [Builds -> BuildState]
        /\ held \in [Owners -> Gens \union {NoGen}]
        /\ Handles \intersect Builds = {} /\ NoGen \notin Gens
    BY IndexLeasesAssumption DEF TypeOK, Commits, BuildState, Gens, NoGen
  <1>1. ASSUME UNCHANGED <<call, build, held>>, latest' = latest \/ latest' = latest + 1
        PROVE  OwnersConsistent'
    BY <1>0, <1>1 DEF OwnersConsistent
  <1>2. ASSUME NEW h \in Handles, NEW sel, CheckOpen(h, sel)
        PROVE  OwnersConsistent'
    BY <1>0, <1>2 DEF CheckOpen, OwnersConsistent
  <1>3. ASSUME NEW h \in Handles, Materialize(h)
        PROVE  OwnersConsistent'
    <2>1. GenOf(Selected(h)) # NoGen
      BY <1>0, <1>3 DEF Materialize, Selected, TypeOK, CallState, Commits, Head, GenOf, NoGen
    <2> QED
      BY <1>0, <1>3, <2>1 DEF Materialize, OwnersConsistent, Owners, CallState
  <1>4. ASSUME NEW h \in Handles, RejectNewer(h)
        PROVE  OwnersConsistent'
    BY <1>0, <1>4 DEF RejectNewer, CallIdle, OwnersConsistent
  <1>5. ASSUME NEW h \in Handles, Release(h)
        PROVE  OwnersConsistent'
    BY <1>0, <1>5 DEF Release, CallIdle, OwnersConsistent, Owners
  <1>6. ASSUME NEW b \in Builds, NEW target \in Commits, StartBuild(b, target)
        PROVE  OwnersConsistent'
    BY <1>0, <1>6 DEF StartBuild, OwnersConsistent, Owners
  <1>7. ASSUME NEW b \in Builds, CancelBuild(b)
        PROVE  OwnersConsistent'
    BY <1>0, <1>7 DEF CancelBuild, OwnersConsistent, BuildState
  <1>8. ASSUME NEW b \in Builds, BuildFirstCheck(b)
        PROVE  OwnersConsistent'
    BY <1>0, <1>8 DEF BuildFirstCheck, OwnersConsistent, BuildState
  <1>9. ASSUME NEW b \in Builds, BuildMaterialize(b)
        PROVE  OwnersConsistent'
    <2>1. GenOf(build[b].target) # NoGen
      BY <1>0 DEF GenOf, NoGen
    <2> QED
      BY <1>0, <1>9, <2>1 DEF BuildMaterialize, OwnersConsistent, Owners, BuildState
  <1>10. ASSUME NEW b \in Builds, BuildSecondCheck(b)
         PROVE  OwnersConsistent'
    BY <1>0, <1>10 DEF BuildSecondCheck, OwnersConsistent, BuildState
  <1>11. ASSUME NEW b \in Builds, BuildRelease(b)
         PROVE  OwnersConsistent'
    BY <1>0, <1>11 DEF BuildRelease, OwnersConsistent, Owners, BuildState
  <1>12. ASSUME NEW b \in Builds, WaitBuild(b)
         PROVE  OwnersConsistent'
    BY <1>0, <1>12 DEF WaitBuild, BuildIdle, OwnersConsistent
  <1> QED
    BY <1>0, <1>1, <1>2, <1>3, <1>4, <1>5, <1>6, <1>7, <1>8, <1>9, <1>10, <1>11, <1>12
    DEF Next, CommitTxn, EvictUnpinnedIndexes, PlanCompaction, BeginVerify, RejectShutdown,
        VerifyCommit, PublishCompaction, EvictAfterPublish, Shutdown

LEMMA InitEstablishes ==
  Init => IInv
  <1> SUFFICES ASSUME Init PROVE IInv
    OBVIOUS
  <1> USE DEF Init
  <1>1. TypeOK
    <2>1. /\ latest \in Commits /\ known \subseteq Gens /\ latestGen \in Gens
          /\ pins \in [Gens -> Nat] /\ held \in [Owners -> Gens \union {NoGen}]
      BY IndexLeasesAssumption DEF Commits, Gens, NoGen
    <2>2. CallIdle \in CallState /\ BuildIdle \in BuildState /\ CompIdle \in CompState
      BY IndexLeasesAssumption
      DEF CallIdle, BuildIdle, CompIdle, CallState, BuildState, CompState, Commits, Head
    <2> QED
      BY <2>1, <2>2 DEF TypeOK
  <1>2. PinsMatchOwners
    <2> SUFFICES ASSUME NEW g \in Gens
                 PROVE  pins[g] = Cardinality({o \in Owners : held[o] = g})
      BY DEF PinsMatchOwners
    <2>1. {o \in Owners : held[o] = g} = {}
      BY DEF NoGen, Gens
    <2> QED
      BY <2>1, FS_EmptySet
  <1>3. PinnedAreKnown /\ GenerationTracksHead
    BY DEF PinnedAreKnown, GenerationTracksHead, GenOf, NoGen
  <1>4. CompactionWindowExists /\ VerifyPosition
    BY IndexLeasesAssumption DEF CompactionWindowExists, VerifyPosition, CompIdle
  <1>5. OwnersConsistent
    BY DEF OwnersConsistent, CallIdle, BuildIdle, NoGen, Owners
  <1> QED
    BY <1>1, <1>2, <1>3, <1>4, <1>5 DEF IInv

-----------------------------------------------------------------------------
(* The inductive invariant holds in every reachable state.                  *)
THEOREM LeasesInvariant == Spec => []IInv
  <1>1. IInv /\ [Next]_vars => IInv'
    <2> SUFFICES ASSUME IInv, [Next]_vars PROVE IInv'
      OBVIOUS
    <2>1. CASE Next
      BY <2>1, TypeOKStep, PinsStep, KnownStep, GenerationStep, WindowStep, OwnersStep DEF IInv
    <2>2. CASE UNCHANGED vars
      BY <2>2 DEF vars, IInv, TypeOK, PinsMatchOwners, PinnedAreKnown, GenerationTracksHead,
                  CompactionWindowExists, OwnersConsistent, VerifyPosition
    <2> QED
      BY <2>1, <2>2
  <1> QED
    BY InitEstablishes, <1>1, PTL DEF Spec

(* Type correctness of the registry and its clients.                        *)
THEOREM LeasesTypeCorrect == Spec => []TypeOK
  BY LeasesInvariant, PTL DEF IInv

(* The pin count of a generation is exactly the number of live snapshots.   *)
THEOREM PinCountsExact == Spec => []PinsMatchOwners
  BY LeasesInvariant, PTL DEF IInv

(* No eviction, in whatever thread, removes a generation somebody reads.    *)
THEOREM EvictionSparesReaders == Spec => []PinnedAreKnown
  BY LeasesInvariant, PTL DEF IInv

(* The newest generation is the head's or one past it, and stays known.     *)
THEOREM GenerationsFollowHead == Spec => []GenerationTracksHead
  BY LeasesInvariant, PTL DEF IInv

(* A compaction verifies commits that exist, one compaction at a time.      *)
THEOREM CompactionWindowSound == Spec => []CompactionWindowExists
  BY LeasesInvariant, PTL DEF IInv
=============================================================================
