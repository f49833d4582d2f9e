SPECIFICATION FairSpec
CONSTANTS
  h1 = h1
  b1 = b1
  c1 = c1
  c2 = c2
  Free = Free
  MaxCommit = 2
  Handles = {h1}
  Builds = {b1}
  Compactors = {c1, c2}
INVARIANTS
  TypeOK
  PinsMatchOwners
  PinnedAreKnown
  GenerationTracksHead
  CompactionWindowExists
PROPERTIES
  ShutdownDrains
