SPECIFICATION Spec
SYMMETRY Symmetry
CONSTANTS
  Handles = {h1, h2, h3, h4}
  Mixes <- MCMixes
  Size = 1
  Tears = {0, 1}
  Undecodable = {}
  MaxFaults = 1
INVARIANTS
  TypeOK
  ReadsShowSucceeded
  ApplyReportsTruth
  ShortFileStays
PROPERTIES
  RefusedOnlyForCause
CHECK_DEADLOCK FALSE
