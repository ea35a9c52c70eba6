SPECIFICATION MCSpec
CONSTANTS
  Bindings = {b1, b2}
  NoBinding = NoBinding
  Shown = b1
  N = 2
  MaxActs = 5
  MaxBad = 1
  MaxFailures = 1
  MaxWrites = 2
INVARIANTS
  ArchiveIsBound
  CheckpointsAreTrue
PROPERTIES
  ScanEnds
CHECK_DEADLOCK FALSE
