SPECIFICATION Spec
CONSTANTS
  Connections = {c1, c2}
  FileBlocks = 2
  MaxQueue = 1
  MaxBad = 1
  MaxActs = 1
  MaxFailures = 1
INVARIANTS
  FilesExact
  DiskIsAsShown
PROPERTIES
  Settles
CHECK_DEADLOCK FALSE
