SPECIFICATION ReceiverSpec
CONSTANTS
  Bindings = {b1}
  NoBinding = NoBinding
  Shown = b1
  N = 1
  MaxActs = 4
  MaxBad = 0
  MaxFailures = 0
  MaxWrites = 2
INVARIANTS
  FilesNeedTest
CHECK_DEADLOCK FALSE
