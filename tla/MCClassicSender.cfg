SPECIFICATION Spec
CONSTANTS
  Tabs = {t1, t2}
  MaxStreams = 2
  MaxActs = 4
  MaxFailures = 1
SYMMETRY TabSymmetry
INVARIANTS
  FilesGated
  RecordsAccounted
CHECK_DEADLOCK FALSE
