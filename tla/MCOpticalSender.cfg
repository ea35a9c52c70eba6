SPECIFICATION Spec
CONSTANTS
  Tabs = {t1, t2}
  MaxStreams = 2
  MaxActs = 2
  MaxFailures = 1
  ExactTo = 13
SYMMETRY TabSymmetry
INVARIANTS
  ScreenEntitled
  ReloadSafe
CHECK_DEADLOCK FALSE
