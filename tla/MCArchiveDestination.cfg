CONSTANTS
  None = None
  Tabs = {t1, t2}
  Transfers = {x1, x2}
  NumFiles = 2
  MaxFaults = 2
  MaxEdits = 1
SPECIFICATION LiveSpec
INVARIANTS
  RecordedIsOurs
PROPERTIES
  OnlyRecordedWritten
  SavedIsExact
  NeverRefusesItself
  SavedOrRefused
CHECK_DEADLOCK FALSE
