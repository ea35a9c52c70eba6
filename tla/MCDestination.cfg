CONSTANTS
  t1 = t1
  t2 = t2
  x1 = x1
  x2 = x2
  None = None
  Tabs = {t1, t2}
  Transfers = {x1, x2}
  TransferOf <- TwoTransfers
  NumFiles = 3
  Small = {1, 2}
  Concurrency = 2
  MaxFaults = 2
  MaxEdits = 1
SPECIFICATION LiveSpec
INVARIANTS
  MarkerIsTrue
  NothingLost
PROPERTIES
  OwnWritesOnly
  SavedIsExact
  SavedOrRefused
CHECK_DEADLOCK FALSE
