SPECIFICATION Spec
CONSTANTS
  MaxAttempts = 2
  MaxJoins = 2
  MaxSelections = 2
  MaxTries = 6
  Persistent = TRUE
INVARIANTS
  FilesNeedBothConsents
  HonestPairStarts
  SelectionRules
