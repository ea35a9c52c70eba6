CONSTANTS
  Handles = {t1, t2}
  NoHandle = NoHandle
  NumBlocks = 4
  MaxCommit = 2
  CompactAt = 2
SPECIFICATION Spec
SYMMETRY Symmetry
INVARIANTS
  ReceiptsBacked
  ToldSurvives
  SessionsExclude
PROPERTIES
  StaysUsable
  ImplementsDurableReceipts
