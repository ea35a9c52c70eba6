CONSTANTS
  Handles = {t1, t2}
  NoHandle = NoHandle
  NumBlocks = 4
  MaxCommit = 1
  CompactAt = 1
SPECIFICATION SpecLate
SYMMETRY Symmetry
INVARIANT ToldSurvives
