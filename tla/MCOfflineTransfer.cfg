CONSTANTS
  BatchBlocks = 2
  MaxRetained = 4
  NumMessages = 5
  NumBlocks = 5
  Window = 3
  MaxFailures = 3
SPECIFICATION MCSpec
INVARIANTS
  QueueAccount
  SenderKnowsOnlyDurable
  WindowAccount
  NoProtocolFault
  NoWriteAfterClose
PROPERTIES
  NoAckAfterStop
  QueueSettles
  Delivered
  WaitEnds
