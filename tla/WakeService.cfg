SPECIFICATION Spec
CONSTANTS
  QueueBlocks = 2
  Lockout = 2
  Workers = {1, 2}
  Setups <- Explored
  Slots <- OneEach
INVARIANTS WorkerTruthful CaptureTruthful
PROPERTY WakeReturns
CHECK_DEADLOCK FALSE
