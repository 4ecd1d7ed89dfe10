SPECIFICATION Spec
CONSTANTS
  QueueBlocks = 2
  Lockout = 2
  Workers = {1, 2}
  Setups <- Restarted
  Slots <- OneEach
PROPERTY WakeReturns
CHECK_DEADLOCK FALSE
