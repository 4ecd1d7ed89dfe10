CONSTANTS
  Setups <- Explored
  HistoryCapacity = 2
  MaxTurns = 3
  QueueLimit = 2
  FollowUpMaxDepth = 2
  Phrases = 3
  GapLimit = 2
SPECIFICATION Spec
INVARIANTS
  TurnsTruthful
PROPERTIES
  TurnsImplemented
  CancelledFallsSilent
  ListensAfterItsQuestion
CHECK_DEADLOCK FALSE
