CONSTANTS
  Setups <- Explored
  MaxPid = 3
  CueInterval = 2
SPECIFICATION Spec
INVARIANTS
  LevelHonest
  ChildrenAccounted
PROPERTIES
  ButtonWins
  OwnerHeard
  ServiceReturns
CHECK_DEADLOCK FALSE
