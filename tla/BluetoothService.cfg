CONSTANTS
  Setups <- Explored
  Listeners = {"p", "q"}
SPECIFICATION Spec
INVARIANTS
  BondsAccounted
  WindowRestored
  StreamOwned
PROPERTIES
  SliderSettles
CHECK_DEADLOCK FALSE
