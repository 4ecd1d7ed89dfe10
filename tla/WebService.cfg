SPECIFICATION Spec
CONSTANTS
  SessionSlots = 2
  SessionLife = 2
  Setups <- Explored
INVARIANTS SessionsHonest WipedAndTimed
PROPERTIES WizardKept AdminSettles
CHECK_DEADLOCK FALSE
