CONSTANTS
  Envs <- Explored
  Names = {"red", "blue", "violet", "always", "indicator", "off", "pulse", "solid", "flash",
           "timed", "plain", "none", "", "wake", "action", "mute"}
  Volumes = {0, 1, 2}
SPECIFICATION Spec
INVARIANTS
  RingTruthful
PROPERTIES
  ExpiredLightForgotten
  MuteFollowed
CHECK_DEADLOCK FALSE
