CONSTANTS
  la = la
  x1 = x1
  x2 = x2
  MaxTimers = 2
  MsPerSec = 2
  RingSeconds = 1
  MissGrace = 1
  MaxSeconds = 2
  ClockValidEpoch = 100
  Labels <- OneLabel
  NoLabel = NoLabel
  PollCap = 3
  RestoreRetry = 1
  RingPeriod = 1
  AudioBlock = 2
  RemoteIds <- TwoRemotes
  RemoteMax = 1
  Setups <- Explored
SPECIFICATION FairSpec
INVARIANTS
  IdsUnique
  RingsInTime
  SchedulePersisted
PROPERTIES
  LoopSettles
