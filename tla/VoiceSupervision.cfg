SPECIFICATION FairSpec
CONSTANTS
    FailuresBeforeRestart = 2
    BackoffStart = 1
    BackoffMax = 2
    StormRestarts = 2
    StormWindow = 4
    HealthyReset = 6
    Grace = 4
    WorkerMax = 3
    Lone <- LongStorm
    Scenes <- Explored
INVARIANTS OwnersHonest
PROPERTIES RestartsBounded SupervisionSettles
CHECK_DEADLOCK FALSE
