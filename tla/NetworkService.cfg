SPECIFICATION ServiceSpec
CONSTANTS
    FailureThreshold = 2
    Clients = {c1, c2}
    MaxProfiles = 2
    Secrets = 2
    Names = {1, 2}
    RowMax = 3
    Sizes <- ScanSizes
    Setups <- Explored
INVARIANTS
    ClientsHonest RecoveryHonest
PROPERTIES
    RebootsEarned NetworkSettles
