SPECIFICATION ServiceSpec
CONSTANTS
    RingMax = 5
    Preroll = 1
    ConnectTimeout = 2
    ConversationTimeout = 2
    MaxSession = 3
    BargeFrames = 2
    CacheMax = 1
    Ids = {i1}
    WriteMax = 1
    RetryAfter = 1
    NetMax = 2
    PayloadMax = 2
    Parts = 2
    Setups <- Explored
INVARIANTS SessionHonest UploadCurrent WireHonest
PROPERTIES ConversationsEnd
