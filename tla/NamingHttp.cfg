CONSTANTS
    ServerCount = 2
    HasUser = TRUE
    TokenTtls = {40}
    RefreshPeriod = 1
    Timeout = 1
    MaxFailed = 2
    NoToken = NoToken
    Names = {0, 1}
    BeatThreadCount = 1
    MaxBeats = 2
    NoBeat = NoBeat
SPECIFICATION FairSpec
INVARIANTS
    TypeOK
    TokenInDate
    OneSenderPerBeat
    PermitsAccounted
PROPERTIES
    RemovedFallsSilent
CHECK_DEADLOCK FALSE
