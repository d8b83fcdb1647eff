CONSTANTS
    Services = {s1}
    Instances = {i1, i2}
    HostLists = {{}, {i1}, {i2}}
    Feeders = {f1}
    Pollers = {1, 2}
    Users = {u1}
    NoService = NoService
    UpdateThreadNum = 1
    UpdateCacheWhenEmpty = FALSE
    NotLoadCacheAtStart = FALSE
    MaxTime = 2
    MaxCalls = 2
SPECIFICATION FairSpec
INVARIANTS
    TypeOK
    QueriesBounded
    LastToldIsCached
PROPERTIES
    CacheConverges
CHECK_DEADLOCK FALSE
