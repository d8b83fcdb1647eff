CONSTANTS
    Servers = {s1}
    Conns = {c1, c2}
    Callers = {}
    Listener = listener
    RetryTimes = 1
    MaxOrphans = 0
    MaxBusy = 1
    RedoItems = 0
    Dynamic = FALSE
    Closes = TRUE
    Resets = FALSE
    NoServer = NoServer
    NoConn = NoConn
    Empty = Empty
SPECIFICATION FairSpec
INVARIANTS
    EventHasConnection
PROPERTIES
    Recovers
    NewConnectionNotified
CHECK_DEADLOCK FALSE
