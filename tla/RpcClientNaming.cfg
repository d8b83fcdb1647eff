CONSTANTS
    Servers = {s1}
    Conns = {c1, c2}
    Callers = {}
    Listener = listener
    RetryTimes = 1
    MaxOrphans = 0
    MaxBusy = 1
    RedoItems = 1
    Dynamic = FALSE
    Closes = FALSE
    Resets = FALSE
    NoServer = NoServer
    NoConn = NoConn
    Empty = Empty
SPECIFICATION FairSpec
PROPERTIES
    NewConnectionNotified
CHECK_DEADLOCK FALSE
