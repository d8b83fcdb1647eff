CONSTANTS
    Servers = {s1}
    Conns = {c1, c2}
    Callers = {k1}
    Listener = listener
    RetryTimes = 1
    MaxOrphans = 0
    MaxBusy = 0
    RedoItems = 1
    Dynamic = FALSE
    Closes = FALSE
    Resets = FALSE
    NoServer = NoServer
    NoConn = NoConn
    Empty = Empty
SPECIFICATION FairSpec
PROPERTIES
    RequestReturns
    OnlyRedoHoldsUp
CHECK_DEADLOCK FALSE
