CONSTANTS
    Servers = {s1, s2}
    Conns = {c1, c2, c3}
    Callers = {}
    Listener = listener
    RetryTimes = 1
    MaxOrphans = 1
    MaxBusy = 0
    RedoItems = 1
    Dynamic = TRUE
    Closes = FALSE
    Resets = FALSE
    NoServer = NoServer
    NoConn = NoConn
    Empty = Empty
SPECIFICATION Spec
SYMMETRY ConnSymmetry
INVARIANTS
    TurnIsCountable
    LeftOpenOnce
CHECK_DEADLOCK FALSE
