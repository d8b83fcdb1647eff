CONSTANTS
    Servers = {s1, s2}
    Conns = {c1, c2}
    Callers = {k1}
    Listener = listener
    RetryTimes = 1
    MaxOrphans = 1
    MaxBusy = 2
    RedoItems = 0
    Dynamic = FALSE
    Closes = FALSE
    Resets = TRUE
    NoServer = NoServer
    NoConn = NoConn
    Empty = Empty
SPECIFICATION Spec
SYMMETRY ConnSymmetry
INVARIANTS
    TypeOK
    UnhealthyIsPursued
    AnnouncementNotLost
    ReplacedIsClosed
    ClosedIsAbandoned
