CONSTANTS
    Keys = {d1}
    Contents = {x}
    NoContent = NoContent
    Listeners = {l1}
    NoEntry = NoEntry
    PerTaskConfigSize = 3
    MaxPublishes = 1
    MaxListens = 2
    MaxDrops = 1
    MaxSignals = 1
    Cancels = TRUE
SPECIFICATION FairSpec
INVARIANTS
    TypeOK
PROPERTIES
    ListenedIsRegistered
    UpToDate
