CONSTANTS
    Keys = {d1}
    Contents = {x}
    NoContent = NoContent
    Listeners = {l1}
    NoEntry = NoEntry
    PerTaskConfigSize = 3
    MaxPublishes = 1
    MaxListens = 1
    MaxDrops = 1
    MaxSignals = 1
    Cancels = FALSE
SPECIFICATION Spec
PROPERTIES
    NoStaleCallback
