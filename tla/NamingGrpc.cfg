CONSTANTS
    Services = {s1}
    Instances = {i1, i2, p1}
    Ephemeral = {i1, i2}
    Users = {u1, u2}
    Redo = Redo
    NoRegistration = NoRegistration
    Batches = {{i1}, {i1, p1}}
    MaxCalls = 3
    MaxDrops = 1
SPECIFICATION FairSpec
INVARIANTS
    TypeOK
    AskedIsHeld
    SubscriberIsFed
PROPERTIES
    ImplementsRegistry
    Restored
CHECK_DEADLOCK FALSE
