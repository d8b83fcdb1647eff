CONSTANTS
    Readers = {r1, r2}
    Algorithms = {"none", "cipher", "aes"}
    DisableUseSnapShot = FALSE
    Burst = 1
    NoFile = NoFile
    MaxVersion = 2
SPECIFICATION Spec
INVARIANTS
    TypeOK
    SnapshotIsLastAnswer
