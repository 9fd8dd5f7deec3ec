CONSTANTS
    Hosts = {h1}
    Consumer = Consumer
    Syncs = {s1}
    MaxImage = 2
    MaxRow = 3
    MaxChanges = 2
    SyncDeletes = TRUE
    SyncCreates = TRUE
    MayFail = TRUE
SPECIFICATION FairSpec
INVARIANTS
    TypeOK
    OneRow
PROPERTIES
    PresentIsKept
    Converges
