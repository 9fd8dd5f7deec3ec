CONSTANTS
    Hosts = {h1, h2}
    Consumer = Consumer
    Syncs = {s1}
    MaxImage = 1
    MaxRow = 2
    MaxChanges = 2
    SyncDeletes = TRUE
    SyncCreates = TRUE
    MayFail = TRUE
SPECIFICATION Spec
PROPERTIES
    DeletedIsGone
