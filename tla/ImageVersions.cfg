\* Two upgrades of an image that overlap.
SPECIFICATION Spec
CONSTANTS
    Requests = {r1, r2}
    Names = {n1}
    Repos = {}
    Urls = {}
    Devices = {}
    Nothing = Nothing
    MaxImage = 3
    MaxSet = 1
    MaxRequests = 3
INVARIANT NoSameVersion
CHECK_DEADLOCK FALSE
