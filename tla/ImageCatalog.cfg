\* Two requests at a time, builds, a device, two names, a repository with two addresses.
SPECIFICATION Spec
CONSTANTS
    Requests = {r1, r2}
    Names = {n1, n2}
    Repos = {p1}
    Urls = {u1, u2}
    Devices = {d1}
    Nothing = Nothing
    MaxImage = 3
    MaxSet = 2
    MaxRequests = 4
SYMMETRY Symmetry
INVARIANTS TypeOK NameIsUnique  InUseIsKept RepoOfImage
    ParentIsReal
CHECK_DEADLOCK FALSE
