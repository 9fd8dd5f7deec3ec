\* Two requests at a time, two groups, two names, two devices and two image sets.
SPECIFICATION Spec
CONSTANTS
    Requests = {r1, r2}
    Names = {n1, n2}
    Devices = {d1, d2}
    Sets = {s1, s2}
    Nothing = Nothing
    MaxGroup = 2
    MaxRequests = 5
SYMMETRY Symmetry
INVARIANTS TypeOK 
PROPERTIES OnlyAsked UpdateIsOfItsSet
CHECK_DEADLOCK FALSE
