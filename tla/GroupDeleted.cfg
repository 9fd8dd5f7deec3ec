\* A rename and a delete of one group.
SPECIFICATION Spec
CONSTANTS
    Requests = {r1, r2}
    Names = {n1, n2}
    Devices = {}
    Sets = {}
    Nothing = Nothing
    MaxGroup = 1
    MaxRequests = 3
PROPERTY DeletedIsGone
CHECK_DEADLOCK FALSE
