\* A device is being updated to an image that no device runs yet.
SPECIFICATION FairSpec
CONSTANTS
    i1 = i1
    i2 = i2
    s1 = s1
    d1 = d1
    u1 = u1
    u2 = u2
    Images = {i1, i2}
    Installing = {i1}
    Sets = {s1}
    SetOf <- MCSetOf
    Devices = {d1}
    Updates = {u1, u2}
    CommitOf <- MCCommitOf
    DeviceOf <- MCDeviceOf
    Legacy = {u2}
    NoImage = NoImage
    MaxRetries = 0
    MaxFaults = 1
INVARIANTS UpdateRepoIsAvailable
CHECK_DEADLOCK FALSE
