CONSTANTS
    c0 = c0  c1 = c1  c2 = c2  r1 = r1  r2 = r2
    d1 = d1  d2 = d2  d3 = d3  u1 = u1  u2 = u2  u3 = u3
    Requests <- MCPairRequests
    GroupRequests <- MCNone
    Updates <- MCPairUpdates
    Devices <- MCPairDevices
    Disconnected <- MCNone
    Commits <- MCCommits
    FirstCommit <- MCPairFirstCommit
    DevNull = DevNull
    RequestOf <- MCPairRequestOf
    DeviceOf <- MCPairDeviceOf
    CommitOf <- MCPairCommitOf
    MayInterrupt = FALSE
    MayCrash = TRUE
SPECIFICATION Spec
INVARIANTS
    TypeOK
    SuccessIsReal
    ImageWasReached
SYMMETRY MCPairSymmetry
