CONSTANTS
    c0 = c0  c1 = c1  c2 = c2  r1 = r1  r2 = r2
    d1 = d1  d2 = d2  d3 = d3  u1 = u1  u2 = u2  u3 = u3
    Requests <- MCGroupRequests
    GroupRequests <- MCGroupRequests
    Updates <- MCGroupUpdates
    Devices <- MCGroupDevices
    Disconnected <- MCGroupDisconnected
    Commits <- MCCommits
    FirstCommit <- MCGroupFirstCommit
    DevNull = DevNull
    RequestOf <- MCGroupRequestOf
    DeviceOf <- MCGroupDeviceOf
    CommitOf <- MCGroupCommitOf
    MayInterrupt = TRUE
    MayCrash = FALSE
SPECIFICATION FairSpec
INVARIANTS
    DispatchedIsReady
PROPERTIES
    
    RecordIsAnswered
