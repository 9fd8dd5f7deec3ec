CONSTANTS
    f1 = f1  f2 = f2
    wf1 = wf1  wf2 = wf2
    Jobs <- MCJobs
    FastJobs <- MCJobs
    HandledJobs = {f1}
    FastWorkers <- MCWorkers
    SlowWorkers <- MCNone
    StatsLoop = StatsLoop
    SignalLoop = SignalLoop
    FastQueueSize = 1
    SlowQueueSize = 1
    NoJob = NoJob
SPECIFICATION FairSpec
INVARIANTS
    TypeOK
    HandledAtMostOnce
    AcceptedIsKept
    ActiveIsAccounted
PROPERTIES
    ImplementsLifecycle
    AcceptedIsProcessed
    EnqueueEnds
    StopTerminates
