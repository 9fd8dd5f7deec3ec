CONSTANTS
    i1 = i1  a1 = a1  a2 = a2
    Images <- MCImages
    Attempts <- MCAttempts
    ImageOf <- MCImageOf
    FirstAttempt <- MCFirstAttempt
    Retryable <- MCRetryable
    MayOverlap = FALSE
    MayInterrupt = TRUE
    MayCrash = TRUE
SPECIFICATION FairSpec
INVARIANTS
    TypeOK
    SuccessIsReal
    
PROPERTIES
    SuccessIsKept
    BuildingEnds
