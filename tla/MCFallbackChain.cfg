SPECIFICATION FairSpec
CONSTANTS
    r1 = r1
    r2 = r2
    Requests <- TwoRequests
    NoQuery = NoQuery
    MaxRetryAttempts = 1
    BreakerThreshold = 2
    BreakerTimeout = 1
    EmergencyDuration = 1
    MinOperations = 2
    FailureCap = 3
    AgeCap = 2
INVARIANTS
    TypeOK
    OpenIffThreshold
PROPERTIES
    EmergencyLasts
    RecoversForGood
    AnsweredUnlessHung
