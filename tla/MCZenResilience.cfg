SPECIFICATION FairSpec
CONSTANTS
    r1 = r1
    r2 = r2
    r3 = r3
    Requests <- ThreeRequests
    Impatient <- OneImpatient
    FailureThreshold = 2
    SuccessThreshold = 2
    RecoveryTimeout = 1
    MaxRetries = 2
    FailureCap = 3
INVARIANTS
    TypeOK
PROPERTIES
    GateSpec
    RecoversForGood
