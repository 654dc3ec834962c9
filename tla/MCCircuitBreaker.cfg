SPECIFICATION FairSpec
CONSTANTS
    a1 = a1
    a2 = a2
    t1 = t1
    t2 = t2
    AsyncCallers <- TwoCoroutines
    SyncCallers <- TwoThreads
    FailureThreshold = 2
    SuccessThreshold = 2
    RecoveryTimeout = 4
    MaxRetries = 2
    BaseDelay = 1
    MaxDelay = 3
    Multiplier = 2
    Jitter = 1
    CountCap = 3
INVARIANTS
    TypeOK
    CountersFit
PROPERTIES
    OpenLeftByProbe
    GateSpec
    RecoversForGood
