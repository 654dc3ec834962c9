SPECIFICATION FairSpec
CONSTANTS
    c1 = c1
    c2 = c2
    Callers <- TwoClients
    Impatient <- OneImpatient
    BaseFailures = 2
    SuccessThreshold = 2
    BaseTimeout = 1
    ForcedOpenTimeout = 2
    MaxHalfOpen = 2
    DegradedSuccesses = 3
    DegradedFailures = 2
    MinHistory = 2
    SustainedRun = 2
    CountCap = 3
    AgeCap = 2
INVARIANTS
    TypeOK
    HalfOpenNeverFull
PROPERTIES
    ForcedOpenLasts
    NobodyRunsThrough
    RecoversForGood
