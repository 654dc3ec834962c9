SPECIFICATION FairSpec
CONSTANTS
    r1 = r1
    r2 = r2
    Requests <- TwoRequests
    Strategies <- TwoStrategies
    Percentages <- OffPartial
    SuccessThreshold = 2
    MaxRetries = 1
INVARIANTS
    TypeOK
    FailsOnlyWithMcp
PROPERTIES
    RequestsEnd
    OnlyConnectingTrips
