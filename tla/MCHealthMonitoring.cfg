SPECIFICATION FairMonitoringSpec
CONSTANTS
    s1 = s1
    s2 = s2
    Stoppers <- TwoStoppers
    MaxLoops = 3
INVARIANTS
    MonitoringTypeOK
    OneChecker
PROPERTY StopReturns
