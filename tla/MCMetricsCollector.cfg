SPECIFICATION FairSpec
CONSTANTS
    e1 = e1
    e2 = e2
    e3 = e3
    e4 = e4
    e5 = e5
    Events <- FiveEvents
    BatchSize = 2
INVARIANTS
    TypeOK
    WrittenOnce
    StopFlushes
PROPERTY Drains
