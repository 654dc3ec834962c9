SPECIFICATION FairSpec
CONSTANTS
    n1 = n1
    n2 = n2
    t1 = t1
    t2 = t2
    a1 = a1
    a2 = a2
    NoName = NoName
    MockId = MockId
    Names <- TwoNames
    Flagged <- OneFlag
    Tokens <- TwoRows
    MaxRotations = 2
    Admins <- TwoAdmins
INVARIANTS
    TypeOK
    PlansDoNotPileUp
PROPERTIES
    RevokedForGood
    DueIsTried
