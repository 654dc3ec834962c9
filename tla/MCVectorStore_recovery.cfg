SPECIFICATION FairSpec
CONSTANTS
    c1 = c1
    c2 = c2
    q1 = q1
    m1 = m1
    Server = Server
    Clients <- OneClient
    Qdrant <- OneQdrant
    Mocks <- OneMock
    Docs <- SomeDocs
    Queries <- SomeQueries
    Threshold = 2
    MaxCache = 1
    TTL = 1
PROPERTIES
    Recovers
