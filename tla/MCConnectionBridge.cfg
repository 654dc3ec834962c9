SPECIFICATION FairBridgeSpec
CONSTANTS
    c1 = c1
    c2 = c2
    context7 = context7
    zen = zen
    p1 = p1
    p2 = p2
    p3 = p3
    NoProcess = NoProcess
    Clients <- TwoClients
    Servers <- TwoServers
    NpxServers <- OneNpx
    Processes <- ThreeProcesses
INVARIANTS
    BridgeTypeOK
    StopsItsOwn
PROPERTIES
    LostByRaceOrCancel
    DeadConnectionsGo
