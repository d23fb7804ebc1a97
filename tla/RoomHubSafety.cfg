SPECIFICATION FairSpec
CONSTANTS
    p1 = p1
    Connections <- TwoConnections
    Capacity = 2
    MaxConnections = 2
    MaxHubs = 2
    MaxRequests = 1
CHECK_DEADLOCK FALSE
INVARIANTS
    IInv
    ListenersAreOpen
    OneLiveHub
    RoomsInUseNeverPanic
PROPERTY HubsServe
