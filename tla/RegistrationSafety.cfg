SPECIFICATION Spec
CONSTANTS
    g1 = g1
    g2 = g2
    g3 = g3
    g4 = g4
    e1 = e1
    e2 = e2
    Guilds = {g1, g2, g3, g4}
    Users = {u1}
    Roster <- OneRoster
    Requests = {q1}
    Requester <- FromG1
    Events = {e1, e2}
    Handlers = {h1, h2}
    MaxGuilds = 3
    MaxPlayers = 1
    None = None
CHECK_DEADLOCK FALSE
SYMMETRY Symmetry
INVARIANTS
    IInv
    GuildsWithinCapacityAndOverlap
    EventsPerRequest
    RequesterTakesPart
    OnTimeGuildsHaveRooms
    RoomsAreFilled
PROPERTIES
    ImplementsStart
