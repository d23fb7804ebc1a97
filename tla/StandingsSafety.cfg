SPECIFICATION Spec
CONSTANTS
    p1 = p1
    p2 = p2
    p3 = p3
    g1 = g1
    g2 = g2
    r1 = r1
    Players = {p1, p2, p3}
    Guilds = {g1, g2}
    Rooms = {r1}
    GuildOf <- OfGuilds
    RoomOf <- OneRoom
    GuildJoined <- InOrder
    TopPlaces = 2
    MaxTime = 6
CHECK_DEADLOCK FALSE
INVARIANTS
    IInv
    RoomPlacesFollowScores
    RewardsFollowScores
