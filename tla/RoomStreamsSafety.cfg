SPECIFICATION FairSpec
CONSTANTS
    i1 = i1
    i2 = i2
    p1 = p1
    Instances = {i1, i2}
    Players = {p1}
    HomeOf <- AtFirst
    MaxEvents = 2
CHECK_DEADLOCK FALSE
INVARIANTS
    IInv
    StreamsFollowRoom
PROPERTIES
    JoinersGetBoards
