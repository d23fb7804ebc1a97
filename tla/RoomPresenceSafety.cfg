SPECIFICATION FairSpec
CONSTANTS
    p1 = p1
    Instances = {i1, i2}
    Players = {p1}
    Conns = {c1, c2, c3}
    PlayerOf <- OfP1
    MaxFailures = 1
CHECK_DEADLOCK FALSE
INVARIANTS
    IInv
    OrderlyPlayersShown
PROPERTIES
    OrderlyPlayersJudged
    JoinsAreShown
