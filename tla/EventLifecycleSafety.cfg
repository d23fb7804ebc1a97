SPECIFICATION FairSpec
CONSTANTS
    Instances = {i1, i2}
    Events = {e1}
    Unattended = {}
    MaxRetries = 2
    MaxFailures = 2
    MaxCrashes = 1
    None = None
CHECK_DEADLOCK FALSE
INVARIANTS
    IInv
    FinalBoardsMatchStatus
    StartedEventsHaveRooms
    RewardsOnce
    ExpiryHeardOnce
PROPERTIES
    StatusFollowsClock
    ImplementsOutcome
    ExpiredEventsComplete
