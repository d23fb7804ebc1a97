SPECIFICATION Spec
CONSTANTS
    i1 = i1
    i2 = i2
    p1 = p1
    p2 = p2
    q = q
    Instances = {i1, i2}
    Players = {p1, p2}
    Problems = {q}
    Submissions <- ThreeAttempts
    Early = {p1}
    Completer = completer
    None = none
    MaxJoins = 1
    MaxFailures = 1
INVARIANTS
    IInv
    SolvedOnceScoredOnce
    FinalBoardsExact
PROPERTIES
    NoneAcceptedAfterEnd
    ImplementsScoreOutcome
SYMMETRY Symmetry
CONSTRAINT FewEvents
CHECK_DEADLOCK FALSE
