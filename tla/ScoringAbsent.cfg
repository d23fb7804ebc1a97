SPECIFICATION Spec
CONSTANTS
    i1 = i1
    i2 = i2
    p1 = p1
    p2 = p2
    q = q
    Instances = {i1, i2}
    Players = {p1, p2}
    Problems = {q}
    Submissions <- TwoAttempts
    Early = {p1}
    Completer = completer
    None = none
    MaxJoins = 0
    MaxFailures = 0
INVARIANT AcceptedMeansScored
CHECK_DEADLOCK FALSE
