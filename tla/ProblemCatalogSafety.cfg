SPECIFICATION Spec
CONSTANTS
    t1 = t1
    t2 = t2
    Tags = {t1, t2}
    Names = {n1, n2}
    Problems = {p1, p2}
    Contents <- TwoContents
    Languages = {l1, l2}
    Submissions = {s1}
    Handlers = {h1, h2}
    Wanted <- OneOfEach
    Topics = {}
CHECK_DEADLOCK FALSE
SYMMETRY Symmetry
INVARIANTS
    IInv
    TagsConsistent
    ProblemsOfOneRequest
    EventProblemsFit
