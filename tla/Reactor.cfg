SPECIFICATION FairSpec
CONSTANTS
    root = root
    kid = kid
    b1 = b1
    b2 = b2
    p1 = p1
    p2 = p2
    NoPod = NoPod
    Resources = {root, kid}
    Roots = {root}
    Bindings = {b1, b2}
    Edge <- MCEdge
    Matching <- MCMatching
    Pods = {p1, p2}
    BatchSize = 2
    MaxParallel = 1
    Recurs = FALSE
    MaxGen = 1
    MaxEpoch = 6
    MaxFaults = 1
CHECK_DEADLOCK FALSE
INVARIANTS
    DeliveriesKept
PROPERTIES
    CrossingsReported
    EventuallyReacts
