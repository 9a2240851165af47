SPECIFICATION FairSpec
CONSTANTS
    r1 = r1
    p1 = p1
    p2 = p2
    NoPod = NoPod
    Resources = {r1}
    Pods = {p1, p2}
    AttemptCap = 2
    MaxGen = 2
    MaxFaults = 2
CHECK_DEADLOCK FALSE
INVARIANTS
    OneWriter
    SyncedWasCarriedOut
PROPERTIES
    ImplementsConvergence
    StatusNeverRegresses
    EventuallySettled
