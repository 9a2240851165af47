SPECIFICATION FairSpec
CONSTANTS
    t1 = t1
    t2 = t2
    r1 = r1
    s1 = s1
    s2 = s2
    None = None
    Local = {t1, t2}
    Refs = {r1}
    Streams = {s1, s2}
    Fleets <- MCFleets
    MaxInflight = 1
    Buffer = 1
CHECK_DEADLOCK FALSE
INVARIANTS
    AccountsExact
    OnePlace
PROPERTIES
    LostStageReturns
