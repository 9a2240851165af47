SPECIFICATION FairSpec
CONSTANTS
    root = root
    k1 = k1
    k2 = k2
    Root <- root
    Kids = {k1, k2}
    Composites <- MCComposites
    ApiDeletes = {root}
    MaxFaults = 1
CHECK_DEADLOCK FALSE
INVARIANTS
    TornDownBeforeGone
PROPERTIES
    TeardownInOrder
    FrozenKept
    DeletionCompletes
