SPECIFICATION FairSpec
CONSTANTS
    root = root
    k1 = k1
    k2 = k2
    b1 = b1
    b2 = b2
    Root <- root
    Kids = {k1, k2}
    Bands = {b1, b2}
    BandOf <- MCBandOf
    RootKinds <- MCRootKinds
    Parks = TRUE
    Freezes = TRUE
    MaxFaults = 1
CHECK_DEADLOCK FALSE
INVARIANTS
    RootFollowsChildren
    FlowsDelivered
PROPERTIES
    Converges
