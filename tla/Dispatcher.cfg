SPECIFICATION FairSpec
CONSTANTS
    t1 = t1
    t2 = t2
    t3 = t3
    A = A
    B = B
    Tasks = {t1, t2, t3}
    Pairs = {A, B}
    Composing = {t1}
    Deployments <- MCDeployments
    MaxDoubles = 1
CHECK_DEADLOCK FALSE
INVARIANTS
    LiveLeaseCovered
    NeverOverfilled
    
PROPERTIES
    EveryRowServed
    ClaimsHandedBack
