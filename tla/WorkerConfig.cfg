SPECIFICATION WorkerFairSpec
CONSTANTS
    t1 = t1
    t2 = t2
    Tasks = {t1, t2}
    Deployments <- MCDeployments
    MuxCap = 1
    ResultBufCap = 1
    ChanCap = 1
INVARIANTS
    ResultsKept
PROPERTIES
    DrainExits
    EveryTaskDone
    ConfigCatchesUp
    ReadinessLearned
CHECK_DEADLOCK FALSE
