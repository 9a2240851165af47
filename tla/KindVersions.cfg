SPECIFICATION FairSpec
CONSTANTS
    t1 = t1
    t2 = t2
    t3 = t3
    p1 = p1
    p2 = p2
    p3 = p3
    r1 = r1
    r2 = r2
    c1 = c1
    c2 = c2
    a1 = a1
    a2 = a2
    b1 = b1
    NumShards = 4
    Reapers = {r1, r2}
    ReaperRange <- MCReaperRange
    Tasks = {t1, t2, t3}
    ShardOf <- MCShardOf
    Pods = {p1, p2, p3}
    PodRange <- MCPodRange
    Limit = 2
    Versions = {1, 2}
    Editions <- MCEditions
    Documents <- MCDocuments
    Validates <- Admits
    Compatible <- ManifestSchemaCompat
    Overlooked <- Unlinted
    Callers = {c1, c2}
    Replicas = {a1, a2}
    Home <- MCHome
    Brokers = {b1}
    Deployments <- MCDeployments
CHECK_DEADLOCK FALSE
INVARIANTS
    SpecFits
PROPERTIES
    
    VersionsGuarded
    EveryTaskRuns
    CachesCatchUp
