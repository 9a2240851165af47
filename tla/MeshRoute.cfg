SPECIFICATION RouteFairSpec
CONSTANTS
    OutCap = 1
    Advertisers = 1
    Flappers = {"a"}
    MaxEdges = 2
    MaxDrops = 1
    MaxFlaps = 1
CHECK_DEADLOCK FALSE
INVARIANTS
    SettledExact
PROPERTIES
    EventuallyPresent
