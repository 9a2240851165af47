SPECIFICATION OperateSpec
CONSTANTS
    o1 = o1
    o2 = o2
    p1 = p1
    p2 = p2
    NoPod = NoPod
    NoOp = NoOp
    Ops = {o1, o2}
    BrokerPods = {p1, p2}
    MaxFaults = 3
CHECK_DEADLOCK FALSE
INVARIANTS
    RecordedHasTask
PROPERTIES
    EventuallyDrained
