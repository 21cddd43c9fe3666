SPECIFICATION SerialSpec
CONSTANTS
    Ids = {c1, c2}
    Threads = {t1, t2}
    Pids = {p1}
    HostPids = {p1}
    NoPid = NoPid
    NoId = NoId
    MaxCrashes = 2
SYMMETRY Symmetry
INVARIANTS
    LiveIsRecorded
    MountsExact
PROPERTIES
    StopLeavesNothing
    ImplementsContainer
CHECK_DEADLOCK FALSE
