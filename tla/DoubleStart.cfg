SPECIFICATION SequentialSpec
CONSTANTS
    Ids = {c1}
    Threads = {t1, t2}
    Pids = {p1, p2}
    HostPids = {}
    NoPid = NoPid
    NoId = NoId
    MaxCrashes = 0
SYMMETRY Symmetry
INVARIANT OneInstance
CHECK_DEADLOCK FALSE
