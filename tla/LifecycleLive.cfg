SPECIFICATION FairSpec
CONSTANTS
    Ids = {c1}
    Threads = {t1, t2}
    Pids = {p1}
    HostPids = {}
    NoPid = NoPid
    NoId = NoId
    MaxCrashes = 0
PROPERTIES
    StopEndsSession
    RecordSettles
CHECK_DEADLOCK FALSE
