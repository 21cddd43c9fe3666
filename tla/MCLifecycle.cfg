SPECIFICATION Spec
CONSTANTS
    Ids = {c1}
    Threads = {t1, t2}
    Pids = {p1, p2}
    HostPids = {}
    NoPid = NoPid
    NoId = NoId
    MaxCrashes = 1
SYMMETRY Symmetry
INVARIANTS
    TypeOK
    RunningSupervised
    ConfinedBeforeUser
    SessionOwnsChild
    MountsBalanced
PROPERTY ImplementsSandbox
\* once every id is deleted there is nothing left to ask the daemon for
CHECK_DEADLOCK FALSE
