SPECIFICATION Spec
CONSTANTS
    Gateways = {g1}
    Threads = {t1}
    Pids = {p1, p2}
    Reusable = {}
    NoPid = NoPid
    NoGw = NoGw
    MaxCrashes = 0
SYMMETRY Symmetry
PROPERTY HealthyIsServing
