SPECIFICATION CarefulSpec
CONSTANTS
    Gateways = {g1, g2}
    Threads = {t1, t2}
    Pids = {p1, p2, p3, p4}
    Reusable = {}
    NoPid = NoPid
    NoGw = NoGw
    MaxCrashes = 2
SYMMETRY Symmetry
INVARIANTS
    TypeOK
    DueIsServed
