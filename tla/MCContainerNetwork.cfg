SPECIFICATION Spec
CONSTANTS
    c1 = c1
    c2 = c2
    N2 = N2
    n2 = n2
    Containers = {c1, c2}
    Names = {c1, c2, N2, n2}
    NameOf <- MCNameOf
    Lower <- MCLower
    Services <- MCServices
    StaticOf <- MCStaticOf
    Pids = {1, 22}
    Octet = 4
    Gateway <- MCGateway
    Wide = TRUE
    NoIP = NoIP
    NoPid = NoPid
    Free = Free
    Up = Up
    MaxCrashes = 1
INVARIANTS
    TypeOK
    RunningResolves
    SurvivorsResolve
    PairsReleased
    NotTheGateway
CHECK_DEADLOCK FALSE
