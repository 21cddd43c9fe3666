SPECIFICATION FairSpec
CONSTANTS
    Conns = {c1}
    MaxPieces = 2
    Buffer = 1
INVARIANTS
    TypeOK
    FirstIsComplete
PROPERTIES
    ConnectionsEnd
    ListenerEnds
    AnswerArrives
\* the port is closed and its connections have ended
CHECK_DEADLOCK FALSE
