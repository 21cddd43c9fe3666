SPECIFICATION FairSpec
CONSTANTS
    Cap = 1
    MaxMsgs = 3
    MaxOut = 2
    MaxIn = 2
INVARIANTS
    TypeOK
    ExecAnswersLast
PROPERTIES
    KillEnds
    ControlEnds
    SessionEnds
\* a session that is over on both sides has nothing left to do
CHECK_DEADLOCK FALSE
