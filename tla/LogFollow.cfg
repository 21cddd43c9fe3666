SPECIFICATION FairSpec
CONSTANTS
    MaxLines = 3
    MaxSessions = 2
    MaxCrashes = 1
INVARIANTS
    TypeOK
    SnapshotSent
    LoggedAtEnd
PROPERTIES
    FollowEnds
    CatchesUp
\* the sessions are over and nobody asks
CHECK_DEADLOCK FALSE
