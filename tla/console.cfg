SPECIFICATION FairSpec
CONSTANTS
    DFS_FD_MAX = 3
    Commands <- AllCommands
    MaxSessions = 3
    MaxPackets = 3
    MaxFaults = 2
CHECK_DEADLOCK FALSE
INVARIANTS
    TypeOK
    NothingLeaks
    ReleasedOnce
PROPERTIES
    ClosedIsNoticed
