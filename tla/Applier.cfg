SPECIFICATION FairSpec
CONSTANTS
    a = a
    b = b
    p = p
    q = q
    Contents <- MCContents
    Pieces <- MCPieces
    RetentionLimit = 1
    MaxChanges = 2
    MaxFaults = 1
    MaxDeletes = 1
INVARIANTS
    RefsResolve
PROPERTIES
    NumberedFromLatest
    RetentionKeepsRecent
    DesiredIsReached
CHECK_DEADLOCK FALSE
