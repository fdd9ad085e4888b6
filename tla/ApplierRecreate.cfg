SPECIFICATION FairSpec
CONSTANTS
    a = a
    b = b
    p = p
    q = q
    Contents <- MCContents
    Pieces <- MCPieces
    RetentionLimit = 1
    MaxChanges = 1
    MaxFaults = 0
    MaxDeletes = 1
PROPERTY
    RefsEventuallyResolve
CHECK_DEADLOCK FALSE
