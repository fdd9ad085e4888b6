SPECIFICATION FairSpec
CONSTANTS
    N = 2
    dep = dep
    old = old
    Objects <- MCObjects
    Phases <- MCPhases
    Kind <- MCKind
    Probed <- MCProbed
    Deadlines = {1}
    MaxFaults = 0
    MaxDrift = 0
    MaxDisturbances = 1
PROPERTIES
    ArchivedIsReleased
CHECK_DEADLOCK FALSE
