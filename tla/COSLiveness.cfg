SPECIFICATION FairSpec
CONSTANTS
    N = 2
    dep = dep
    old = old
    Objects <- MCObjects
    Phases <- MCPhases
    Kind <- MCKind
    Probed <- MCProbed
    Deadlines = {}
    MaxFaults = 0
    MaxDrift = 0
    MaxDisturbances = 0
PROPERTIES
    ArchivedIsReleased
    RolloutConverges
CHECK_DEADLOCK FALSE
