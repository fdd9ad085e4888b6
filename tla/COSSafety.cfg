SPECIFICATION Spec
CONSTANTS
    N = 2
    dep = dep
    old = old
    Objects <- MCObjects
    Phases <- MCPhases
    Kind <- MCKind
    Probed <- MCProbed
    Deadlines = {1}
    MaxFaults = 1
    MaxDrift = 1
    MaxDisturbances = 1
INVARIANTS
    OwnersAreGuarded
    ArchivedOnlyAfterRollout
PROPERTIES
    ArchivedBeforeRelease
    NoRolloutOverForeign
    HandoverKeepsObjects
    KeepsLifecycle
CHECK_DEADLOCK FALSE
