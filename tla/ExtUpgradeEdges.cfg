SPECIFICATION Spec
CONSTANTS
    N = 3
    Bundles <- MCBundles
    Successors <- MCSuccessors
    Deprecated <- MCDeprecated
    Reports = {}
    Specs <- PinnedSpecs
    Catalogs <- FullCatalog
    MaxChanges = 2
    MaxCatalog = 0
    MaxFaults = 0
PROPERTIES
    UpgradesFollowEdges
CHECK_DEADLOCK FALSE
