SPECIFICATION OneChangeSpec
CONSTANTS
    N = 3
    Bundles <- MCBundles
    Successors <- MCSuccessors
    Deprecated <- MCDeprecated
    Reports = {"Retrying"}
    Specs <- MCSpecs
    Catalogs <- MCCatalogs
    MaxChanges = 1
    MaxCatalog = 1
    MaxFaults = 1
INVARIANTS
    InstalledWasRolledOut
    DeprecationOfInstalled
    ApplyIsGuarded
PROPERTIES
    Converges
    TerminalIsReported
    DeletionCompletes
CHECK_DEADLOCK FALSE
