SPECIFICATION HelmSpec
CONSTANTS
    Bundles <- MCBundles
    CrdOf <- MCCrdOf
    Breaks <- MCBreaks
    MaxReleases = 4
    MaxHelmChanges = 3
    MaxHelmFaults = 2
INVARIANT
    MaintainsInstalled
CHECK_DEADLOCK FALSE
