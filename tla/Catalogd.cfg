SPECIFICATION MCFairSpec
CONSTANTS
    c1 = c1
    d1 = d1
    d2 = d2
    d3 = d3
    Catalogs <- MCCatalogs
    Digests <- ThreeDigests
    Unlabelled <- MCUnlabelled
    MaxEvents = 3
    MaxFaults = 1
INVARIANTS
    ContentIsIntact
    ContentIsFinalized
PROPERTIES
    AvailabilityIsFollowed
    KeepsService
