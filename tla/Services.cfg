SPECIFICATION ServicesSpec
CONSTANTS
    MaxSecretDataSize = 4
    ResolveCalls <- MCResolveCalls
    CompareCalls <- MCCompareCalls
    ConfigCalls <- MCConfigCalls
    LoadCalls <- MCLoadCalls
    RenderCalls <- MCRenderCalls
    DeploymentCalls <- MCDeploymentCalls
    AuthorizeCalls <- MCAuthorizeCalls
    PackCalls <- MCPackCalls
    MaxDecompressedSize = 8
    RevisionCalls <- MCRevisionCalls
    ProbeCalls <- MCProbeCalls
    ChartCalls <- MCChartCalls
    DeprecationCalls <- MCDeprecationCalls
    MetasCalls <- MCMetasCalls
    Images = {d1, d2}
    MaxSwaps = 5
    MaxDownloadFaults = 1
    a1 = a1
    b1 = b1
    Objects = {a1, b1}
    KindOf <- MCKindOf
    MaxSources = 3
    MaxContentChanges = 2
    MaxWatchFaults = 1
    Bundles <- MCBundles
    CrdOf <- MCCrdOf
    Breaks <- MCBreaks
    MaxReleases = 4
    MaxHelmChanges = 3
    MaxHelmFaults = 2
    Clients = {c1, c2}
    Lifetime = 3
    Threshold = 1
    MaxTime = 4
    MaxRecreations = 1
    MaxFileEvents = 3
    MaxCertRestarts = 2
    Configured = "g"
    AccountSecrets = {"s1"}
    Credentials = {"p1"}
    MaxSecretChanges = 1
INVARIANTS
    ServicesTypeOK
    ResolutionIsCorrect
    SchemaAgreesWithRenderer
    RenderingIsFaithful
    PreAuthorizationIsExact
    PackingIsFaithful
    AnswersAreExact
    EntryMatchesDir
    WatchesAreAccountedFor
    ReportsAreTrue
    TokenOutlivesRequest
PROPERTIES
    CacheFollowsCatalog
    WatchesRecover
    CRDUpgradesAreSafe
    HelmConverges
    RequestsRecover
    EventsReachPool
    AuthFileFollows
CHECK_DEADLOCK FALSE
