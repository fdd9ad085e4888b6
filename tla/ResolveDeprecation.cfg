SPECIFICATION OpSpec
CONSTANTS
    MaxSecretDataSize = 4
    MaxDecompressedSize = 8
    ResolveCalls <- MCResolveCalls
    CompareCalls = {}
    ConfigCalls = {}
    LoadCalls = {}
    RenderCalls = {}
    DeploymentCalls = {}
    AuthorizeCalls = {}
    PackCalls = {}
    RevisionCalls = {}
    ProbeCalls = {}
    ChartCalls = {}
    DeprecationCalls = {}
    MetasCalls = {}
INVARIANT DeprecationIsOfResolved
CHECK_DEADLOCK FALSE
