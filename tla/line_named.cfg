SPECIFICATION Spec
CONSTANTS
    None = None
    NoValue = NoValue
    NoTime = NoTime
    NoAsk = NoAsk
    Foci = {"naming"}
    Callers = {c1, c2}
    Batches <- ThreeBatches
    Unsupported = {"x"}
    MaxCache = 2
    Ttl = 0
    CallTimeout = 1
    MaxTime = 1
    MaxSwaps = 1
    MaxBatches = 2
    PageSize = 2
    MaxPages = 3
    MaxRetries = 1
    Sources <- WireSources
    MaxRecords = 5
    DispatcherAsks <- RoutingQuestions
    AdapterAsks <- RestQuestions
    NamingAsks <- NamingQuestions
    IntentAsks <- IntentQuestions
    Singular <- OnePress
    Close <- Similar
    Numerals <- UpTo99
    NoiseWords = {"oee", "the"}
    NoiseSlotWords = {"oee", "the"}
    NoiseStarts = {"show"}
    Profiles = {"pa", "pb"}
    Unconfigured = "unconfigured"
    Keys = {"u"}
    Details = {1, 2}
    Checkers = {"c1", "c2"}
    Editors = {"e1"}
    Age = 2
    MaxClock = 2
    MaxEdits = 2
    MaxAsks = 2
    ProfileOrder <- TwoProfiles
    FirstDetail = 1
    CheckerOrder <- TwoCheckers
    Workers = {c1, c2}
    MaxSteps = 2
INVARIANT LineAskedIsAnswered
CHECK_DEADLOCK FALSE
