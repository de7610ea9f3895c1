SPECIFICATION ServicesSpec
CONSTANTS
    NoAsk = NoAsk
    Nothing = Nothing
    Foci = {"dialogue"}
    Queries = {q1, q2}
    Lifetimes = {6, 7}
    Margin = 3
    Least = 6
    Timeout = 3
    MaxTime = 12
    Profiles = {"pa", "pb"}
    Unconfigured = "unconfigured"
    Asks <- PreventionAsks
    LocalPoints = 3
    Editors = {"r1", "r2"}
    Resources = {"m1", "M-1", "l1"}
    Meters = {"m1", "M-1"}
    AssetMetrics = {"oee", "scrap"}
    Saves <- AssetSaves
    Imports <- Generated
    Compat = TRUE
    MaxEdits = 3
    Readers = {"r1"}
    EnergySources = {"electricity", "gas", "wind"}
    National = {"electricity", "gas"}
    Factors = {2}
    Scopes = {"all", "line"}
    Objectives = {5}
    ObjectiveMetrics = {"oee"}
    EnvVoice <- VoiceEnvironment
    Encrypted = TRUE
    VoiceConfigs <- VoicePages
    Sensitivities = {10, 30}
    MaxWrites = 3
    Browsers = {"s1", "s2"}
    Floor = 10
    Lowest = 2
    Highest = 19
    Confirm = 2
    Cooldown = 2
    Messages <- AudioMessages
    Thresholds = {0, 15}
    MaxClock = 2
    MaxBuffer = 3
    Sessions = {"s1", "s2", "s3"}
    Turns = {"t1", "t2"}
    Topics = {"oee"}
    Unclear = "unclear"
    FollowUp = "and"
    MaxSessions = 2
    TTL = 0
    MaxNow = 1
    Speakers <- SessionOrder
    Hearers <- TurnOrder
    Collected <- CollectedMetrics
    MinPoints = 2
    MaxRetries = 2
    LastMonth = 2
    MaxPlatform = 1
    MaxStarts = 2
    MaxRounds = 1
    MaxCalls = 1
    Clients = {"c1", "c2"}
    Files <- CsvFiles
    Entries <- Typed
    Today = 2
    Widest = 8
    Sqlite = TRUE
    MaxRequests = 4
    Followed <- FollowedMetrics
    Targets <- SiteTargets
    Values = {0, 100, 105, 90}
    MaxMeasured = 1
    MaxRows = 4
    BusClients = {"page", "widget"}
    Urls = 2
    MaxAttempts = 2
    MaxSockets = 3
PROPERTY ContextMovesOn
CHECK_DEADLOCK FALSE
