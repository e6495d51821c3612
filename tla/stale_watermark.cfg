SPECIFICATION ExchangeSpec

CONSTANTS
    Universe            <- UniverseTwo
    SYMBOLS_PER_CONN    = 1
    Backoff             <- BackoffSeed
    BackoffCap          = 2
    MinDelayB           = 1
    Private             = Private
    Deployments         <- AllDeployments
    PING_INTERVAL       = 1
    PONG_TIMEOUT        = 1
    ZOMBIE_THRESHOLD    = 1
    T_SILENT            = 1
    BURST_CAPACITY      = 2
    RATE                = 1
    Ceilings            = {10}
    RateValues          = {5, 7, 9}
    WarningPct          = 60
    CriticalPct         = 80
    MaxSeq              = 2
    Nothing             = Nothing
    Names               <- MCNames
    AlwaysInclude       = {"BTC"}
    Listings            <- MCListings
    Settings            <- MCSettings
    Volumes             <- MCVolumes
    Scores              <- MCScores
    Stagger             = 1
    MaxFaults           = 2
    MinInterval         = 1
    BackoffPenalty      = 3
    Latency             = 1
    WakeDelay           = 1
    Asks                = {50, 60}
    Deposit             = 100
    Fee                 = 1
    Estimate            = 2
    MaxBlocks           = 1
    MaxTrades           = 2
    MaxPolls            = 2
    None                = None
    DecisionFast        = 2
    DecisionSlow        = 3
    Period              = 2
    EmaShort            = 2
    EmaLong             = 3
    HtfShort            = 2
    HtfLong             = 3
    VolumePeriod        = 2
    AtrWindow           = 3
    AdxThreshold        = 25
    AtrPercentileThresh = 50
    RsiBounds           <- MCRsiBounds
    VolumeThreshold     = 10

INVARIANTS
    WatermarkIsOfThisSocket
