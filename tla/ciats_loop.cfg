SPECIFICATION CiatsSpec

CONSTANTS
    TradeFloor      = 2
    KellyInterval   = 2
    MinInterval     = 2
    FilterParams    = {"volume_sss_threshold"}
    None            = None
    MaxTrades       = 5
    MaxRequests     = 4
    Trades          <- MCTrades
    Side            = "long"
    CiatsTradeFloor = 3
    KellyEvery      = 1
    Activation      = 3
    BucketMin       = 2
    KSigma          = 5
    HSigma          = 10
    Lambda          = 2
    Baseline        = 100
    Threshold       = 80
    SustainedN      = 2
    Nudge           = 10
    MinPairs        = 2
    MaxCloses       = 5
    ZSquared        = 25
    RhoSquared      = 9
    TSquared        = 25
    Absent          = Absent

INVARIANTS
    WritesAreSpaced
    AwaitingIsStaged
    WrittenOnce
    LearnsFromTheTrades

PROPERTIES
    AnswersDecide

\* The bound on closes ends every behaviour.
CHECK_DEADLOCK FALSE
