SPECIFICATION ViewSpec

CONSTANTS
    SlotsPerHour        = 3
    HoursPerDay         = 2
    Warmed              = {6, 10}
    StartupSlots        = 3
    MaxSlot             = 18
    MaxMissed           = 2
    DecisionFast        = 2
    DecisionSlow        = 3
    Period              = 2
    EmaShort            = 2
    EmaLong             = 3
    HtfShort            = 2
    HtfLong             = 3
    VolumePeriod        = 2
    AtrWindow           = 3
    AdxThreshold        = 25
    AtrPercentileThresh = 50
    RsiBounds           <- MCRsiBounds
    VolumeThreshold     = 10
    Pairs               = {p1}
    Anchor              = btc
    ClosedCandles       <- MCCandles
    SeedSeries          <- MCSeedSeries
    DailySeries         <- MCDailySeries
    QNum                = 19
    QDen                = 20
    MaxBars             = 8
    MaxComputes         = 2
    None                = None

INVARIANTS
    CorpusIsTheStream
    EachBarOnce
    ResolvedOnce
    EntersOnTheCross
    IndicatorsAreExact
    RegimesAreKnown

\* The bounds on time, bars and rounds end every behaviour.
CHECK_DEADLOCK FALSE
