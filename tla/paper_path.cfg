SPECIFICATION WalletsSpec

CONSTANTS
    s1               = s1
    s2               = s2
    s3               = s3
    Symbols          = {s1, s2, s3}
    Enters           <- LongAndShort
    Prices           = {50, 120, 150}
    TakerPct         = 10
    OpenPct          = 2
    Start            = 200
    MaeDistances     = {None, 100}
    StopDistance     = 40
    LossLimit        = 2
    PausePct         = 70
    ConcentrationPct = 90
    ShortLeverage    = 2
    MaxEntries       = 3
    None             = None
    b1               = b1
    b2               = b2
    Bases            = {b1, b2}
    Deposit          = 67500
    Clip             = 32400
    Leverage         = 3
    Maint            = 324
    Cost             = 30
    HaltBp           <- TheHalt
    PauseBp          <- ThePause
    Baseline         <- TheBaseline
    Window           = 1
    Trades           <- TheTrades
    MaxEquity        = 67500
    Absent           = Absent

INVARIANTS
    WalletMatchesRecords
    LongNeverOverdrawn
    HeatIsOfTheHold
    PoolsAreSafe

PROPERTIES
    ImplementsLifecycle
    PauseRearms

\* The bound on entries ends every behaviour of the paper path.
CHECK_DEADLOCK FALSE
