SPECIFICATION Spec

CONSTANTS
    s1               = s1
    s2               = s2
    s3               = s3
    Symbols          = {s1, s2, s3}
    Routes           = {"decision", "sweep"}
    Enters           <- LongAndShort
    Feeds            <- AllFeeds
    Quotes           <- TheQuotes
    Blocks           = {0, 6}
    Tunings          <- TheTunings
    Disallowances    <- TheDisallowances
    Registry         <- SeedRegistry
    DecisionStopMult = 25
    Start            = 1000
    MaxEntries       = 3
    TakerBp          = 26
    MarginOpenBp     = 2
    RolloverBp       = 2
    LeverageShort    = 3
    SizeFloor        = 50
    SizeMult         = 5
    None             = None

INVARIANTS
    OrderKeepsTheGates
    LossesStopTheSide

\* The bound on entries ends every behaviour.
CHECK_DEADLOCK FALSE
