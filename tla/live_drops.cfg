SPECIFICATION Spec

CONSTANTS
    Symbols       = {s1}
    None          = None
    MaxEntries    = 2
    MaxClears     = 1
    MaxDrops      = 2
    EntryFills    <- PartThenWhole
    CloseReports  = {1}
    Faults        = {"kill", "mpp", "stopreject", "cancel", "rest"}
    EntrySides    = {"long"}
    LossLimit     = 2
    MppRetryCount = 1
    Outcomes      = {FALSE}
    Quotes        = {TRUE}
    Blocked       = {FALSE}
    FetchSnap     = TRUE
    OwnReader     = FALSE

INVARIANTS
    EveryPositionClosesOnce
    LiveStateIsOfThePosition

PROPERTIES
    ImplementsLifecycle

\* The bounds on entries and drops let every behaviour come to an end.
CHECK_DEADLOCK FALSE
