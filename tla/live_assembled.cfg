SPECIFICATION Spec

CONSTANTS
    Symbols       = {s1, s2}
    None          = None
    MaxEntries    = 2
    MaxClears     = 1
    MaxDrops      = 0
    EntryFills    <- OneReport
    CloseReports  = {1}
    Faults        = {"kill", "mpp", "stopreject", "cancel"}
    EntrySides    = {"long"}
    LossLimit     = 2
    MppRetryCount = 1
    Outcomes      = {TRUE, FALSE}
    Quotes        = {TRUE}
    Blocked       = {TRUE, FALSE}
    FetchSnap     = FALSE
    OwnReader     = FALSE

SYMMETRY Symmetry

INVARIANTS
    TypeOK
    NothingIsInherited

PROPERTIES
    ReasonNamesTheOrder

\* The bounds on entries and drops let every behaviour come to an end.
CHECK_DEADLOCK FALSE
