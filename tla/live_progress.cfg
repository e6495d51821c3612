SPECIFICATION FairSpec

CONSTANTS
    Symbols       = {s1}
    None          = None
    MaxEntries    = 2
    MaxClears     = 1
    MaxDrops      = 1
    EntryFills    <- OneReport
    CloseReports  = {1}
    Faults        = {"kill", "mpp", "stopreject", "cancel"}
    EntrySides    = {"long"}
    LossLimit     = 2
    MppRetryCount = 1
    Outcomes      = {FALSE}
    Quotes        = {TRUE, FALSE}
    Blocked       = {TRUE, FALSE}
    FetchSnap     = FALSE
    OwnReader     = FALSE

PROPERTIES
    WorkEnds
    ReconnectEnds

\* The bounds on entries and drops let every behaviour come to an end.
CHECK_DEADLOCK FALSE
