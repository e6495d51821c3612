SPECIFICATION Spec

CONSTANTS
    Symbols       = {s1, s2}
    None          = None
    MaxEntries    = 2
    MaxClears     = 0
    MaxDrops      = 0
    EntryFills    <- OneReport
    CloseReports  = {1}
    Faults        = {"kill", "mpp", "stopreject", "cancel"}
    EntrySides    = {"long"}
    LossLimit     = 2
    MppRetryCount = 1
    Outcomes      = {FALSE}
    Quotes        = {TRUE, FALSE}
    Blocked       = {FALSE}
    FetchSnap     = FALSE
    OwnReader     = TRUE

SYMMETRY Symmetry

INVARIANTS
    CloseNeverRacesStop
    OneClosingOrderPerPosition
    MirrorMatchesAccount

PROPERTIES
    StaysGuarded

\* The bounds on entries and drops let every behaviour come to an end.
CHECK_DEADLOCK FALSE
