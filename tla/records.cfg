SPECIFICATION FairSpec

CONSTANTS
    Modules   = {long, short}
    MonthDays = 2
    YearDays  = 4
    Nets      = {2}
    MaxDay    = 4
    MaxCloses = 2
    MaxNotes  = 1
    MaxFaults = 1
    None      = None

INVARIANTS
    ReportsAreTrue
    RecordsAreAccountedFor

PROPERTIES
    KeyedPeriodsAreTold

\* The calendar and the bound on closes end every behaviour.
CHECK_DEADLOCK FALSE
