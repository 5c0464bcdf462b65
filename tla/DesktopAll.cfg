CONSTANTS
    a = a  b = b
    Launchers = {a, b}
    BEATS = 2
    SESSIONS = 14
    MISHAPS = 2
    Days <- SomeDays
SPECIFICATION FairSpec
\* users stop
CHECK_DEADLOCK FALSE
INVARIANTS
    TypeOK
    EveryLaunchIsAnswered
    OrphansHaveACause
    NoPageIsStranded
PROPERTIES
    AbandonedServerStops
    PagesReconnect
