SPECIFICATION FairSpec
CONSTANTS
    Sessions = {s1}
    NoSession = NoSession
    Jobs = {j1}
    Handlers = {h1}
    Loop = Loop
    GRACE = 3
    STALE = 2
    MONITOR = 2
    STALL = 1
    QUIET = 3
    HORIZON = 16
    AutoShutdownEnabled = TRUE
INVARIANT
    DeferredShutdownHasADriver
PROPERTY
    EventuallyStops
\* the server really stops
CHECK_DEADLOCK FALSE
