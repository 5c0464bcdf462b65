SPECIFICATION Spec
CONSTANTS
    Sessions = {s1, s2}
    NoSession = NoSession
    Jobs = {}
    Handlers = {h1, h2}
    Loop = Loop
    GRACE = 5
    STALE = 3
    MONITOR = 1
    STALL = 1
    QUIET = 5
    HORIZON = 12
    AutoShutdownEnabled = TRUE
INVARIANT CoordinatorInv
PROPERTIES
    NoShutdownUnderSession
    ImplementsPolicy
    AliveAnswerBuysGrace
    ReapedOnlyWhenSilent
    GraceAfterLastSession
SYMMETRY Symmetry
\* the server really stops
CHECK_DEADLOCK FALSE
