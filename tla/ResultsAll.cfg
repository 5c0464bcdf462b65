SPECIFICATION Spec
CONSTANTS
    Jobs = {j1, j2}
    NoJob = NoJob
    Handlers = {h1, h2}
    Formats = {xlsx}
    TTL = 2
    STALL = 1
    HORIZON = 4
    CRASHES = 1
    Machines <- EitherMachine
INVARIANT KeptUnlessSavesOverlap
PROPERTIES
    DownloadObeysExpiry
    CutShortOnlyByAnother
SYMMETRY Symmetry
\* the jobs and the downloads are all done
CHECK_DEADLOCK FALSE
