SPECIFICATION FairSpec
CONSTANTS
    Threads = {t1, t2}
    n1 = n1
    n2 = n2
    u0 = u0
    u1 = u1
    o1 = o1
    o2 = o2
    o3 = o3
    Orders = {o1, o2, o3}
    Numbers = {n1, n2}
    Events = {1, 2}
    MapStatus <- MCMapStatus
    Uploads = {u0, u1}
    Rows <- MCRows
    Selections <- MCSelections
    Earlier <- MCEarlier
    None = None
    NoRow = NoRow
    Unloaded = Unloaded
    Reason = Reason
    Failure = Failure
    BATCH = 2
    REQUESTS = 2
    CRASHES = 1
INVARIANTS
    TypeOK
    UploadsAreStoredWhole
    QuietRowsAreCoherent
    RefreshedMeansStored
PROPERTY EverySessionEnds
\* the requests are all done
CHECK_DEADLOCK FALSE
