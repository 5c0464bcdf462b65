SPECIFICATION BothSpec
CONSTANTS
    o1 = o1
    o2 = o2
    sf1 = sf1
    sf2 = sf2
    sf3 = sf3
    typed1 = typed1
    typed2 = typed2
    typed2b = typed2b
    typed3 = typed3
    blank = blank
    None = None
    Orders = {o1, o2}
    Spellings = {typed1, typed2, typed2b, typed3, blank}
    Normal <- MCNormal
    Sheets <- MCSheets
    AllSettings <- MCSettings
    FILES = 2
    JOBS = 2
    BREAKS = 1
INVARIANTS
    BothTypeOK
    EveryRowHasItsAnswer
    
    
PROPERTIES
    ProgressNeverFalls
    WorkerEnds
    ResultLeavesForAReason
    PageSettles
\* the job ends, and the user of the page stops at the bounds
CHECK_DEADLOCK FALSE
