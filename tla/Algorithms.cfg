SPECIFICATION Spec
CONSTANTS
    o1 = o1
    o2 = o2
    sf1 = sf1
    sf2 = sf2
    typed1 = typed1
    typed2 = typed2
    typed2b = typed2b
    blank = blank
    None = None
    Orders = {o1, o2}
    Spellings = {typed1, typed2, typed2b, blank}
    Normal <- MCNormal
    MAXROWS = 3
    MAXSCANS = 3
    MAXMAPPINGS = 3
    MAXCOLUMNS = 4
    MAXSHEETS = 3
INVARIANTS
    RowsAreCountedOnce
    LatestRouteIsCertain
    MostSpecificMappingWins
    OrdersAreFound
\* the inputs are as long as they may be
CHECK_DEADLOCK FALSE
