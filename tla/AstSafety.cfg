CONSTANTS
    Paths = {p1, p2}
    Contents = {c1}
    Requests = {r1, r2}
    Cap = 1
    Batch = 1
    MaxEdits = 1
    MaxFaults = 1
    MaxCold = 2
    MaxGen = 3
    Indexed = {TRUE, FALSE}
SPECIFICATION MCSpec
INVARIANTS TypeOK SkipSafe NothingLost
SYMMETRY Symmetry
CHECK_DEADLOCK FALSE
