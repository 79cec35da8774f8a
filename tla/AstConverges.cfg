CONSTANTS
    Paths = {p1}
    Contents = {c1, c2}
    Requests = {r1}
    Cap = 1
    Batch = 1
    MaxEdits = 1
    MaxFaults = 1
    MaxCold = 0
    MaxGen = 4
    Indexed = {TRUE}
SPECIFICATION MCFairSpec
PROPERTIES Converges
CHECK_DEADLOCK FALSE
