SPECIFICATION FairSpec
CONSTANTS
    Producers = {p1, p2}
    MaxIssued = 4
    MayFail = TRUE
    LiveClose = TRUE
INVARIANTS TypeOK Accounted DeltaOrder EventsAfterDeltas
PROPERTY Closes
CHECK_DEADLOCK FALSE
