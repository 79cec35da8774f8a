SPECIFICATION MCSpec
CONSTANTS
    MaxTurns = 2
    Collectors = {c1}
    SessionOf <- MCSessionOf
    NoRow = NoRow
    Nobody = Nobody
    Keep = 1
    MaxCommits = 4
    MaxReverts = 1
    MaxFaults = 1
INVARIANTS TypeOK WindowKept RestoreWhole
PROPERTY Reclaimed
CHECK_DEADLOCK FALSE
