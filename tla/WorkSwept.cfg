SPECIFICATION MCSpec
CONSTANTS
    MaxTurns = 2
    Collectors = {c1}
    SessionOf <- MCSessionOf
    NoRow = NoRow
    Nobody = Nobody
    Keep = 1
    MaxCommits = 5
    MaxReverts = 0
    MaxFaults = 0
PROPERTY Swept
CHECK_DEADLOCK FALSE
