SPECIFICATION MCSpec
CONSTANTS
    Turns = {t1, t2}
    Docs = {d1, d2}
    Texts = {a, partial}
    Partial = partial
    NoFile = NoFile
    NoTurn = NoTurn
    NoEntry = NoEntry
    Keep = 1
    MaxStarts = 3
    MaxEdits = 1
    MaxCrashes = 1
    MaxCopies = 1
SYMMETRY TurnSymmetry
INVARIANTS TypeOK SnapshotsWhole UndoRepeatable
PROPERTY UndoExact
