CONSTANTS
    Events = {e1, e2}
    Writers = {w1, w2, w3}
    NoWriter = NoWriter
    Readers = {c1, c2}
    MaxSequence = 4
SPECIFICATION Spec
INVARIANTS TypeOK Dense NothingSkipped
PROPERTIES NoLateRow ImplementsAppendLog
