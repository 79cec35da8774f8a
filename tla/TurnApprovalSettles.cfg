CONSTANTS
    Turns = {t1}
    Runners = {r1}
    NoRunner = NoRunner
    CommandTypes = {"approve"}
    MaxAsks = 1
    MaxLog = 20
    MaxProjectors = 0
    MaxInflight = 1
    MaxEvents = 2
    MaxCrashes = 0
SPECIFICATION FairSpec
INVARIANTS ExecutedOnce
PROPERTIES Settles
CHECK_DEADLOCK FALSE
