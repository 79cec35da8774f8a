CONSTANTS
    Turns = {t1}
    Runners = {r1}
    NoRunner = NoRunner
    CommandTypes = {"approve"}
    MaxAsks = 0
    MaxLog = 4
    MaxProjectors = 1
    MaxInflight = 1
    MaxEvents = 2
    MaxCrashes = 1
SPECIFICATION FairSpec
PROPERTIES Settles
CHECK_DEADLOCK FALSE
