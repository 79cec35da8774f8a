CONSTANTS
    Turns = {t1}
    Runners = {r1, r2}
    NoRunner = NoRunner
    CommandTypes = {"approve", "deny"}
    MaxAsks = 1
    MaxLog = 3
    MaxProjectors = 2
    MaxInflight = 1
    MaxEvents = 2
    MaxCrashes = 1
SPECIFICATION MCSpec
INVARIANTS TypeOK SingleWorker EndIsLogged ApprovalResumable ViewCurrent
PROPERTIES OwnerStable BootSparesWorkers ViewMonotone NeverReaccepted
SYMMETRY Symmetry
CHECK_DEADLOCK FALSE
