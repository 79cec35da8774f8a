SPECIFICATION FairSpec
CONSTANTS
    MaxSteps = 3
    MaxCalls = 2
    MaxSteers = 1
    Nudges = {"diff"}
INVARIANTS TypeOK ResultsReach RequestFaithful InstructionKept
PROPERTIES CancelFinal Ends
CHECK_DEADLOCK FALSE
