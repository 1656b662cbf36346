SPECIFICATION RlmFairSpec
CONSTANTS
    Runs = {r1, r2}
    MaxEvents = 1
    MaxRows = 1
    MaxSteps = 1
    MaxFaults = 1
    NoRun = NoRun
INVARIANTS RlmTypeOK
PROPERTIES ResultIsProved ImplementsPermit CancelledIsDeaf RunEnds
CHECK_DEADLOCK FALSE
