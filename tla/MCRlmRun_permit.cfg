SPECIFICATION RlmSpec
CONSTANTS
    Runs = {r1, r2}
    MaxEvents = 2
    MaxRows = 1
    MaxSteps = 3
    MaxFaults = 0
    NoRun = NoRun
INVARIANTS SettledReturnsPermit
CHECK_DEADLOCK FALSE
