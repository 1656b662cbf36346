SPECIFICATION ReplSpec
CONSTANTS
    Holds = {h1, h2}
    CooldownTicks = 1
    MaxFaults = 2
    NoHold = NoHold
 
PROPERTIES CloseReturns HeldSurfaces
CHECK_DEADLOCK FALSE
