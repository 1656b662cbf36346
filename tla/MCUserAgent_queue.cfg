SPECIFICATION Spec
CONSTANTS
    e1 = e1  e2 = e2  r1 = r1  r2 = r2
    plain = plain  slot = slot
    None = None
    Sessions <- OneSession
    Runs = {r1, r2}
    Entries <- TwoEntries
    Tools = {slot}
    SlotTools = {slot}
    ScopedTools = {slot}
    SpendTools <- NoTools
    MaxPending = 1
    MaxToolCalls = 1
    MaxClosers = 1
    Faults = {}
    AnswersInput = FALSE
SYMMETRY EntryRunSymmetry
INVARIANTS PendingBounded 
CHECK_DEADLOCK FALSE
