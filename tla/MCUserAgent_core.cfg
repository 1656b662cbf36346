SPECIFICATION Spec
CONSTANTS
    e1 = e1  e2 = e2  r1 = r1  r2 = r2
    plain = plain  slot = slot
    None = None
    Sessions <- TwoSessions
    Runs = {r1}
    Entries <- TwoEntries
    Tools = {slot}
    SlotTools = {slot}
    ScopedTools <- NoTools
    SpendTools = {slot}
    MaxPending = 1
    MaxToolCalls = 1
    MaxClosers = 1
    Faults = {"kill_audit"}
    AnswersInput = FALSE
SYMMETRY EntrySymmetry
INVARIANTS TypeOK  TasksSound  
PROPERTIES NoSilentDrop TerminalIsFinal 
CHECK_DEADLOCK FALSE
