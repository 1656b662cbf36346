SPECIFICATION FairSpec
CONSTANTS
    e1 = e1  e2 = e2  r1 = r1  r2 = r2
    plain = plain  slot = slot
    None = None
    Sessions <- OneSession
    Runs = {r1}
    Entries <- TwoEntries
    Tools = {slot}
    SlotTools = {slot}
    ScopedTools <- NoTools
    SpendTools <- NoTools
    MaxPending = 1
    MaxToolCalls = 1
    MaxClosers = 1
    Faults = {"kill_audit", "split_close"}
    AnswersInput = FALSE
PROPERTIES TurnEnds 
CHECK_DEADLOCK FALSE
