SPECIFICATION Spec
CONSTANTS
    None = None
    MaxAttempts = 3
    MaxConcurrent = 2
    MaxBytesPerCall = 1
    MaxTotalBytes = 3
    MaxObservedInput = 1
    MaxObservedOutput = 3
    MaxOutputPerCall = 2
    TransportCap = 4
    PendingCap = 4
    MaxIn = 1
    MaxOut = 2
    Clients = {"openai", "anthropic"}
INVARIANTS BudgetSound 
PROPERTIES NoLateSuccess
CHECK_DEADLOCK FALSE
