SPECIFICATION FairSpec
CONSTANTS
    None = None
    MaxAttempts = 2
    MaxConcurrent = 2
    MaxBytesPerCall = 2
    MaxTotalBytes = 3
    MaxObservedInput = 1
    MaxObservedOutput = 2
    MaxOutputPerCall = 2
    TransportCap = 4
    PendingCap = 4
    MaxIn = 1
    MaxOut = 2
    Clients = {"openai", "anthropic"}
PROPERTIES CallEnds JoinReleases
CHECK_DEADLOCK FALSE
