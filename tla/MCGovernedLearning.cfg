SPECIFICATION ServiceFairSpec
CONSTANTS
    v1 = v1  v2 = v2  a1 = a1  a2 = a2  b1 = b1
    None = None
    Versions = {v1, v2}
    Attempts = {a1, a2}
    Builds = {b1}
    MaxVersions = 2
    MaxAttempts = 2
    MaxGen = 3
    MaxRepairs = 1
INVARIANTS ServiceSound RequestsSound
PROPERTIES ReceiptsFinal NoStalePublish  JobsSettle
CHECK_DEADLOCK FALSE
