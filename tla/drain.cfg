SPECIFICATION FairSpec
CONSTANTS
    NumRuns = 2
    Shell = {1}
    Measurable = {1, 2}
    DoneCheck = {}
    MaxAttempts <- Once
    PoolSize = 1
    Sentinels = {"FAILED"}
    Stall = 0
    ReclaimAfter = 1
    Grace = 0
    HardCap = 1
    Interval = 1
    Backoff = 1
    AgeCap = 2
    MaxGap = 5
    Requests = {}
    PoolValues = {}
    MaxOrders = 0
    MaxCrashes = 0
    MaxFaults = 0
PROPERTY DrainsUnlessAlwaysAsleep
