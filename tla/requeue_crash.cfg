SPECIFICATION FairSpec
CONSTANTS
    NumRuns = 1
    Shell = {1}
    Measurable = {1}
    DoneCheck = {}
    MaxAttempts <- Twice
    PoolSize = 1
    Sentinels = {"COMPLETED", "FAILED"}
    Stall = 0
    ReclaimAfter = 1
    Grace = 0
    HardCap = 1
    Interval = 1
    Backoff = 0
    AgeCap = 2
    MaxGap = 2
    Requests = {}
    PoolValues = {}
    MaxOrders = 0
    MaxCrashes = 1
    MaxFaults = 0
PROPERTY EveryRunEnds
