SPECIFICATION Spec
CONSTANTS
    NumRuns = 2
    Shell = {1}
    Measurable = {}
    DoneCheck = {2}
    MaxAttempts <- FirstTwice
    PoolSize = 1
    Sentinels = {"COMPLETED", "FAILED"}
    Stall = 0
    ReclaimAfter = 1
    Grace = 0
    HardCap = 1
    Interval = 1
    Backoff = 0
    AgeCap = 2
    MaxGap = 2
    Requests = {"CANCEL", "POOL"}
    PoolValues = {2}
    MaxOrders = 1
    MaxCrashes = 0
    MaxFaults = 0
INVARIANTS ResultMatchesState TokenMatchesState
PROPERTIES JobsFollowLifecycle PoolRespected
