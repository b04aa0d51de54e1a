SPECIFICATION Spec
CONSTANTS
    NumRuns = 1
    Shell = {1}
    Measurable = {}
    DoneCheck = {1}
    MaxAttempts <- Twice
    PoolSize = 1
    Sentinels = {"COMPLETED", "ABANDONED"}
    Stall = 0
    ReclaimAfter = 1
    Grace = 0
    HardCap = 1
    Interval = 1
    Backoff = 1
    AgeCap = 2
    MaxGap = 1
    Requests = {"PAUSE", "RESUME"}
    PoolValues = {}
    MaxOrders = 2
    MaxCrashes = 1
    MaxFaults = 1
INVARIANTS TypeOK TerminalHasResult LaunchesCounted CompletedIsEarned SummaryTrue OneWorkerAtATime
PROPERTIES TerminalForever PausedUntilResume
