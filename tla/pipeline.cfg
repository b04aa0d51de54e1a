SPECIFICATION FairSpec
CONSTANTS
    NumRuns = 2
    Steps = 3
    Length <- FirstIsLongest
    Shell = {1}
    Gated = {1, 2}
    Judged = {2}
    Measurable = {1}
    Outcomes <- FirstMaySkip
    PoolSize = 1
    Sentinels = {"COMPLETED", "FAILED"}
    Stall = 0
    ReclaimAfter = 1
    Grace = 0
    HardCap = 1
    AgeCap = 2
    MaxCrashes = 1
INVARIANTS TypeOK StepsInOrder NothingRunsTwice EntryResultIsTrue SlotsAreKept FailClosed
PROPERTY EveryJobEnds
