SPECIFICATION FairSpec
CONSTANTS
    NumJobs = 2
    Deployments <- AllDeployments
    PoolSize = 1
    NewPool = 2
    Cadence = 1
    IdleFactor = 3
    Stall = 0
    ReclaimAfter = 1
    Grace = 0
    Sentinels = {"COMPLETED"}
    SilenceCap = 2
INVARIANTS TypeOK LaunchedOnce JumpsAreSleeps DoneMeansOver
PROPERTIES NothingIsUndone StalledIsWedged PollNowIsAnswered SafetyTickRescues
