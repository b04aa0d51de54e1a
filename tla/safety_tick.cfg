SPECIFICATION Spec
CONSTANTS
    NumJobs = 2
    Deployments <- SessionAndCron
    PoolSize = 1
    NewPool = 2
    Cadence = 1
    IdleFactor = 3
    Stall = 0
    ReclaimAfter = 1
    Grace = 0
    Sentinels = {"COMPLETED"}
    SilenceCap = 2
INVARIANT SubagentsAreLaunched
