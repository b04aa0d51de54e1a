SPECIFICATION Spec
CONSTANTS
    Adds = {1, 2}
    Orders = {}
    Rejected = {}
    Cancels = {}
    Target <- NamesFirstRun
    Size <- LastBringsTwo
    FirstJobs = 1
    MaxCrashes = 0
    MaxResends = 0
INVARIANT StagedJobsLand
