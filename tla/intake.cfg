SPECIFICATION FairSpec
CONSTANTS
    Adds = {1}
    Orders = {3}
    Rejected = {}
    Cancels = {5}
    Target <- NamesFirstRun
    Size <- LastBringsTwo
    FirstJobs = 1
    MaxCrashes = 1
    MaxResends = 1
INVARIANTS TypeOK NothingAppliedTwice RunsMatchPlan ResultsAreTrue AppliedOrdersLand
PROPERTIES RunsAreNotRenumbered EverythingIsAnswered
