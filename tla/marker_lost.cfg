SPECIFICATION Spec
CONSTANTS
    Jobs <- FailureMarkerOnly
    MaxLines = 1
    KeepAlive = 2
    Stall = 2
    Grace = 1
    MaxKills = 0
    MaxFaults = 0
INVARIANT FailureMarkerDecides
CHECK_DEADLOCK FALSE
