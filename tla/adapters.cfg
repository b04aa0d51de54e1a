SPECIFICATION FairSpec
CONSTANTS
    Jobs <- EveryKind
    MaxLines = 2
    KeepAlive = 2
    Stall = 2
    Grace = 1
    MaxKills = 1
    MaxFaults = 1
INVARIANTS TypeOK VerdictIsEarned QuietNeverStalls FailedCommandIsOver
PROPERTY RunEnds
CHECK_DEADLOCK FALSE
