SPECIFICATION FairSpec
CONSTANTS
    Reads = {r1, r2}
    NoRead = none
    FileCheckpoints = TRUE
    ArweaveCheckpoints = FALSE
    Concurrent = TRUE
    MaxNonce = 2
    MaxDrains = 1
    MaxCrashes = 1
PROPERTY LatestAdvances EventuallyAnswered
CHECK_DEADLOCK FALSE
