SPECIFICATION Spec
CONSTANTS
    Reads = {r1, r2}
    NoRead = none
    FileCheckpoints = TRUE
    ArweaveCheckpoints = FALSE
    Concurrent = FALSE
    MaxNonce = 2
    MaxDrains = 0
    MaxCrashes = 1
SYMMETRY Symmetric
INVARIANTS MemoriesFolded
CHECK_DEADLOCK FALSE
