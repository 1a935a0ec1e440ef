SPECIFICATION Spec
CONSTANTS
    Reads = {r1, r2, r3}
    NoRead = none
    FileCheckpoints = FALSE
    ArweaveCheckpoints = FALSE
    Concurrent = TRUE
    MaxNonce = 3
    MaxDrains = 2
    MaxCrashes = 0
SYMMETRY Symmetric
INVARIANTS MemoriesFolded
CHECK_DEADLOCK FALSE
