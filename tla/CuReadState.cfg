SPECIFICATION Spec
CONSTANTS
    Reads = {r1, r2, r3}
    NoRead = none
    FileCheckpoints = FALSE
    ArweaveCheckpoints = TRUE
    Concurrent = TRUE
    MaxNonce = 2
    MaxDrains = 0
    MaxCrashes = 1
SYMMETRY Symmetric
INVARIANTS TypeOK MemoriesFolded
CHECK_DEADLOCK FALSE
