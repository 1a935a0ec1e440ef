SPECIFICATION Spec
CONSTANTS
    Reads = {r1, r2, r3}
    NoRead = none
    FileCheckpoints = FALSE
    ArweaveCheckpoints = FALSE
    Concurrent = TRUE
    MaxNonce = 2
    MaxDrains = 0
    MaxCrashes = 0
SYMMETRY Symmetric
INVARIANTS MemoryAnswered
CHECK_DEADLOCK FALSE
