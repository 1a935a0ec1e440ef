SPECIFICATION Spec
CONSTANTS
    Reads = {r1, r2}
    NoRead = none
    FileCheckpoints = FALSE
    ArweaveCheckpoints = FALSE
    Concurrent = FALSE
    MaxNonce = 2
    MaxDrains = 0
    MaxCrashes = 0
SYMMETRY Symmetric
INVARIANTS ResultAnswered
CHECK_DEADLOCK FALSE
