SPECIFICATION Spec
CONSTANTS
    Workers = {w1, w2}
    NoWorker = none
    p1 = p1
    m1 = m1
    m2 = m2
    u = u
    x = x
    h1 = h1
    h2 = h2
    hp = hp
    Pids = {p1}
    Items = {p1, m1, m2, u, x}
    Hashes = {h1, h2, hp}
    DeepHash <- MCDeepHash
    Pushed = {}
    Requests <- AllRequests
    ProcessAssignment = TRUE
    ProcessReposts = FALSE
    ClockSteps = TRUE
    ReplicaLag = FALSE
    MaxPosts = 4
    MaxCrashes = 1
SYMMETRY Symmetric
INVARIANT NonceUnique
CHECK_DEADLOCK FALSE
