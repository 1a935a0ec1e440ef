SPECIFICATION Spec
CONSTANTS
    msg = msg
    reply = reply
    mail = mail
    spawn = spawn
    assign = assign
    Tasks = {msg, mail, spawn}
    Kind <- MCKind
    ToWallet <- MCToWallet
    Roots <- MCRoots
    Outbox <- MCOutbox
    Queues = {q1, q2}
    MaxWorkers = 2
    MaxRetries = 1
    SpawnPush = TRUE
    RateLimited = TRUE
    LostAcks = {"MESSAGE"}
    HourPasses = FALSE
    MaxCrashes = 0
SYMMETRY Symmetric
INVARIANT TypeOK ExactlyOnePlace WrittenOnce QueuedInOrder TableMatches
CHECK_DEADLOCK FALSE
