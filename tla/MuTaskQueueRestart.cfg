SPECIFICATION FairSpec
CONSTANTS
    msg = msg
    reply = reply
    mail = mail
    spawn = spawn
    assign = assign
    Tasks = {msg}
    Kind <- MCKind
    ToWallet <- MCToWallet
    Roots <- MCRoots
    Outbox <- MCOutbox
    Queues = {q1}
    MaxWorkers = 1
    MaxRetries = 1
    SpawnPush = FALSE
    RateLimited = TRUE
    LostAcks = {"MESSAGE"}
    HourPasses = FALSE
    MaxCrashes = 1
INVARIANT NothingQueuedLost RepeatsBounded
PROPERTY EventuallySettled
CHECK_DEADLOCK FALSE
