SPECIFICATION Spec
CONSTANTS
    msg = msg
    reply = reply
    mail = mail
    spawn = spawn
    assign = assign
    Tasks = {spawn}
    Kind <- MCKind
    ToWallet <- MCToWallet
    Roots <- MCRoots
    Outbox <- MCOutbox
    Queues = {q1}
    MaxWorkers = 1
    MaxRetries = 1
    SpawnPush = TRUE
    RateLimited = FALSE
    LostAcks = {}
    HourPasses = FALSE
    MaxCrashes = 0
INVARIANT SpawnsKept
CHECK_DEADLOCK FALSE
