SPECIFICATION Spec
CONSTANTS
    msg = msg
    reply = reply
    mail = mail
    spawn = spawn
    assign = assign
    Tasks = {msg, reply}
    Kind <- MCKind
    ToWallet <- MCToWallet
    Roots <- MCRoots
    Outbox <- MCOutbox
    Queues = {q1}
    MaxWorkers = 1
    MaxRetries = 1
    SpawnPush = FALSE
    RateLimited = FALSE
    LostAcks = {}
    HourPasses = FALSE
    MaxCrashes = 1
INVARIANT PostsSigned
CHECK_DEADLOCK FALSE
