SPECIFICATION FairSpec
CONSTANTS
    msg = msg
    msg2 = msg2
    spawn = spawn
    assign = assign
    push = push
    Requests = {msg, msg2, spawn, push}
    Kind <- MCKind
    OfMessage <- MCOfMessage
    SpawnPush = TRUE
    Recovery = TRUE
    MaxPulls = 1
    MaxRecoveries = 1
    MaxRestarts = 1
INVARIANT CrankedOnce SavedHasRow
PROPERTY EventuallySettled
CHECK_DEADLOCK FALSE
