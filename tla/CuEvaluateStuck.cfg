SPECIFICATION Spec
CONSTANTS
    TicksPerSecond = 2
    Crons <- NoCrons
    Blocks <- MCBlocks
    Origin <- MCOrigin
    Wiggle = 1
    Items <- MCItems
    Failing = {}
    PageSize = 2
    Validated = TRUE
    Ties = FALSE
    Reposted = FALSE
    SlowSaves = FALSE
    RowsFail = FALSE
    OtherTables = FALSE
    Gaps = FALSE
    MaxNow = 7
    MaxMessages = 2
    MaxStreams = 2
INVARIANT NeverRejected
CHECK_DEADLOCK FALSE
