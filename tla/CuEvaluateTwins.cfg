SPECIFICATION Spec
CONSTANTS
    TicksPerSecond = 1
    Crons <- TwoOfTime
    Blocks <- MCBlocks
    Origin <- MCOrigin
    Wiggle = 1
    Items <- MCItems
    Failing = {}
    PageSize = 2
    Validated = TRUE
    Ties = FALSE
    Reposted = FALSE
    SlowSaves = FALSE
    RowsFail = FALSE
    OtherTables = FALSE
    Gaps = FALSE
    MaxNow = 7
    MaxMessages = 2
    MaxStreams = 2
INVARIANT CronsOnce
CHECK_DEADLOCK FALSE
