SPECIFICATION FairSpec
CONSTANTS
    Processes = {p}
    MaxResults = 3
    Scheduled = {}
    Erroneous = {2}
    Limit = 1
    Callers = {c1}
    Stoppable = TRUE
    BadAnswers = TRUE
    CallsFail = TRUE
    MaxCranks = 2
    MaxMonitors = 2
    MaxCrashes = 1
INVARIANT RowsMonitored CrankedOnce NothingSkipped
PROPERTY CatchesUp
CHECK_DEADLOCK FALSE
