SPECIFICATION Spec
CONSTANTS
    Processes = {p}
    MaxResults = 3
    Scheduled = {}
    Erroneous = {2}
    Limit = 1
    Callers = {c1, c2}
    Stoppable = TRUE
    BadAnswers = TRUE
    CallsFail = TRUE
    MaxCranks = 2
    MaxMonitors = 2
    MaxCrashes = 1
INVARIANT GaugeCounts
CHECK_DEADLOCK FALSE
