SPECIFICATION Spec
CONSTANTS
    a = a
    b = b
    c = c
    Ids = {1, 2, 3}
    Items = {a, b, c}
    Pushed = {b}
    Limits = {1, 2, 3}
    Asked <- MCAsked
    FailingPuts = {"composite", "ordering", "bundle"}
    MaxTorn = 1
    MaxCrashes = 1
    MaxGot = 4
INVARIANT Schedulable
CHECK_DEADLOCK FALSE
