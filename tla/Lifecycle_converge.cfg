SPECIFICATION PolledSpec
CONSTANTS
    Callers = {a1}
    Pollers = {u1}
    Ops = {"start"}
    Pids = {p1}
    Reuse = FALSE
    AutoRemove = {TRUE, FALSE}
    MaxBirth = 1
    MaxCalls = 1
    MaxCrashes = 0
    NoState = NoState
PROPERTIES LiveIsRecorded DeadIsNoticed
CHECK_DEADLOCK FALSE
