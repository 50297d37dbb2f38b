SPECIFICATION Spec
CONSTANTS
    Callers = {a1}
    Pollers = {}
    Ops = {"start"}
    Pids = {p1, p2}
    Reuse = FALSE
    AutoRemove = {FALSE}
    MaxBirth = 2
    MaxCalls = 1
    MaxCrashes = 0
    NoState = NoState
INVARIANTS WorkloadVisible
CHECK_DEADLOCK FALSE
