SPECIFICATION Spec
CONSTANTS
    Callers = {a1, a2}
    Pollers = {}
    Ops = {"start", "stop", "rm", "rmforce", "prune"}
    Pids = {p1, p2}
    Reuse = TRUE
    AutoRemove = {FALSE}
    MaxBirth = 2
    MaxCalls = 2
    MaxCrashes = 1
    NoState = NoState
SYMMETRY Symmetry
CONSTRAINT Small
INVARIANTS TypeOK NoForgottenChild
PROPERTIES StopLeavesNobody
CHECK_DEADLOCK FALSE
