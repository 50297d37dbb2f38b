SPECIFICATION Spec
CONSTANTS
    Image = img
    p1 = p1
    p2 = p2
    c1 = c1
    c2 = c2
    Containers = {c1, c2}
    Files = {f, g}
    Spare = {s1, s2, s3}
    Procs = {p1, p2}
    Loads <- MCLoads
    Fds = {1, 2}
    MaxLen = 2
    Stray = stray
    None = None
SYMMETRY Symmetry
INVARIANTS SharedIsPristine NeverPartial TableIsTrue WritesAreVisible
CHECK_DEADLOCK FALSE
