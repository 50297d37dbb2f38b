SPECIFICATION Spec
CONSTANTS
    Bases = {a, b}
    Slots = {1, 2}
    Requests <- MCRequests
    MinRequest = 1
    MaxRegion = 3
    ResidentLimit = 2
    MaxValue = 1
    MaxMaps = 3
    MaxLines = 3
    MaxBytes = 6
    MaxLineBytes = 4
    LineSizes = {1, 2, 4, 5}
    MaxRecords = 5
    None = None
    Root <- MCRoot
    Binds <- MCBinds
    Tree <- MCTree
    GuestPaths <- MCGuestPaths
    LinkPairs <- MCLinkPairs
    Replaced <- MCReplaced
    MaxSteps = 3
    NoFile = NoFile
INVARIANTS MemoryIsFaithful RingIsRecent CwdAgrees CopiesAreMade PathsLead ProgramsStart
CHECK_DEADLOCK FALSE
SYMMETRY BaseSymmetry
