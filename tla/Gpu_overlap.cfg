CONSTANTS
    None = None
    Room <- MCRoom
    Images = {"i1", "i2"}
    Parts <- MCParts
    Slots = 2
    SetSlots = 2
    PushWords = 4
    Scripts <- OverlapScripts
    MemoryOf <- MCMemoryOf
    FrameRoom <- MCFrameRoom
    NameBytes = 5
    StateBytes = 16
    ClearBytes = 16
    WordBytes = 4
SPECIFICATION FSpec
INVARIANT PayloadsAreKept
CHECK_DEADLOCK FALSE
