SPECIFICATION MCSpec
CONSTANTS
    t1 = t1
    t2 = t2
    f1 = f1
    s1 = s1
    s2 = s2
    b1 = b1
    e1 = e1
    None = None
    Threads <- MCThreads
    Fences = {f1}
    Timelines = {s1, s2}
    Binaries = {b1}
    Events = {e1}
    Orders <- MCOrders
    Calls <- MCCalls
    SlotCount <- MCSlots
    MaxValue = 2
    MaxId = 4
    MaxRestarts = 1
    MaxCrashes = 1
SYMMETRY Symmetric
INVARIANTS OrderKept FenceMeansDone ValuesAreReached CarriedFenceSignals EntriesAreOwned
PROPERTY WaitsHonoured

CHECK_DEADLOCK FALSE
