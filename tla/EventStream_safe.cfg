SPECIFICATION LiveSpec
CONSTANTS
    Clients = {"c1"}
    Recorders = {"r1", "r2"}
    Kinds = {"a", "b"}
    Wanted <- MCWanted
    MaxEvents = 3
    MaxTime = 1
    NoUntil = NoUntil
INVARIANTS TypeOK StreamExact
PROPERTIES ImplementsFeed EveryEventDelivered
CHECK_DEADLOCK FALSE
