SPECIFICATION Spec
CONSTANTS
    w1 = w1
    w2 = w2
    w3 = w3
    l1 = l1
    l2 = l2
    Workers = {w1, w2}
    Main = Main
    Ops = {"pull"}
    Layers = {l1}
    Cached = {}
    Offer <- AnyOffer
    MaxOps = 2
    MaxCrashes = 0
    None = None
SYMMETRY Symmetry
INVARIANTS VisibleIsWhole
CHECK_DEADLOCK FALSE
