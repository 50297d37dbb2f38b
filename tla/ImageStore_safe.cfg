SPECIFICATION WorldsSpec
CONSTANTS
    w1 = w1
    w2 = w2
    w3 = w3
    l1 = l1
    l2 = l2
    Workers = {w1, w2}
    Main = Main
    Ops = {"pull", "load", "rmi", "prune"}
    Layers = {l1, l2}
    Cached = {}
    Offer <- OneOffer
    MaxOps = 3
    MaxCrashes = 1
    None = None
SYMMETRY Symmetry
INVARIANTS TypeOK TagNotLost TagInPlace ApartIsWhole
PROPERTIES BootLeavesNoResidue
CHECK_DEADLOCK FALSE
