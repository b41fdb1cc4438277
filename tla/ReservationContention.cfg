\* Two orders and two overlapping worker runs contend for three units.
SPECIFICATION Spec
CONSTANTS
    o1 = o1
    o2 = o2
    t1 = t1
    t2 = t2
    w1 = w1
    w2 = w2
    Order <- MCOrders
    Target <- MCOneTarget
    Worker <- MCWorkers
    MaxQuantity = 2
    MaxStock = 3
    BatchLimit = 1
    Backorder <- MCNoBackorder
SYMMETRY MCSymmetry
INVARIANTS HoldsMatch NoOversell SoldWasHeld
PROPERTIES TerminalIsFinal KeepsLedger
CHECK_DEADLOCK FALSE
