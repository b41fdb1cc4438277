\* Two mounts of the checkout page: late answers, timers, modals and lost requests.
SPECIFICATION Spec
CONSTANTS
    p1 = p1
    p2 = p2
    o1 = o1
    o2 = o2
    a1 = a1
    a2 = a2
    None = None
    Product <- MCProducts
    Order <- MCOneOrder
    Attempt <- MCOneAttempt
    MaxMounts = 2
    MaxUnits = 1
INVARIANTS TypeOK OrdersWhatItShowed BusyHasRequest
SYMMETRY MCSymmetry
CONSTRAINT MCStrays
CHECK_DEADLOCK FALSE
