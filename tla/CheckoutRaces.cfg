\* Two requests, the worker and Razorpay race over one order of two products,
\* one of which can leave the shop.
SPECIFICATION Spec
CONSTANTS
    o1 = o1
    o2 = o2
    t1 = t1
    t2 = t2
    u1 = u1
    u2 = u2
    q1 = q1
    q2 = q2
    w1 = w1
    Order <- MCOneOrder
    Target <- MCTargets
    User <- MCUsers
    Owner <- MCSameOwner
    Request <- MCRequests
    Worker <- MCWorker
    Delistable <- MCOneTarget
    Backorder <- MCNone
    MaxQuantity = 1
    MaxStock = 1
    BatchLimit = 1
SYMMETRY MCSymmetry
INVARIANTS TypeOK EndedHoldsNothing PaidNeverExpired SoldMeansCaptured
PROPERTIES ConfirmedWithItsStock KeepsReservation
CHECK_DEADLOCK FALSE
