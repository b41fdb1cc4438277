\* Holds and reservations end, whatever becomes of the call to Razorpay.
SPECIFICATION FairSpec
CONSTANTS
    o1 = o1
    o2 = o2
    t1 = t1
    t2 = t2
    u1 = u1
    u2 = u2
    q1 = q1
    q2 = q2
    w1 = w1
    Order <- MCOneOrder
    Target <- MCTargets
    User <- MCUsers
    Owner <- MCSameOwner
    Request <- MCOneRequest
    Worker <- MCWorker
    Delistable <- MCOneTarget
    Backorder <- MCNone
    MaxQuantity = 1
    MaxStock = 1
    BatchLimit = 2
PROPERTIES HoldsEnd ReservedEnds
CHECK_DEADLOCK FALSE
