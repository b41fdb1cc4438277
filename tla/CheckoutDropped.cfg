\* A captured payment whose reservation is gone.
SPECIFICATION FairSpec
CONSTANTS
    o1 = o1
    o2 = o2
    t1 = t1
    t2 = t2
    u1 = u1
    u2 = u2
    q1 = q1
    q2 = q2
    w1 = w1
    Order <- MCOneOrder
    Target <- MCOneTarget
    User <- MCUsers
    Owner <- MCSameOwner
    Request <- MCOneRequest
    Worker <- MCWorker
    Delistable <- MCNone
    Backorder <- MCNone
    MaxQuantity = 1
    MaxStock = 1
    BatchLimit = 1
PROPERTY CapturedIsRecorded
CHECK_DEADLOCK FALSE
