\* A report of a failed attempt beside the payment of the next one.
SPECIFICATION Spec
CONSTANTS
    o1 = o1
    o2 = o2
    t1 = t1
    t2 = t2
    u1 = u1
    u2 = u2
    q1 = q1
    q2 = q2
    w1 = w1
    Order <- MCOneOrder
    Target <- MCOneTarget
    User <- MCUsers
    Owner <- MCSameOwner
    Request <- MCRequests
    Worker <- MCWorker
    Delistable <- MCNone
    Backorder <- MCNone
    MaxQuantity = 1
    MaxStock = 1
    BatchLimit = 1
SYMMETRY MCSymmetry
PROPERTY PaidStaysPaid
CHECK_DEADLOCK FALSE
