\* One customer places two orders with a coupon that can be used once; the
\* second one ends the first, in whichever state it is.
SPECIFICATION SpecWithCoupon
CONSTANTS
    o1 = o1
    o2 = o2
    t1 = t1
    u1 = u1
    q1 = q1
    w1 = w1
    Order <- MCOrders
    Target <- MCTarget
    User <- MCUser
    Owner <- MCOwner
    Request <- MCRequest
    Worker <- MCWorker
    Delistable <- MCNone
    Backorder <- MCNone
    MaxQuantity = 2
    MaxStock = 3
    BatchLimit = 1
    UsageLimit = 1
    CustomerLimit = 1
INVARIANTS EndedHoldsNothing CountMatches WithinLimits LinkedIsConfirmed
PROPERTY KeepsCoupons
CONSTRAINT MCOneFailure
CHECK_DEADLOCK FALSE
