\* Two tabs, two customers who come and go.
SPECIFICATION Spec
CONSTANTS
    t1 = t1
    t2 = t2
    u1 = u1
    u2 = u2
    None = None
    Tab <- MCTab
    User <- MCUser
    Kind <- MCKind
    MaxEvents = 2
    MaxData = 1
INVARIANTS NoEventLost OwnDataOnly FreshAfterNews
CONSTRAINT MCFewEvents
SYMMETRY MCSymmetry
CHECK_DEADLOCK FALSE
