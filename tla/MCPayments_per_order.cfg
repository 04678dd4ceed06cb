\* Two workers, two orders, one storage failure; calls on one order do not overlap.
CONSTANTS
    o1 = o1
    o2 = o2
    u1 = u1
    u2 = u2
    w1 = w1
    w2 = w2
    Orders <- MCOrders
    Users <- MCUsers
    Workers = {w1, w2}
    MaxRequests = 4
    MaxFaults = 1
SPECIFICATION Spec
CONSTRAINT OneCallPerOrder
INVARIANTS AtMostOnceCredit CreditedIsCompleted
PROPERTY PaymentsRefines
CHECK_DEADLOCK FALSE
