CONSTANTS
    o1 = o1
    o2 = o2
    u1 = u1
    u2 = u2
    w1 = w1
    w2 = w2
    Orders <- MCOrders
    Users <- MCUsers
    Workers = {w1, w2}
    MaxRequests = 2
    MaxFaults = 0
SPECIFICATION Spec
INVARIANT AtMostOnceCredit
CHECK_DEADLOCK FALSE
