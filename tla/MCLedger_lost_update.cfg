\* Two workers, reliable storage: concurrent calls on one account.
CONSTANTS
    u1 = u1
    u2 = u2
    w1 = w1
    w2 = w2
    Users <- MCUsers
    Workers = {w1, w2}
    Amounts <- MCAmounts
    MaxRequests = 4
    MaxFaults = 0
SPECIFICATION Spec
INVARIANT TxChain
CHECK_DEADLOCK FALSE
