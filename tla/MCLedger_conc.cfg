\* Two workers racing on the same accounts, one storage failure allowed.
CONSTANTS
    u1 = u1
    u2 = u2
    w1 = w1
    w2 = w2
    Users <- MCUsers
    Workers = {w1, w2}
    Amounts <- MCAmounts
    MaxRequests = 4
    MaxFaults = 1
SPECIFICATION Spec
INVARIANT NeverNegative
INVARIANT TotalsAgree
CHECK_DEADLOCK FALSE
