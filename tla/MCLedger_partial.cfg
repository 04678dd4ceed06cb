\* One worker, one storage failure: a call that fails half way.
CONSTANTS
    u1 = u1
    u2 = u2
    w1 = w1
    w2 = w2
    Users <- MCUsers
    Workers = {w1}
    Amounts <- MCAmounts
    MaxRequests = 3
    MaxFaults = 1
SPECIFICATION Spec
INVARIANT BalanceMatchesLedger
CHECK_DEADLOCK FALSE
