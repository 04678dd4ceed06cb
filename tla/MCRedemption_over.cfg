CONSTANTS
    c1 = c1
    c2 = c2
    w1 = w1
    w2 = w2
    Codes <- MCCodes
    Workers = {w1, w2}
    MaxRequests = 2
    MaxFaults = 0
SPECIFICATION Spec
INVARIANT UsesWithinMax
CHECK_DEADLOCK FALSE
