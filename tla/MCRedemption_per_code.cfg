\* Two workers, two codes, one storage failure; calls on one code do not overlap.
CONSTANTS
    c1 = c1
    c2 = c2
    w1 = w1
    w2 = w2
    Codes <- MCCodes
    Workers = {w1, w2}
    MaxRequests = 4
    MaxFaults = 1
SPECIFICATION Spec
CONSTRAINT OneCallPerCode
INVARIANTS UsesWithinMax CountCoversUsages CreditBackedByUsage
PROPERTY RedemptionRefines
CHECK_DEADLOCK FALSE
