\* Two concurrent VerifyCode calls on the code table of one e-mail, reliable storage.
CONSTANTS
    s1 = s1
    s2 = s2
    e1 = e1
    e2 = e2
    n1 = n1
    n2 = n2
    tok0 = tok0
    w1 = w1
    w2 = w2
    Slots <- MCSlots
    Emails = {e1, e2}
    Names = {n1, n2}
    NoToken = tok0
    Workers = {w1, w2}
    MaxCodes = 2
    MaxRequests = 3
    MaxFaults = 0
SPECIFICATION Spec
INVARIANT CodeAcceptedOnce
CHECK_DEADLOCK FALSE
