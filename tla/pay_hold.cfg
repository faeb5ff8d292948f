SPECIFICATION Spec
CONSTANTS
    Refunds = {}
    Workers = {w1, w2}
    MaxTries = 1
    MaxRequests = 1
    MaxFaults = 0
CHECK_DEADLOCK FALSE
INVARIANTS HoldIsClosed
