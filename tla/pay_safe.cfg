SPECIFICATION Spec
CONSTANTS
    Refunds = {r1}
    Workers = {w1, w2}
    MaxTries = 1
    MaxRequests = 1
    MaxFaults = 2
CHECK_DEADLOCK FALSE
INVARIANTS LedgerFollowsPayPal FailedTookNothing OneWorkerPerEvent
