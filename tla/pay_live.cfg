SPECIFICATION FairSpec
CONSTANTS
    Refunds = {r1}
    Workers = {w1}
    MaxTries = 1
    MaxRequests = 1
    MaxFaults = 1
CHECK_DEADLOCK FALSE
PROPERTIES CaptureIsPosted RefundIsRecorded
