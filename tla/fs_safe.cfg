SPECIFICATION FairSpec
CONSTANTS
    MaxRequests = 4
    MaxEvents = 1
CHECK_DEADLOCK FALSE
INVARIANTS ForwardHasSync NothingLiveUnrecorded
PROPERTIES DeletedLeavesNothing
