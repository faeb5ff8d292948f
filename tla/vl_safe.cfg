SPECIFICATION FairSpec
CONSTANTS
    Nodes = {n1, n2}
    Sweeps = {timer, admin}
    Durations = {1}
    MaxPhase = 3
    MaxEvents = 2
CHECK_DEADLOCK FALSE
INVARIANTS ExpiredIsOver
PROPERTIES ShutdownIsJustified MarkedGuestIsDown DueIsSettled
