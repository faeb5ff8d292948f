SPECIFICATION Spec
CONSTANTS
    Automatic = {w}
    Manual = {m}
    Modes = {"low", "high"}
    OsControl = "os"
    None = None
    Schedule <- TwoSlots
    Contexts <- FewContexts
    Lease = 3
    DispatchBudget = 1
    WriteTimeout = 1
    NotifyThreshold = 1
    MaxClaims = 2
    MaxEvents = 1
CHECK_DEADLOCK FALSE
INVARIANTS SingleDispatcher SentRequestIsClaimed
PROPERTIES ImplementsNodeLease RequestRespectsPolicy HoldLasts
