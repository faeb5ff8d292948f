SPECIFICATION FairSpec
CONSTANTS
    Automatic = {w}
    Manual = {m}
    Modes = {"low", "high"}
    OsControl = "os"
    None = None
    Schedule <- OneSlot
    Contexts <- FewContexts
    Lease = 3
    DispatchBudget = 1
    WriteTimeout = 1
    NotifyThreshold = 1
    MaxClaims = 1
    MaxEvents = 1
CHECK_DEADLOCK FALSE
INVARIANTS DecisionsAgree
PROPERTIES ClaimReleased
