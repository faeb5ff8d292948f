SPECIFICATION FairSpec
CONSTANTS
    Configs = {"night"}
    OffPhases <- NightAndNoon
    StartPhases <- NightAndNoonStarts
    Nodes = {n1, n2}
    MaxPhase = 2
    MaxEdits = 1
    MaxUser = 1
    MaxFaults = 1
    MaxMoves = 1
    MaxExits = 1
CHECK_DEADLOCK FALSE
INVARIANTS NoActionDuringMigration FlagsBelongToWindow
PROPERTIES ClaimHonoursRow OneStopPerWindow StoppedInWindow
