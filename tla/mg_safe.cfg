SPECIFICATION Spec
CONSTANTS
    Nodes = {a, b, c}
    Gone = Gone
    MaxMigrations = 2
    MaxTimeouts = 1
    MaxRestarts = 1
CHECK_DEADLOCK FALSE
SYMMETRY Hosts
INVARIANTS OneMigration HoldersExcludeMigration RefsFollowGuest
PROPERTIES TrackedLeftoverIsSafe RelocationOwnsOutcome
