SPECIFICATION FairSpec
CONSTANTS
    Nodes = {a, b}
    Gone = Gone
    MaxMigrations = 1
    MaxTimeouts = 1
    MaxRestarts = 1
CHECK_DEADLOCK FALSE
PROPERTIES Settles
