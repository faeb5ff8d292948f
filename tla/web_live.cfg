SPECIFICATION FairSpec
CONSTANTS
    Upstreams = {u1}
    Jobs = {j1, j2}
    None = None
    MaxRequests = 1
    MaxEvents = 2
INVARIANTS TypeOK RevokedHoldsNothing
PROPERTIES RevocationHolds DeniedComesDown PublishedIsServed
