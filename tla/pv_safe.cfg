SPECIFICATION FairSpec
CONSTANTS
    Users = {u1, u2}
    NoUser = NoUser
    MaxJobs = 2
    KindOf <- CloneThenCreate
    MaxVmid = 4
    Quota = 1
    MaxEvents = 1
CHECK_DEADLOCK FALSE
INVARIANTS TypeOK OneJobPerVmid QuotaHolds FailedLeftNothing
PROPERTIES JobSettles
