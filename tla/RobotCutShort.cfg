\* Renewals whose updates Harbor may answer with an error.
SPECIFICATION Spec
CONSTANTS
    p1 = p1
    Renewal = {p1}
    Roles <- SomeRoles
    NoRole = NoRole
    Increments = {5}
    Day = 2
    DefaultTTL = 1
    SystemMax = 6
    Latency = 1
    MaxTime = 6
    Faults = {"update_error"}
INVARIANT LeaseAlwaysCovered
