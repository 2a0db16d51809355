\* Two renewals that overlap, role changes, deletions in Harbor, both issuers, failed
\* updates.
SPECIFICATION Spec
CONSTANTS
    p1 = p1
    p2 = p2
    Renewal = {p1, p2}
    Roles <- TwoRoles
    NoRole = NoRole
    Increments = {}
    Day = 2
    DefaultTTL = 1
    SystemMax = 6
    Latency = 1
    MaxTime = 6
    Faults = {"update_error"}
SYMMETRY RenewalSymmetry
INVARIANTS TypeOK LeaseCovered KnownIsSafe IInv
PROPERTY CapHolds
\* The clock stops at MaxTime.
CHECK_DEADLOCK FALSE
