\* One role, never raised, and renewals Harbor does not extend the robot for.
SPECIFICATION Spec
CONSTANTS
    p1 = p1
    Renewal = {p1}
    Roles <- PullRole
    NoRole = NoRole
    Increments = {}
    Day = 2
    DefaultTTL = 1
    SystemMax = 6
    Latency = 1
    MaxTime = 6
    Faults = {}
INVARIANT CappedNotRefused
