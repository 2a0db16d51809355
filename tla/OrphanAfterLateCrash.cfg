\* One request and the single fault late_crash: an orphan no entry covers.
SPECIFICATION Spec
CONSTANTS
    r1 = r1
    Request = {r1}
    h1 = h1
    Harbors = {h1}
    NoConfig = NoConfig
    MinAge = 2
    RequestLimit = 1
    Faults = {"late_crash"}
INVARIANT NoOrphanEver
CHECK_DEADLOCK FALSE
