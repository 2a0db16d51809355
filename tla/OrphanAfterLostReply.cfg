\* One request and the single fault lost_reply: an orphan no entry covers.
SPECIFICATION Spec
CONSTANTS
    r1 = r1
    Request = {r1}
    h1 = h1
    Harbors = {h1}
    NoConfig = NoConfig
    MinAge = 2
    RequestLimit = 1
    Faults = {"lost_reply"}
INVARIANT NoOrphanEver
CHECK_DEADLOCK FALSE
