\* Two requests, two Harbors, every fault.
SPECIFICATION Spec
CONSTANTS
    r1 = r1
    r2 = r2
    Request = {r1, r2}
    h1 = h1
    h2 = h2
    Harbors = {h1, h2}
    NoConfig = NoConfig
    MinAge = 2
    RequestLimit = 1
    Faults = {"lost_reply", "late_crash", "ambiguous_delete", "reconfigure"}
SYMMETRY RequestSymmetry
INVARIANTS TypeOK NoOrphan EntryMeansNoLease LeaseHasRobot RevokedIsGone IInv
PROPERTY OnlyCleanupDeletes
