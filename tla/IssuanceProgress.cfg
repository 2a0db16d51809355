\* Two requests under fairness, every fault but a change of configuration.
SPECIFICATION FairSpec
CONSTANTS
    r1 = r1
    r2 = r2
    Request = {r1, r2}
    h1 = h1
    h2 = h2
    Harbors = {h1}
    NoConfig = NoConfig
    MinAge = 2
    RequestLimit = 1
    Faults = {"lost_reply", "late_crash", "ambiguous_delete"}
PROPERTIES KeepsCustody OrphanReclaimed RevocationCompletes EntriesDrain
\* Every request may be over and every lease gone.
CHECK_DEADLOCK FALSE
