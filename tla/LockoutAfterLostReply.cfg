\* One rotation whose reply is lost.
SPECIFICATION Spec
CONSTANTS
    p1 = p1
    p2 = p2
    Proc = {p1}
    NoConfig = NoConfig
    Nobody = Nobody
    NoClient = NoClient
    MaxPassword = 2
    Writes = {"given", "omitted"}
    Faults = {"lost_reply"}
INVARIANT Recoverable
