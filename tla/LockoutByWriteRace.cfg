\* Config writes that omit the password, and read the stored one before a rotation.
SPECIFICATION Spec
CONSTANTS
    p1 = p1
    p2 = p2
    Proc = {p1, p2}
    NoConfig = NoConfig
    Nobody = Nobody
    NoClient = NoClient
    MaxPassword = 2
    Writes = {"omitted"}
    Faults = {"config_race"}
INVARIANT RecoverableAtRest
