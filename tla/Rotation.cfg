\* Two requests under fairness, any number of rotations and config writes at any
\* moment, lost replies and puts that fail but are carried out.
SPECIFICATION FairSpec
CONSTANTS
    p1 = p1
    p2 = p2
    Proc = {p1, p2}
    NoConfig = NoConfig
    Nobody = Nobody
    NoClient = NoClient
    MaxPassword = 2
    Writes = {"given", "omitted"}
    Faults = {"config_race", "lost_put", "lost_reply"}
INVARIANTS TypeOK StaysRecoverable OneHolder CacheMatchesStore IInv
PROPERTIES ChangeIsPersisted RotationSettles StaleClientGoes LockFreed
