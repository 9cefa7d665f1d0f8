SPECIFICATION FairSpec
CONSTANTS
    Events = {e1, e2}
    Sessions = {s1, s2, s3}
    None = None
    Clients = {s3}
    Faults = {"accept", "connect", "recvReset", "recvOther", "disconnect"}
INVARIANTS
    NoReleaseCrash
    RegistriesAgree
    RecvLoopKept
PROPERTIES
    Released

\* Clients stop coming, and the session objects of the run are used up.
CHECK_DEADLOCK FALSE
