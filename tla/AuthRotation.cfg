SPECIFICATION Spec
CONSTANTS
    c1 = c1
    c2 = c2
    s1 = s1
    s2 = s2
    j1 = j1
    j2 = j2
    j3 = j3
    Callers = {c1, c2}
    Job = Job
    Sids = {s1, s2}
    Jtis = {j1, j2, j3}
    Lifetime = 1
    MaxTime = 2
    CleanupLimit = 1
    NoSid = NoSid
    NoJti = NoJti
CHECK_DEADLOCK FALSE
SYMMETRY Symmetry
INVARIANTS
    TypeOK
    SessionsAreSound
PROPERTIES
    RevokedIsFinal
    KeptUntilExpiry
