SPECIFICATION RuntimeSpec
CONSTANTS
    c1 = c1
    s1 = s1
    s2 = s2
    j1 = j1
    j2 = j2
    Callers = {c1}
    Job = Job
    Sids = {s1, s2}
    Jtis = {j1, j2}
    Lifetime = 1
    MaxTime = 3
    CleanupLimit = 1
    NoSid = NoSid
    NoJti = NoJti
    g1 = g1
    Cash = Cash
    Budgets = {g1}
    Broken = {g1}
    Horizons = {1}
    DefaultHorizon = 1
    NoHorizon = NoHorizon
    Clients = {c1}
    RefreshJob = RefreshJob
    Interval = 1
    Ttl = 1
    MaxLedger = 0
    MaxPlans = 2
    MaxFailures = 1
    budget = budget
    f1 = f1
    f2 = f2
    f3 = f3
    Reports = {budget}
    Files = {f1, f2, f3}
    Unreadable = {f2}
    TooLarge = {f3}
    NoFile = NoFile
    MaxSessions = 2
    MaxTokens = 3
    t1 = t1
    t2 = t2
    Loggers = {t1, t2}
    PageLimit = 1
    MaxEntries = 2
    x1 = x1
    x2 = x2
    Extensions = {x1, x2}
    Disabled = {}
    WithContract = {x1}
    Failing = {x2}
    Main = Main
    HsThreads = {t1, t2}
    l1 = l1
    l2 = l2
    l3 = l3
    Logins = {l1, l2, l3}
    LoginAttempts = 2
    LoginWindow = 1
    LockoutDuration = 2
    LtMaxTime = 4
CHECK_DEADLOCK FALSE
INVARIANTS
    RuntimeTypeOK
    NothingOutlived
    
    HealthIsTrue
PROPERTIES
    WorkGetsDone
    SignedOutMeansRevoked
