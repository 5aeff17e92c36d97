SPECIFICATION ServicesSpec
CONSTANTS
    u1 = u1
    u2 = u2
    v1 = v1
    v2 = v2
    fx = fx
    Keys = {1, 2}
    Capabilities = {fx}
    Idents = {v1, v2}
    Passing = {v1, v2}
    Offers <- OffersAll
    Api = "api"
    Tools = {"cli"}
    Users = {u1, u2}
    Admins = {u1, u2}
    NoIdent = NoIdent
    MaxRevision = 2
    MaxIds = 2
    b1 = b1
    b2 = b2
    Cash = Cash
    Budgets = {g1}
    g1 = g1
    Broken = {}
    Horizons = {1, 2}
    DefaultHorizon = 1
    NoHorizon = NoHorizon
    c1 = c1
    c2 = c2
    Clients = {c1, c2}
    RefreshJob = RefreshJob
    Interval = 1
    Ttl = 1
    MaxLedger = 1
    MaxPlans = 2
    MaxFailures = 1
    x1 = x1
    x2 = x2
    Browsers = {b1, b2}
    Cycles = {x1, x2}
    NoCycle = NoCycle
    Lists = {"reconciliations"}
    MaxVersion = 3
    MaxRowVersion = 2
    MaxProbes = 1
    s1 = s1
    s2 = s2
    Syncers = {s1, s2}
    Quotes = {e1}
    e1 = e1
    SyncDays = {1, 2}
    k1 = k1
    k2 = k2
    RuleKeys = {k1, k2}
    OwnKeys = {k1}
    MaxAttempts = 2
    MaxSyncs = 3
    MaxRules = 2
    t1 = t1
    t2 = t2
    Loggers = {t1, t2}
    PageLimit = 1
    MaxEntries = 3
    Plans <- PlansOffered
    Goods = {"XAU"}
    Nations = {"US", "DE"}
    r1 = r1
    r2 = r2
    Runners = {r1, r2}
    EntryTtl = 1
    MaxTicks = 1
    Null = Null
    Blank = Blank
    q1 = q1
    q2 = q2
    EvCallers = {q1, q2}
    MaxRows = 3
    MaxRevisions = 2
    MaxUnseen = 1
    MaxRecords = 2
CHECK_DEADLOCK FALSE
INVARIANTS
    ServicesTypeOK
    ResolvedWasPermitted
    AnswersAreCurrent
    SyncsAreSound
    AuditIsComplete
    SnapshotsAreSound
    
PROPERTIES
    GovernanceIsReviewed
    
