SPECIFICATION FcSpec
CONSTANTS
    g1 = g1
    Cash = Cash
    Budgets = {g1}
    Broken = {}
    Horizons = {1}
    DefaultHorizon = 1
    NoHorizon = NoHorizon
    c1 = c1
    c2 = c2
    Clients = {c1, c2}
    RefreshJob = RefreshJob
    Interval = 1
    Ttl = 1
    MaxLedger = 0
    MaxPlans = 2
    MaxFailures = 0
INVARIANTS
    PlanOnce
