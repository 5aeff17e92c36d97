SPECIFICATION Spec
CONSTANTS
    s1 = s1
    s2 = s2
    u1 = u1
    u2 = u2
    a1 = a1
    j1 = j1
    j2 = j2
    t1 = t1
    t2 = t2
    Sessions = {s1, s2}
    Users = {u1, u2}
    Admins = {u1, u2}
    Accounts = {}
    Journals = {j1}
    CustomTasks = {}
    VarianceRequired = FALSE
    AllTransactions = FALSE
    DerivedStatuses = {"MATCHED"}
    TaskCap = 0
    ApprovalCap = 0
    Requests = 
      {"start", "mark_ready", "return_to_work", "cancel", "restart", "update_manual_task",
       "record_generation"}
    CachedReports = FALSE
    MaxEarlier = 0
    MaxStaged = 1
    MaxContent = 8
    NoOne = NoOne
CHECK_DEADLOCK FALSE
SYMMETRY Symmetry
INVARIANTS
    TypeOK
    FinalEvidence
PROPERTIES
    KeepsPromise
