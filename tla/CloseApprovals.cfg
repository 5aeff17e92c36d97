SPECIFICATION AttestedSpec
CONSTANTS
    s1 = s1
    s2 = s2
    u1 = u1
    u2 = u2
    a1 = a1
    j1 = j1
    j2 = j2
    t1 = t1
    t2 = t2
    Sessions = {s1, s2}
    Users = {u1, u2}
    Admins = {u1, u2}
    Accounts = {}
    Journals = {j1, j2}
    CustomTasks = {t1, t2}
    VarianceRequired = FALSE
    AllTransactions = TRUE
    DerivedStatuses = {"MATCHED"}
    TaskCap = 1
    ApprovalCap = 1
    Requests = 
      {"mark_ready", "request_approval", "decide_approval", "create_custom_task",
       "record_generation"}
    CachedReports = FALSE
    MaxEarlier = 1
    MaxStaged = 0
    MaxContent = 7
    NoOne = NoOne
CHECK_DEADLOCK FALSE
SYMMETRY Symmetry
INVARIANTS
    ClosedIsProven
    EvidenceMatchesLedger
    SeparationOfDuties
    CapsHold
PROPERTIES
    
    NoChangeBehindEvidence
