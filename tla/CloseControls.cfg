SPECIFICATION AttestedSpec
CONSTANTS
    s1 = s1
    s2 = s2
    u1 = u1
    u2 = u2
    a1 = a1
    j1 = j1
    j2 = j2
    t1 = t1
    t2 = t2
    Sessions = {s1, s2}
    Users = {u1, u2}
    Admins = {u1, u2}
    Accounts = {a1}
    Journals = {j1}
    CustomTasks = {}
    VarianceRequired = TRUE
    AllTransactions = FALSE
    DerivedStatuses = {"MATCHED"}
    TaskCap = 0
    ApprovalCap = 0
    Requests = 
      {"prepare_reconciliation", "approve_reconciliation",
       "materialize_variances", "update_variance"}
    CachedReports = TRUE
    MaxEarlier = 0
    MaxStaged = 0
    MaxContent = 7
    NoOne = NoOne
CHECK_DEADLOCK FALSE
SYMMETRY Symmetry
INVARIANTS
    
    SeparationOfDuties
