SPECIFICATION FocusSpec
CONSTANTS
    s1 = s1
    s2 = s2
    r1 = r1
    a1 = a1
    a2 = a2
    Sessions = {s1, s2}
    NoRef = NoRef
    NoSession = NoSession
    Refs = {}
    Accounts = {a1}
    Payloads <- OnePayload
    MaxRows = 1
    MaxJournals = 2
    MaxBatch = 1
    Requests = {"ingest", "auto_process", "validate", "post"}
CHECK_DEADLOCK FALSE
SYMMETRY Symmetry
INVARIANTS
    PostedOnceAlways
