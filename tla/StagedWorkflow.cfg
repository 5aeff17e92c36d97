SPECIFICATION FocusSpec
CONSTANTS
    s1 = s1
    s2 = s2
    r1 = r1
    a1 = a1
    Sessions = {s1, s2}
    NoRef = NoRef
    NoSession = NoSession
    Refs = {r1}
    Accounts = {a1}
    Payloads <- AllPayloads
    MaxRows = 2
    MaxJournals = 2
    MaxBatch = 2
    Requests = {"ingest", "auto_process", "validate", "post"}
CHECK_DEADLOCK FALSE
SYMMETRY Symmetry
INVARIANTS
    TypeOK
    RowsHaveTheirJournal
    RepeatsExplained
PROPERTIES
    AutoProcessIsAtomic
    FrozenLedger
