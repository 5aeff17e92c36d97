SPECIFICATION Spec
CONSTANTS
    s1 = s1
    s2 = s2
    p1 = p1
    p2 = p2
    Sessions = {s1, s2}
    Periods = {p1, p2}
    LastDay = 2
    MaxJournals = 2
    MaxVersion = 6
    NoSession = NoSession
    NoPeriod = NoPeriod
SYMMETRY Symmetry
INVARIANTS
    TypeOK
    OpenPeriodsDisjoint
    PeriodAndCycleAgree
    RevisionCountsPostings
PROPERTIES
    FrozenLedger
