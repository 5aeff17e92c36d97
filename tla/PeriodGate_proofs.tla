-------------------------- MODULE PeriodGate_proofs --------------------------
(***************************************************************************)
(* Proofs about PeriodGate, for any number of sessions, periods and days.  *)
(*                                                                         *)
(* What a gated call decided while it held the writer position is still    *)
(* true when it commits (HolderDecided), because nothing commits meanwhile *)
(* (GateDiscipline); what an ungated call read is still true if the        *)
(* version it read is (ReadsFresh).                                        *)
(***************************************************************************)
EXTENDS PeriodGate, FiniteSetTheorems, TLAPS

\* The writer position is held exactly by the session of the gated call.
GateDiscipline == \A s \in Sessions : writer = s <=> op[s].call \in Gated

\* The decision of a gated call, as it stands until the call commits.
HolderDecided ==
    \A s \in Sessions :
        /\ op[s].call = "post" => PostingAllowed(op[s].first)
        /\ op[s].call = "create_period" =>
             op[s].first <= op[s].last /\ OpenOverlapping(op[s].first, op[s].last) = {}
        /\ op[s].call = "close" => op[s].period \in Periods /\ cycle[op[s].period] = "READY_FOR_APPROVAL"
        /\ op[s].call = "reopen" =>
             /\ op[s].period \in Periods /\ cycle[op[s].period] = "CLOSED"
             /\ OpenOverlapping(first[op[s].period], last[op[s].period]) \subseteq {op[s].period}

\* What an ungated call read is from the past, and holds if the version does.
ReadsFresh ==
    \A s \in Sessions : op[s].call \in Ungated =>
        /\ op[s].period \in Periods
        /\ pstatus[op[s].period] # "ABSENT"
        /\ op[s].seen <= version[op[s].period]
        /\ op[s].call # "create_cycle" /\ op[s].seen = version[op[s].period] =>
             cycle[op[s].period] \in Expected(op[s].call)

\* Dates run forward, and only a period that exists has a cycle.
PeriodsWellFormed ==
    \A p \in Periods :
        /\ first[p] <= last[p]
        /\ pstatus[p] = "ABSENT" => cycle[p] = "ABSENT"
        /\ cycle[p] = "ABSENT" => version[p] = 0

IInv == TypeOK /\ GateDiscipline /\ HolderDecided /\ ReadsFresh /\ PeriodsWellFormed
          /\ OpenPeriodsDisjoint /\ PeriodAndCycleAgree

-----------------------------------------------------------------------------
LEMMA IdleType == Idle \in Op /\ Idle.call = "none" /\ "none" \notin Gated \cup Ungated
  BY LastDayAssumption, MaxVersionAssumption DEF Idle, Op, Gated, Ungated, Days

LEMMA InitIInv == Init => IInv
<1> SUFFICES ASSUME Init PROVE IInv
  OBVIOUS
<1>1. TypeOK
  <2>1. 1 \in Days /\ 0 \in 0..MaxVersion /\ {} \in SUBSET Journals
    BY LastDayAssumption, MaxVersionAssumption DEF Days
  <2> QED BY <2>1, IdleType DEF Init, TypeOK, PeriodStatus, CycleStatus
<1>2. GateDiscipline
  BY IdleType, NoSessionAssumption DEF Init, GateDiscipline
<1>3. HolderDecided /\ ReadsFresh
  BY IdleType DEF Init, HolderDecided, ReadsFresh, Gated, Ungated, Idle
<1>4. PeriodsWellFormed /\ OpenPeriodsDisjoint /\ PeriodAndCycleAgree
  BY DEF Init, PeriodsWellFormed, OpenPeriodsDisjoint, PeriodAndCycleAgree
<1> QED BY <1>1, <1>2, <1>3, <1>4 DEF IInv

\* The rows of the database; what a step that only reads leaves alone.
Rows == <<pstatus, first, last, rev, cycle, version, journals, before>>

\* A call that took the gate decided what it decided before the step ends.
LEMMA GatePreserves ==
  ASSUME IInv, NEW s \in Sessions, NEW c \in Gated, NEW p \in Periods \cup {NoPeriod},
         NEW f \in Days, NEW l \in Days, TakeGate(s, c, p, f, l),
         c = "post" => PostingAllowed(f),
         c = "create_period" => f <= l /\ OpenOverlapping(f, l) = {},
         c = "close" => p \in Periods /\ cycle[p] = "READY_FOR_APPROVAL",
         c = "reopen" => p \in Periods /\ cycle[p] = "CLOSED"
                         /\ OpenOverlapping(first[p], last[p]) \subseteq {p}
  PROVE  IInv'
<1> DEFINE o == [call |-> c, period |-> p, first |-> f, last |-> l, seen |-> 0]
<1>1. o \in Op
  BY MaxVersionAssumption DEF Op
<1>2. op' = [op EXCEPT ![s] = o] /\ writer' = s /\ writer = NoSession /\ op[s] = Idle
  BY DEF TakeGate, GateFree
<1>3. UNCHANGED Rows
  BY DEF TakeGate, Rows
<1>4. o.call = c /\ o.period = p /\ o.first = f /\ o.last = l /\ c \notin Ungated
  BY DEF Gated, Ungated
<1> HIDE DEF o
<1>5. TypeOK'
  BY <1>1, <1>2, <1>3 DEF IInv, TypeOK, Rows
<1>6. GateDiscipline'
  BY <1>2, <1>4, NoSessionAssumption DEF IInv, TypeOK, GateDiscipline
<1>7. \A t \in Sessions : t # s => op'[t] = op[t] /\ op[t].call \notin Gated
  BY <1>2, NoSessionAssumption DEF IInv, TypeOK, GateDiscipline
<1>8. op'[s] = o
  BY <1>2 DEF IInv, TypeOK
<1>9. HolderDecided'
  <2>1. \A x, y \in Days : OpenOverlapping(x, y)' = OpenOverlapping(x, y)
    BY <1>3 DEF OpenOverlapping, Rows
  <2>2. \A x \in Days : PostingAllowed(x)' = PostingAllowed(x)
    BY <1>3 DEF PostingAllowed, OpenAt, ClosedAt, Covers, Rows
  <2>3. \A q \in Periods : first'[q] = first[q] /\ last'[q] = last[q]
                           /\ first[q] \in Days /\ last[q] \in Days
    BY <1>3 DEF Rows, IInv, TypeOK
  <2>4. cycle' = cycle
    BY <1>3 DEF Rows
  <2>5. \A t \in Sessions : t # s => op'[t].call \notin {"post", "create_period", "close", "reopen"}
    BY <1>7 DEF Gated
  <2>6. c = "reopen" => OpenOverlapping(first[p], last[p])' = OpenOverlapping(first[p], last[p])
    BY <2>1, <2>3, <1>3 DEF Rows, OpenOverlapping
  <2>7. OpenOverlapping(f, l)' = OpenOverlapping(f, l) /\ PostingAllowed(f)' = PostingAllowed(f)
    BY <2>1, <2>2
  <2> QED BY <1>4, <1>8, <2>3, <2>4, <2>5, <2>6, <2>7 DEF HolderDecided
<1>10. ReadsFresh'
  BY <1>3, <1>4, <1>7, <1>8 DEF IInv, ReadsFresh, Rows
<1>11. PeriodsWellFormed' /\ OpenPeriodsDisjoint' /\ PeriodAndCycleAgree'
  BY <1>3 DEF IInv, PeriodsWellFormed, OpenPeriodsDisjoint, PeriodAndCycleAgree, Rows
<1> QED BY <1>5, <1>6, <1>9, <1>10, <1>11 DEF IInv

LEMMA ReadPreserves ==
  ASSUME IInv, NEW s \in Sessions, NEW c \in Ungated, NEW p \in Periods, Read(s, c, p),
         pstatus[p] # "ABSENT", c # "create_cycle" => cycle[p] \in Expected(c)
  PROVE  IInv'
<1> DEFINE o == [call |-> c, period |-> p, first |-> 1, last |-> 1, seen |-> version[p]]
<1>1. o \in Op /\ version[p] <= version[p]
  BY LastDayAssumption DEF Op, IInv, TypeOK, Days
<1>2. op' = [op EXCEPT ![s] = o] /\ op[s] = Idle /\ writer' = writer
  BY DEF Read
<1>3. UNCHANGED Rows
  BY DEF Read, Rows
<1>4. o.call = c /\ o.period = p /\ o.seen = version[p] /\ c \notin Gated
  BY DEF Gated, Ungated
<1> HIDE DEF o
<1>5. TypeOK'
  BY <1>1, <1>2, <1>3 DEF IInv, TypeOK, Rows
<1>6. op'[s] = o /\ \A t \in Sessions : t # s => op'[t] = op[t]
  BY <1>2 DEF IInv, TypeOK
<1>7. GateDiscipline'
  BY <1>2, <1>4, <1>6, IdleType DEF IInv, GateDiscipline
<1>8. HolderDecided'
  <2>1. /\ \A x, y : OpenOverlapping(x, y)' = OpenOverlapping(x, y)
        /\ \A x : PostingAllowed(x)' = PostingAllowed(x)
    BY <1>3 DEF OpenOverlapping, PostingAllowed, OpenAt, ClosedAt, Covers, Rows
  <2>2. c \notin {"post", "create_period", "close", "reopen"}
    BY DEF Ungated
  <2> SUFFICES ASSUME NEW t \in Sessions, t # s
               PROVE  HolderDecided!(t)'
    BY <1>4, <1>6, <2>2 DEF HolderDecided
  <2> QED BY <1>3, <1>6, <2>1 DEF IInv, HolderDecided, Rows
<1>9. ReadsFresh'
  BY <1>1, <1>3, <1>4, <1>6 DEF IInv, ReadsFresh, Rows
<1>10. PeriodsWellFormed' /\ OpenPeriodsDisjoint' /\ PeriodAndCycleAgree'
  BY <1>3 DEF IInv, PeriodsWellFormed, OpenPeriodsDisjoint, PeriodAndCycleAgree, Rows
<1> QED BY <1>5, <1>7, <1>8, <1>9, <1>10 DEF IInv

\* Versions only grow, no status moves without its version, no period goes.
VersionsAdvance ==
    \A p \in Periods :
        /\ version[p] <= version'[p]
        /\ version'[p] = version[p] => cycle'[p] = cycle[p]
        /\ pstatus'[p] = "ABSENT" => pstatus[p] = "ABSENT"

\* When a session that holds the writer position, or finds it free, ends its
\* call, nobody holds it and nobody else's reading is spoilt.
LEMMA FinishStep ==
  ASSUME IInv, NEW s \in Sessions, writer \in {s, NoSession}, writer' = NoSession,
         op' = [op EXCEPT ![s] = Idle],
         version' \in [Periods -> 0..MaxVersion], VersionsAdvance
  PROVE  /\ op' \in [Sessions -> Op] /\ writer' \in Sessions \cup {NoSession}
         /\ GateDiscipline' /\ HolderDecided' /\ ReadsFresh'
<1>1. op' \in [Sessions -> Op] /\ writer' \in Sessions \cup {NoSession}
  BY IdleType DEF IInv, TypeOK
<1>2. op'[s] = Idle /\ \A t \in Sessions : t # s => op'[t] = op[t]
  BY DEF IInv, TypeOK
<1>3. \A t \in Sessions : op'[t].call \notin Gated
  BY <1>2, IdleType, NoSessionAssumption DEF IInv, GateDiscipline
<1>4. GateDiscipline'
  BY <1>3, NoSessionAssumption DEF GateDiscipline
<1>5. HolderDecided'
  BY <1>3 DEF HolderDecided, Gated
<1>6. ReadsFresh'
  <2> SUFFICES ASSUME NEW t \in Sessions, op'[t].call \in Ungated
               PROVE  /\ op'[t].period \in Periods
                      /\ pstatus'[op'[t].period] # "ABSENT"
                      /\ op'[t].seen <= version'[op'[t].period]
                      /\ op'[t].call # "create_cycle" /\ op'[t].seen = version'[op'[t].period] =>
                           cycle'[op'[t].period] \in Expected(op'[t].call)
    BY DEF ReadsFresh, Expected
  <2>1. op'[t] = op[t]
    BY <1>2, IdleType
  <2> DEFINE p == op[t].period
  <2>2. /\ p \in Periods /\ pstatus[p] # "ABSENT" /\ op[t].seen <= version[p]
        /\ op[t].call # "create_cycle" /\ op[t].seen = version[p] => cycle[p] \in Expected(op[t].call)
    BY <2>1 DEF IInv, ReadsFresh
  <2>3. op[t].seen \in Nat /\ version[p] \in Nat /\ version'[p] \in Nat
    BY <2>2, MaxVersionAssumption DEF IInv, TypeOK, Op
  <2>4. /\ version[p] <= version'[p]
        /\ version'[p] = version[p] => cycle'[p] = cycle[p]
        /\ pstatus'[p] # "ABSENT"
    BY <2>2 DEF VersionsAdvance
  <2> HIDE DEF p
  <2>5. op[t].seen <= version'[p]
    BY <2>2, <2>3, <2>4
  <2>6. op[t].seen = version'[p] => op[t].seen = version[p] /\ cycle'[p] = cycle[p]
    BY <2>2, <2>3, <2>4
  <2> QED BY <2>1, <2>2, <2>4, <2>5, <2>6 DEF p
<1> QED BY <1>1, <1>4, <1>5, <1>6

LEMMA AbortPreserves ==
  ASSUME IInv, NEW s \in Sessions, Abort(s)
  PROVE  IInv'
<1>1. op' = [op EXCEPT ![s] = Idle] /\ UNCHANGED Rows
  BY DEF Abort, Rows
<1>2. op'[s] = Idle /\ \A t \in Sessions : t # s => op'[t] = op[t]
  BY <1>1 DEF IInv, TypeOK
<1>3. TypeOK'
  BY <1>1, IdleType DEF Abort, IInv, TypeOK, Rows
<1>4. GateDiscipline'
  BY <1>2, IdleType, NoSessionAssumption DEF Abort, IInv, GateDiscipline
<1>5. HolderDecided'
  <2>1. /\ \A x, y : OpenOverlapping(x, y)' = OpenOverlapping(x, y)
        /\ \A x : PostingAllowed(x)' = PostingAllowed(x)
    BY <1>1 DEF OpenOverlapping, PostingAllowed, OpenAt, ClosedAt, Covers, Rows
  <2>2. Idle.call \notin {"post", "create_period", "close", "reopen"}
    BY DEF Idle
  <2> SUFFICES ASSUME NEW t \in Sessions, t # s
               PROVE  HolderDecided!(t)'
    BY <1>2, <2>2 DEF HolderDecided
  <2> QED BY <1>1, <1>2, <2>1 DEF IInv, HolderDecided, Rows
<1>6. ReadsFresh'
  BY <1>1, <1>2, IdleType DEF IInv, ReadsFresh, Rows
<1>7. PeriodsWellFormed' /\ OpenPeriodsDisjoint' /\ PeriodAndCycleAgree'
  BY <1>1 DEF IInv, PeriodsWellFormed, OpenPeriodsDisjoint, PeriodAndCycleAgree, Rows
<1> QED BY <1>3, <1>4, <1>5, <1>6, <1>7 DEF IInv

\* The holder of the writer position is the session of the gated call.
LEMMA HolderHolds ==
  ASSUME IInv, NEW s \in Sessions, NEW c \in Gated, Holds(s, c)
  PROVE  writer \in {s, NoSession} /\ op[s] \in Op
  BY DEF Holds, IInv, TypeOK

LEMMA PostingPreserves ==
  ASSUME IInv, NEW s \in Sessions, RecordPosting(s)
  PROVE  IInv'
<1>1. op' = [op EXCEPT ![s] = Idle] /\ writer' = NoSession /\ writer \in {s, NoSession}
      /\ UNCHANGED <<pstatus, first, last, cycle, version, before>>
  BY DEF RecordPosting, Release, Holds
<1>2. version' \in [Periods -> 0..MaxVersion] /\ VersionsAdvance
  BY <1>1, MaxVersionAssumption DEF IInv, TypeOK, VersionsAdvance
<1>3. /\ op' \in [Sessions -> Op] /\ writer' \in Sessions \cup {NoSession}
      /\ GateDiscipline' /\ HolderDecided' /\ ReadsFresh'
  BY <1>1, <1>2, FinishStep
<1>4. rev' \in [Periods -> Nat]
  BY DEF RecordPosting, IInv, TypeOK, OpenAt
<1>5. journals' \in SUBSET Journals
  BY DEF RecordPosting, IInv, TypeOK, Journals, Op
<1>6. TypeOK'
  BY <1>1, <1>2, <1>3, <1>4, <1>5 DEF IInv, TypeOK
<1>7. PeriodsWellFormed' /\ OpenPeriodsDisjoint' /\ PeriodAndCycleAgree'
  BY <1>1 DEF IInv, PeriodsWellFormed, OpenPeriodsDisjoint, PeriodAndCycleAgree
<1> QED BY <1>3, <1>6, <1>7 DEF IInv

LEMMA CreatePeriodPreserves ==
  ASSUME IInv, NEW s \in Sessions, NEW p \in Periods, CreatePeriod(s, p)
  PROVE  IInv'
<1>1. op' = [op EXCEPT ![s] = Idle] /\ writer' = NoSession /\ writer \in {s, NoSession}
      /\ UNCHANGED <<rev, cycle, version, journals>>
  BY DEF CreatePeriod, Release, Holds
<1> DEFINE f == op[s].first
           l == op[s].last
<1>2. f \in Days /\ l \in Days /\ f <= l /\ OpenOverlapping(f, l) = {}
  BY DEF CreatePeriod, Holds, IInv, TypeOK, HolderDecided, Op
<1>3. /\ pstatus' = [pstatus EXCEPT ![p] = "OPEN"] /\ first' = [first EXCEPT ![p] = f]
      /\ last' = [last EXCEPT ![p] = l] /\ pstatus[p] = "ABSENT"
  BY DEF CreatePeriod
<1>4. version' \in [Periods -> 0..MaxVersion]
  BY <1>1 DEF IInv, TypeOK
<1>5. VersionsAdvance
  BY <1>1, <1>3, MaxVersionAssumption DEF IInv, TypeOK, VersionsAdvance
<1>6. /\ op' \in [Sessions -> Op] /\ writer' \in Sessions \cup {NoSession}
      /\ GateDiscipline' /\ HolderDecided' /\ ReadsFresh'
  BY <1>1, <1>4, <1>5, FinishStep
<1> HIDE DEF f, l
<1>7. TypeOK'
  <2>1. before' \in [Periods -> SUBSET Journals]
    BY DEF CreatePeriod, IInv, TypeOK
  <2> QED BY <1>1, <1>2, <1>3, <1>4, <1>6, <2>1 DEF IInv, TypeOK, PeriodStatus
<1>8. PeriodsWellFormed' /\ PeriodAndCycleAgree'
  BY <1>1, <1>2, <1>3 DEF IInv, TypeOK, PeriodsWellFormed, PeriodAndCycleAgree
<1>9. OpenPeriodsDisjoint'
  <2>1. \A q \in Periods : pstatus[q] = "OPEN" => ~(first[q] <= l /\ last[q] >= f)
    BY <1>2 DEF OpenOverlapping
  <2>2. \A q \in Periods : first[q] \in Nat /\ last[q] \in Nat
    BY LastDayAssumption DEF IInv, TypeOK, Days
  <2>3. f \in Nat /\ l \in Nat
    BY <1>2, LastDayAssumption DEF Days
  <2>4. \A q \in Periods \ {p} : /\ pstatus'[q] = pstatus[q] /\ first'[q] = first[q]
                                 /\ last'[q] = last[q]
    BY <1>3 DEF IInv, TypeOK
  <2>5. first'[p] = f /\ last'[p] = l
    BY <1>3 DEF IInv, TypeOK
  <2> QED BY <2>1, <2>2, <2>3, <2>4, <2>5 DEF IInv, OpenPeriodsDisjoint
<1> QED BY <1>6, <1>7, <1>8, <1>9 DEF IInv

\* A commit that moves one cycle, and perhaps the status of its period.
LEMMA CycleStep ==
  ASSUME IInv, NEW s \in Sessions, NEW p \in Periods, writer \in {s, NoSession},
         NEW c \in CycleStatus \ {"ABSENT"}, NEW v \in 0..MaxVersion, v > version[p],
         NEW st \in PeriodStatus \ {"ABSENT"}, c = "CLOSED" <=> st = "CLOSED",
         op' = [op EXCEPT ![s] = Idle], writer' = NoSession,
         cycle' = [cycle EXCEPT ![p] = c], version' = [version EXCEPT ![p] = v],
         pstatus' = [pstatus EXCEPT ![p] = st],
         UNCHANGED <<first, last, rev, journals, before>>,
         st = "OPEN" /\ pstatus[p] # "OPEN" => OpenOverlapping(first[p], last[p]) \subseteq {p}
  PROVE  IInv'
<1>1. version' \in [Periods -> 0..MaxVersion]
  BY DEF IInv, TypeOK
<1>2. VersionsAdvance
  BY MaxVersionAssumption DEF IInv, TypeOK, VersionsAdvance
<1>3. /\ op' \in [Sessions -> Op] /\ writer' \in Sessions \cup {NoSession}
      /\ GateDiscipline' /\ HolderDecided' /\ ReadsFresh'
  BY <1>1, <1>2, FinishStep
<1>4. TypeOK'
  BY <1>1, <1>3 DEF IInv, TypeOK
<1>5. PeriodsWellFormed' /\ PeriodAndCycleAgree'
  BY DEF IInv, TypeOK, PeriodsWellFormed, PeriodAndCycleAgree
<1>6. OpenPeriodsDisjoint'
  <2>1. \A q \in Periods \ {p} : pstatus'[q] = pstatus[q]
    BY DEF IInv, TypeOK
  <2>2. CASE pstatus[p] = "OPEN" \/ st # "OPEN"
    BY <2>1, <2>2 DEF IInv, TypeOK, OpenPeriodsDisjoint
  <2>3. CASE st = "OPEN" /\ pstatus[p] # "OPEN"
    <3>1. \A q \in Periods \ {p} : pstatus[q] = "OPEN" => ~(first[q] <= last[p] /\ last[q] >= first[p])
      BY <2>3 DEF OpenOverlapping
    <3>2. \A q \in Periods : first[q] \in Nat /\ last[q] \in Nat
      BY LastDayAssumption DEF IInv, TypeOK, Days
    <3> QED BY <2>1, <3>1, <3>2 DEF IInv, OpenPeriodsDisjoint
  <2> QED BY <2>2, <2>3
<1> QED BY <1>3, <1>4, <1>5, <1>6 DEF IInv

LEMMA ClosePreserves ==
  ASSUME IInv, NEW s \in Sessions, Close(s) \/ Reopen(s)
  PROVE  IInv'
<1> DEFINE p == op[s].period
<1>1. p \in Periods /\ writer = s
  BY DEF Close, Reopen, Holds, IInv, HolderDecided
<1>2. version[p] \in Nat /\ version[p] + 1 \in 0..MaxVersion /\ version[p] + 1 > version[p]
  BY <1>1, MaxVersionAssumption DEF Close, Reopen, IInv, TypeOK
<1>3. op' = [op EXCEPT ![s] = Idle] /\ writer' = NoSession
      /\ version' = [version EXCEPT ![p] = version[p] + 1]
      /\ UNCHANGED <<first, last, rev, journals, before>>
  BY DEF Close, Reopen, Release
<1>4. CASE Close(s)
  <2>1. cycle' = [cycle EXCEPT ![p] = "CLOSED"] /\ pstatus' = [pstatus EXCEPT ![p] = "CLOSED"]
    BY <1>4 DEF Close
  <2>2. "CLOSED" \in CycleStatus \ {"ABSENT"} /\ "CLOSED" \in PeriodStatus \ {"ABSENT"}
    BY DEF CycleStatus, PeriodStatus
  <2> HIDE DEF p
  <2> QED BY <1>1, <1>2, <1>3, <2>1, <2>2, CycleStep
<1>5. CASE Reopen(s)
  <2>1. OpenOverlapping(first[p], last[p]) \subseteq {p}
    BY <1>5 DEF Reopen, Holds, IInv, HolderDecided
  <2>2. cycle' = [cycle EXCEPT ![p] = "IN_PROGRESS"] /\ pstatus' = [pstatus EXCEPT ![p] = "OPEN"]
    BY <1>5 DEF Reopen
  <2>3. "IN_PROGRESS" \in CycleStatus \ {"ABSENT"} /\ "OPEN" \in PeriodStatus \ {"ABSENT"}
    BY DEF CycleStatus, Operational, PeriodStatus
  <2> HIDE DEF p
  <2> QED BY <1>1, <1>2, <1>3, <2>1, <2>2, <2>3, CycleStep
<1> QED BY <1>4, <1>5

LEMMA SwapPreserves ==
  ASSUME IInv, NEW s \in Sessions, Swap(s)
  PROVE  IInv' /\ cycle[op[s].period] # "CLOSED"
<1> DEFINE p == op[s].period
           c == Target(op[s].call)
<1>1. /\ p \in Periods /\ pstatus[p] # "ABSENT" /\ cycle[p] \in Expected(op[s].call)
      /\ op[s].call \in Ungated \ {"create_cycle"}
  BY DEF Swap, IInv, ReadsFresh
<1>2. cycle[p] # "CLOSED"
  BY <1>1 DEF Ungated, Expected, Operational
<1>3. c \in CycleStatus \ {"ABSENT"} /\ c # "CLOSED"
  BY DEF Target, CycleStatus, Operational
<1>4. version[p] + 1 \in 0..MaxVersion /\ version[p] + 1 > version[p]
  BY <1>1, MaxVersionAssumption DEF Swap, IInv, TypeOK
<1>5. pstatus[p] \in PeriodStatus \ {"ABSENT"} /\ pstatus[p] # "CLOSED"
  BY <1>1, <1>2 DEF IInv, TypeOK, PeriodAndCycleAgree
<1>6. pstatus' = [pstatus EXCEPT ![p] = pstatus[p]]
  BY <1>1 DEF Swap, IInv, TypeOK
<1>7. cycle' = [cycle EXCEPT ![p] = c] /\ version' = [version EXCEPT ![p] = version[p] + 1]
      /\ op' = [op EXCEPT ![s] = Idle] /\ writer = NoSession /\ writer' = NoSession
      /\ UNCHANGED <<first, last, rev, journals, before>>
  BY DEF Swap
<1> HIDE DEF p, c
<1>8. IInv'
  BY <1>1, <1>3, <1>4, <1>5, <1>6, <1>7, CycleStep
<1> QED BY <1>2, <1>8 DEF p

LEMMA InsertPreserves ==
  ASSUME IInv, NEW s \in Sessions, InsertCycle(s)
  PROVE  IInv' /\ cycle[op[s].period] = "ABSENT"
<1> DEFINE p == op[s].period
<1>1. p \in Periods /\ pstatus[p] # "ABSENT" /\ cycle[p] = "ABSENT" /\ op[s].seen <= version[p]
  BY DEF InsertCycle, IInv, ReadsFresh, Ungated
<1>2. pstatus[p] \in PeriodStatus \ {"ABSENT"} /\ pstatus[p] # "CLOSED"
  BY <1>1 DEF IInv, TypeOK, PeriodAndCycleAgree
<1>3. version[p] = 0 /\ 1 \in 0..MaxVersion /\ 1 > 0
  BY <1>1, MaxVersionAssumption DEF InsertCycle, IInv, PeriodsWellFormed
<1>4. pstatus' = [pstatus EXCEPT ![p] = pstatus[p]]
  BY <1>1 DEF InsertCycle, IInv, TypeOK
<1>5. cycle' = [cycle EXCEPT ![p] = "DRAFT"] /\ version' = [version EXCEPT ![p] = 1]
      /\ op' = [op EXCEPT ![s] = Idle] /\ writer = NoSession /\ writer' = NoSession
      /\ UNCHANGED <<first, last, rev, journals, before>>
  BY DEF InsertCycle
<1>6. "DRAFT" \in CycleStatus \ {"ABSENT"}
  BY DEF CycleStatus
<1> HIDE DEF p
<1>7. IInv'
  BY <1>1, <1>2, <1>3, <1>4, <1>5, <1>6, CycleStep
<1> QED BY <1>1, <1>7 DEF p

LEMMA GateStepPreserves ==
  ASSUME IInv, NEW s \in Sessions,
         \/ \E d \in Days : EnsurePostingAllowed(s, d)
         \/ \E f, l \in Days : CreatePeriodGate(s, f, l)
         \/ \E p \in Periods : CloseGate(s, p) \/ ReopenGate(s, p)
  PROVE  IInv'
<1>1. ASSUME NEW d \in Days, EnsurePostingAllowed(s, d) PROVE IInv'
  <2>1. "post" \in Gated
    BY DEF Gated
  <2> QED BY <1>1, <2>1, GatePreserves DEF EnsurePostingAllowed
<1>2. ASSUME NEW f \in Days, NEW l \in Days, CreatePeriodGate(s, f, l) PROVE IInv'
  <2>1. "create_period" \in Gated
    BY DEF Gated
  <2> QED BY <1>2, <2>1, GatePreserves DEF CreatePeriodGate
<1>3. 1 \in Days /\ {"close", "reopen"} \subseteq Gated
  BY LastDayAssumption DEF Days, Gated
<1>4. ASSUME NEW p \in Periods, CloseGate(s, p) PROVE IInv'
  BY <1>3, <1>4, GatePreserves DEF CloseGate
<1>5. ASSUME NEW p \in Periods, ReopenGate(s, p) PROVE IInv'
  <2>1. OpenOverlapping(first[p], last[p]) \subseteq {p}
    BY <1>5 DEF ReopenGate
  <2> QED BY <1>3, <1>5, <2>1, GatePreserves DEF ReopenGate
<1> QED BY <1>1, <1>2, <1>4, <1>5

LEMMA ReadStepPreserves ==
  ASSUME IInv, NEW s \in Sessions, NEW p \in Periods,
         ReadForCycle(s, p) \/ \E c \in Ungated \ {"create_cycle"} : ReadTransition(s, c, p)
  PROVE  IInv'
<1>1. CASE ReadForCycle(s, p)
  BY <1>1, ReadPreserves DEF ReadForCycle, Ungated
<1>2. ASSUME NEW c \in Ungated \ {"create_cycle"}, ReadTransition(s, c, p) PROVE IInv'
  <2>1. cycle[p] \in Expected(c) /\ Read(s, c, p)
    BY <1>2 DEF ReadTransition
  <2>2. cycle[p] # "ABSENT"
    BY <2>1 DEF Expected, Ungated, Operational
  <2>3. pstatus[p] # "ABSENT"
    BY <2>2 DEF IInv, PeriodsWellFormed
  <2> QED BY <2>1, <2>3, ReadPreserves
<1> QED BY <1>1, <1>2

LEMMA StutterPreserves == IInv /\ UNCHANGED vars => IInv'
  BY DEF IInv, TypeOK, GateDiscipline, HolderDecided, ReadsFresh, PeriodsWellFormed,
         OpenPeriodsDisjoint, PeriodAndCycleAgree, PostingAllowed, OpenAt, ClosedAt, Covers,
         OpenOverlapping, vars

LEMMA NextPreserves == IInv /\ [Next]_vars => IInv'
<1> SUFFICES ASSUME IInv, [Next]_vars PROVE IInv'
  OBVIOUS
<1>1. CASE UNCHANGED vars
  BY <1>1, StutterPreserves
<1>2. CASE Next
  BY <1>2, AbortPreserves, GateStepPreserves, ReadStepPreserves, PostingPreserves,
     CreatePeriodPreserves, ClosePreserves, SwapPreserves, InsertPreserves DEF Next
<1> QED BY <1>1, <1>2

LEMMA InductiveInvariant == Spec => []IInv
<1>1. Init => IInv
  BY InitIInv
<1>2. IInv /\ [Next]_vars => IInv'
  BY NextPreserves
<1> QED BY <1>1, <1>2, PTL DEF Spec

-----------------------------------------------------------------------------
(* Theorems                                                                  *)

(* Every column keeps its type.                                              *)
THEOREM TypesHold == Spec => []TypeOK
<1>1. IInv => TypeOK
  BY DEF IInv
<1> QED BY <1>1, InductiveInvariant, PTL

(* No interleaving of create_period, close and reopen leaves two open        *)
(* periods of an organization that share a day.                              *)
THEOREM OpenPeriodsStayDisjoint == Spec => []OpenPeriodsDisjoint
<1>1. IInv => OpenPeriodsDisjoint
  BY DEF IInv
<1> QED BY <1>1, InductiveInvariant, PTL

(* AccountingPeriod.status and CloseCycle.status never disagree about        *)
(* whether the books are closed.                                             *)
THEOREM PeriodAndCycleStayTogether == Spec => []PeriodAndCycleAgree
<1>1. IInv => PeriodAndCycleAgree
  BY DEF IInv
<1> QED BY <1>1, InductiveInvariant, PTL

\* The step of FrozenLedger for one period.
LEMMA FrozenStep ==
  ASSUME IInv, [Next]_vars, NEW p \in Periods,
         cycle[p] \in {"READY_FOR_APPROVAL", "CLOSED"}
  PROVE  InRange(p)' = InRange(p)
<1>1. pstatus[p] # "ABSENT"
  BY DEF IInv, PeriodsWellFormed
<1>2. ASSUME UNCHANGED <<first, last, journals>> PROVE InRange(p)' = InRange(p)
  BY <1>2 DEF InRange, Covers
<1>3. ASSUME NEW s \in Sessions, RecordPosting(s) PROVE InRange(p)' = InRange(p)
  <2> DEFINE d == op[s].first
  <2>1. PostingAllowed(d) /\ first' = first /\ last' = last
    BY <1>3 DEF RecordPosting
  <2>2. PICK i \in 1..MaxJournals : journals' = journals \cup {[id |-> i, day |-> d]}
    BY <1>3 DEF RecordPosting
  <2>3. ~Covers(p, d)
    <3>1. CASE cycle[p] = "CLOSED"
      BY <2>1, <3>1 DEF IInv, PeriodAndCycleAgree, PostingAllowed, ClosedAt
    <3>2. CASE cycle[p] = "READY_FOR_APPROVAL"
      <4>1. pstatus[p] = "OPEN"
        BY <1>1, <3>2 DEF IInv, TypeOK, PeriodStatus, PeriodAndCycleAgree
      <4> QED BY <2>1, <3>2, <4>1 DEF PostingAllowed, OpenAt
    <3> QED BY <3>1, <3>2
  <2>4. [id |-> i, day |-> d].day = d
    OBVIOUS
  <2> HIDE DEF d
  <2> QED BY <2>1, <2>2, <2>3, <2>4 DEF InRange, Covers
<1>4. ASSUME NEW s \in Sessions, NEW q \in Periods, CreatePeriod(s, q) PROVE InRange(p)' = InRange(p)
  <2>1. q # p /\ first'[p] = first[p] /\ last'[p] = last[p] /\ journals' = journals
    BY <1>1, <1>4 DEF CreatePeriod, IInv, TypeOK
  <2> QED BY <2>1 DEF InRange, Covers
<1> QED BY <1>2, <1>3, <1>4 DEF Next, vars, Abort, EnsurePostingAllowed, CreatePeriodGate, CloseGate,
       ReopenGate, TakeGate, ReadForCycle, ReadTransition, Read, Close, Reopen, Swap, InsertCycle

(* period_lock.py: no journal is posted on a date of a period whose cycle is *)
(* ready for approval or closed, from either posting path.                   *)
THEOREM LedgerFrozen == Spec => FrozenLedger
<1>1. IInv /\ [Next]_vars =>
        \A p \in Periods :
          /\ cycle[p] \in {"READY_FOR_APPROVAL", "CLOSED"}
          /\ cycle'[p] \in {"READY_FOR_APPROVAL", "CLOSED"}
          => InRange(p)' = InRange(p)
  BY FrozenStep
<1> QED BY <1>1, InductiveInvariant, PTL DEF Spec, FrozenLedger

-----------------------------------------------------------------------------
(* The revision counts the postings                                          *)

\* What the count needs besides: the set counted is finite, history is made of
\* journals, and a period that does not exist yet has the column's default.
CountInv ==
    /\ RevisionCountsPostings
    /\ IsFiniteSet(journals)
    /\ \A p \in Periods : before[p] \subseteq journals /\ (pstatus[p] = "ABSENT" => rev[p] = 1)

\* Steps that leave journals, revisions and dates alone.
LEMMA CountUndisturbed ==
  ASSUME CountInv, UNCHANGED <<journals, rev, before, first, last>>,
         \A p \in Periods : pstatus[p] = "ABSENT" <=> pstatus'[p] = "ABSENT"
  PROVE  CountInv'
  BY DEF CountInv, RevisionCountsPostings, InRange, Covers

LEMMA CountPosting ==
  ASSUME IInv, CountInv, NEW s \in Sessions, RecordPosting(s)
  PROVE  CountInv'
<1> DEFINE d == op[s].first
<1>1. /\ PostingAllowed(d) /\ d \in Days
      /\ UNCHANGED <<pstatus, first, last, before>>
  BY DEF RecordPosting, IInv, TypeOK, Op
<1>2. PICK i \in 1..MaxJournals : /\ \A j \in journals : j.id # i
                                /\ journals' = journals \cup {[id |-> i, day |-> d]}
  BY DEF RecordPosting
<1> DEFINE n == [id |-> i, day |-> d]
<1>3. \/ OpenAt(d) = {} /\ rev' = rev
      \/ \E p \in OpenAt(d) : rev' = [rev EXCEPT ![p] = rev[p] + 1]
  BY DEF RecordPosting
<1>4. n \notin journals /\ n.day = d /\ journals' = journals \cup {n}
  BY <1>2
<1> HIDE DEF d, n
<1>5. IsFiniteSet(journals')
  BY <1>4, FS_AddElement DEF CountInv
<1>6. ASSUME NEW p \in Periods, pstatus[p] # "ABSENT"
      PROVE  rev'[p] = 1 + Cardinality(InRange(p)' \ before[p])
  <2> DEFINE A == InRange(p) \ before[p]
  <2>1. rev[p] = 1 + Cardinality(A) /\ n \notin A /\ rev[p] \in Nat /\ n \notin before[p]
    BY <1>4, <1>6 DEF CountInv, RevisionCountsPostings, InRange, IInv, TypeOK
  <2>2. IsFiniteSet(A)
    BY FS_Subset DEF CountInv, InRange
  <2>3. CASE Covers(p, d)
    <3>1. pstatus[p] = "OPEN"
      BY <1>1, <1>6, <2>3 DEF PostingAllowed, ClosedAt, IInv, TypeOK, PeriodStatus
    <3>2. OpenAt(d) = {p}
      <4>1. p \in OpenAt(d)
        BY <2>3, <3>1 DEF OpenAt
      <4>2. ASSUME NEW q \in OpenAt(d), q # p PROVE FALSE
        <5>1. /\ q \in Periods /\ pstatus[q] = "OPEN" /\ first[q] <= d /\ d <= last[q]
              /\ first[p] <= d /\ d <= last[p]
          BY <4>2, <2>3 DEF OpenAt, Covers
        <5>2. d \in Nat /\ \A r \in Periods : first[r] \in Nat /\ last[r] \in Nat
          BY <1>1, LastDayAssumption DEF IInv, TypeOK, Days
        <5>3. last[p] < first[q] \/ last[q] < first[p]
          BY <3>1, <4>2, <5>1 DEF IInv, OpenPeriodsDisjoint
        <5> QED BY <5>1, <5>2, <5>3
      <4> QED BY <4>1, <4>2
    <3>3. rev'[p] = rev[p] + 1
      BY <1>3, <3>2 DEF IInv, TypeOK
    <3>4. InRange(p)' \ before[p] = A \cup {n}
      BY <1>1, <1>4, <2>1, <2>3 DEF InRange, Covers
    <3>5. Cardinality(A \cup {n}) = Cardinality(A) + 1 /\ Cardinality(A) \in Nat
      BY <2>1, <2>2, FS_AddElement, FS_CardinalityType
    <3> QED BY <2>1, <3>3, <3>4, <3>5
  <2>4. CASE ~Covers(p, d)
    <3>1. p \notin OpenAt(d)
      BY <2>4 DEF OpenAt
    <3>2. rev'[p] = rev[p]
      BY <1>3, <3>1 DEF IInv, TypeOK
    <3>3. InRange(p)' = InRange(p)
      BY <1>1, <1>4, <2>4 DEF InRange, Covers
    <3> QED BY <2>1, <3>2, <3>3
  <2> QED BY <2>3, <2>4
<1>7. \A p \in Periods : pstatus[p] = "ABSENT" => rev'[p] = rev[p]
  BY <1>3 DEF OpenAt, IInv, TypeOK
<1> QED BY <1>1, <1>4, <1>5, <1>6, <1>7 DEF CountInv, RevisionCountsPostings

LEMMA CountCreate ==
  ASSUME IInv, CountInv, NEW s \in Sessions, NEW p \in Periods, CreatePeriod(s, p)
  PROVE  CountInv'
<1> DEFINE B == {j \in journals : op[s].first <= j.day /\ j.day <= op[s].last}
<1>1. /\ pstatus[p] = "ABSENT" /\ pstatus' = [pstatus EXCEPT ![p] = "OPEN"]
      /\ first' = [first EXCEPT ![p] = op[s].first] /\ last' = [last EXCEPT ![p] = op[s].last]
      /\ before' = [before EXCEPT ![p] = B] /\ UNCHANGED <<rev, journals>>
  BY DEF CreatePeriod
<1>2. /\ pstatus \in [Periods -> PeriodStatus] /\ first \in [Periods -> Days]
      /\ last \in [Periods -> Days] /\ before \in [Periods -> SUBSET Journals]
  BY DEF IInv, TypeOK
<1>3. InRange(p)' = B /\ before'[p] = B
  BY <1>1, <1>2 DEF InRange, Covers
<1>4. rev'[p] = 1 + Cardinality(InRange(p)' \ before'[p])
  <2>1. InRange(p)' \ before'[p] = {}
    BY <1>3
  <2>2. Cardinality({}) = 0
    BY FS_EmptySet
  <2>3. rev'[p] = 1
    BY <1>1 DEF CountInv
  <2> QED BY <2>1, <2>2, <2>3
<1>5. \A q \in Periods \ {p} : /\ pstatus'[q] = pstatus[q] /\ before'[q] = before[q]
                              /\ InRange(q)' = InRange(q) /\ rev'[q] = rev[q]
  BY <1>1, <1>2 DEF InRange, Covers
<1>6. before'[p] \subseteq journals' /\ pstatus'[p] # "ABSENT"
  BY <1>1, <1>2, <1>3
<1> HIDE DEF B
<1> QED BY <1>1, <1>4, <1>5, <1>6 DEF CountInv, RevisionCountsPostings

LEMMA CountNext == IInv /\ CountInv /\ [Next]_vars => CountInv'
<1> SUFFICES ASSUME IInv, CountInv, [Next]_vars PROVE CountInv'
  OBVIOUS
<1>1. CASE UNCHANGED vars
  BY <1>1, CountUndisturbed DEF vars
<1>2. ASSUME NEW s \in Sessions,
             \/ Abort(s) \/ (\E d \in Days : EnsurePostingAllowed(s, d))
             \/ (\E f, l \in Days : CreatePeriodGate(s, f, l))
             \/ \E p \in Periods : \/ CloseGate(s, p) \/ ReopenGate(s, p) \/ ReadForCycle(s, p)
                                 \/ \E c \in Ungated \ {"create_cycle"} : ReadTransition(s, c, p)
             \/ Swap(s) \/ InsertCycle(s)
      PROVE  CountInv'
  <2>1. UNCHANGED <<pstatus, journals, rev, before, first, last>>
    BY <1>2 DEF Abort, EnsurePostingAllowed, CreatePeriodGate, CloseGate, ReopenGate, TakeGate,
                ReadForCycle, ReadTransition, Read, Swap, InsertCycle
  <2> QED BY <2>1, CountUndisturbed
<1>3. ASSUME NEW s \in Sessions, Close(s) \/ Reopen(s) PROVE CountInv'
  <2> DEFINE p == op[s].period
  <2>1. p \in Periods /\ pstatus[p] # "ABSENT"
    BY <1>3 DEF Close, Reopen, Holds, IInv, HolderDecided, PeriodsWellFormed
  <2>2. \A q \in Periods : pstatus[q] = "ABSENT" <=> pstatus'[q] = "ABSENT"
    BY <1>3, <2>1 DEF Close, Reopen, IInv, TypeOK
  <2>3. UNCHANGED <<journals, rev, before, first, last>>
    BY <1>3 DEF Close, Reopen
  <2> QED BY <2>2, <2>3, CountUndisturbed
<1> QED BY <1>1, <1>2, <1>3, CountPosting, CountCreate DEF Next

(* ledger_activity_revision is the number of journals posted into the period *)
(* since it was created, plus one: no posting is missed and none counted     *)
(* twice, whatever races with it.                                            *)
THEOREM RevisionIsACount == Spec => []RevisionCountsPostings
<1>1. Init => CountInv
  <2>1. IsFiniteSet({})
    BY FS_EmptySet
  <2> QED BY <2>1 DEF Init, CountInv, RevisionCountsPostings
<1>2. IInv /\ CountInv /\ [Next]_vars => CountInv'
  BY CountNext
<1>3. CountInv => RevisionCountsPostings
  BY DEF CountInv
<1> QED BY <1>1, <1>2, <1>3, InductiveInvariant, PTL DEF Spec
=============================================================================
