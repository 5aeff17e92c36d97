----------------------------- MODULE PeriodGate -----------------------------
(***************************************************************************)
(* The accounting periods of one organization and the writers that race    *)
(* over them: posting a journal, creating a period, opening, closing,      *)
(* cancelling and reopening its close cycle (period_lock.py,               *)
(* close_service.py, ledger_service.py).                                   *)
(*                                                                         *)
(* SQLite admits one writer.  A gated call issues a no-op UPDATE first     *)
(* (acquire_period_write_gate) and so reads everything it decides on while *)
(* it already holds the writer position.  An ungated call reads first and  *)
(* takes the writer position only for its compare-and-swap.  Both take two *)
(* steps here, and other sessions may run in between.                      *)
(***************************************************************************)
EXTENDS Integers, FiniteSets

CONSTANTS
    Sessions,     \* database sessions, one per request being served
    Periods,      \* slots for AccountingPeriod rows
    LastDay,      \* the calendar is 1..LastDay
    MaxJournals,  \* bound: journals posted in all
    MaxVersion,   \* bound: CloseCycle.version
    NoSession,    \* nobody holds the writer position
    NoPeriod      \* the call is not about a period that exists

ASSUME LastDayAssumption == LastDay \in Nat /\ LastDay > 0
ASSUME MaxJournalsAssumption == MaxJournals \in Nat
ASSUME MaxVersionAssumption == MaxVersion \in Nat
ASSUME NoSessionAssumption == NoSession \notin Sessions
ASSUME NoPeriodAssumption == NoPeriod \notin Periods

VARIABLES
    pstatus,   \* AccountingPeriod.status, "ABSENT" before the row exists
    first,     \* AccountingPeriod.start_date, inclusive
    last,      \* AccountingPeriod.end_date, inclusive
    rev,       \* AccountingPeriod.ledger_activity_revision
    cycle,     \* CloseCycle.status, "ABSENT" before the row exists
    version,   \* CloseCycle.version
    journals,  \* committed Transaction rows: [id, day]
    before,    \* history: journals a period's dates already held when it was created
    writer,    \* the session holding the database's writer position
    op         \* what each session's call has read and still has to do

vars == <<pstatus, first, last, rev, cycle, version, journals, before, writer, op>>

Days == 1..LastDay
Journals == [id : 1..MaxJournals, day : Days]
PeriodStatus == {"ABSENT", "OPEN", "CLOSED"}
Operational == {"IN_PROGRESS", "BLOCKED"}
CycleStatus == {"ABSENT", "DRAFT", "READY_FOR_APPROVAL", "CLOSED", "CANCELLED"} \cup Operational
Gated == {"post", "create_period", "close", "reopen"}
Ungated == {"create_cycle", "start", "mark_ready", "return_to_work", "cancel", "restart"}

Idle == [call |-> "none", period |-> NoPeriod, first |-> 1, last |-> 1, seen |-> 0]
Op == [call : Gated \cup Ungated \cup {"none"}, period : Periods \cup {NoPeriod},
       first : Days, last : Days, seen : 0..MaxVersion]

TypeOK ==
    /\ pstatus \in [Periods -> PeriodStatus]
    /\ first \in [Periods -> Days]
    /\ last \in [Periods -> Days]
    /\ rev \in [Periods -> Nat]
    /\ cycle \in [Periods -> CycleStatus]
    /\ version \in [Periods -> 0..MaxVersion]
    /\ journals \in SUBSET Journals
    /\ before \in [Periods -> SUBSET Journals]
    /\ writer \in Sessions \cup {NoSession}
    /\ op \in [Sessions -> Op]

Init ==
    /\ pstatus = [p \in Periods |-> "ABSENT"]
    /\ first = [p \in Periods |-> 1]
    /\ last = [p \in Periods |-> 1]
    /\ rev = [p \in Periods |-> 1]
    /\ cycle = [p \in Periods |-> "ABSENT"]
    /\ version = [p \in Periods |-> 0]
    /\ journals = {}
    /\ before = [p \in Periods |-> {}]
    /\ writer = NoSession
    /\ op = [s \in Sessions |-> Idle]

-----------------------------------------------------------------------------
(* What the queries of the gate and of the overlap check select.           *)

Covers(p, d) == first[p] <= d /\ d <= last[p]
\* A mutant: the end date is excluded.
OpenAtExclusive(d) == {p \in Periods : pstatus[p] = "OPEN" /\ first[p] <= d /\ d < last[p]}
OpenAt(d) == {p \in Periods : pstatus[p] = "OPEN" /\ Covers(p, d)}
ClosedAt(d) == {p \in Periods : pstatus[p] = "CLOSED" /\ Covers(p, d)}
OpenOverlapping(f, l) == {p \in Periods : pstatus[p] = "OPEN" /\ first[p] <= l /\ last[p] >= f}
InRange(p) == {j \in journals : Covers(p, j.day)}

\* A mutant: only closed periods refuse journals.
PostingAllowedWhileReady(d) == ClosedAt(d) = {}

PostingAllowed(d) ==
    /\ ClosedAt(d) = {}
    /\ \A p \in OpenAt(d) : cycle[p] # "READY_FOR_APPROVAL"

GateFree(s) == writer = NoSession /\ op[s] = Idle

\* Begin a call that holds the writer position until it commits or rolls back.
TakeGate(s, c, p, f, l) ==
    /\ GateFree(s)
    /\ writer' = s
    /\ op' = [op EXCEPT ![s] = [call |-> c, period |-> p, first |-> f, last |-> l, seen |-> 0]]
    /\ UNCHANGED <<pstatus, first, last, rev, cycle, version, journals, before>>

Holds(s, c) == writer = s /\ op[s].call = c

Release(s) ==
    /\ writer' = NoSession
    /\ op' = [op EXCEPT ![s] = Idle]

\* Any exception, a refused validation, a busy timeout: the session rolls back.
Abort(s) ==
    /\ op[s] # Idle
    /\ op' = [op EXCEPT ![s] = Idle]
    /\ writer' = IF writer = s THEN NoSession ELSE writer
    /\ UNCHANGED <<pstatus, first, last, rev, cycle, version, journals, before>>

-----------------------------------------------------------------------------
(* Posting: LedgerService.post_transaction and the auto-post branch of      *)
(* WorkflowService.process_transactions.                                    *)

\* ensure_posting_allowed, then validation under the gate.
EnsurePostingAllowed(s, d) ==
    /\ PostingAllowed(d)
    /\ TakeGate(s, "post", NoPeriod, d, d)

\* record_posting_activity checks again, advances the open period's revision,
\* and the journal is inserted and committed with it.
RecordPosting(s) ==
    /\ Holds(s, "post")
    /\ Cardinality(journals) < MaxJournals
    /\ LET d == op[s].first IN
       /\ PostingAllowed(d)
       /\ \E i \in 1..MaxJournals :
            /\ \A j \in journals : j.id # i
            /\ journals' = journals \cup {[id |-> i, day |-> d]}
       /\ \/ OpenAt(d) = {} /\ rev' = rev
          \/ \E p \in OpenAt(d) : rev' = [rev EXCEPT ![p] = @ + 1]
    /\ Release(s)
    /\ UNCHANGED <<pstatus, first, last, cycle, version, before>>

-----------------------------------------------------------------------------
(* Periods.                                                                 *)

CreatePeriodGate(s, f, l) ==
    /\ f <= l
    /\ OpenOverlapping(f, l) = {}
    /\ TakeGate(s, "create_period", NoPeriod, f, l)

CreatePeriod(s, p) ==
    /\ Holds(s, "create_period")
    /\ pstatus[p] = "ABSENT"
    /\ pstatus' = [pstatus EXCEPT ![p] = "OPEN"]
    /\ first' = [first EXCEPT ![p] = op[s].first]
    /\ last' = [last EXCEPT ![p] = op[s].last]
    /\ before' = [before EXCEPT ![p] =
                    {j \in journals : op[s].first <= j.day /\ j.day <= op[s].last}]
    /\ Release(s)
    /\ UNCHANGED <<rev, cycle, version, journals>>

-----------------------------------------------------------------------------
(* Close cycles.  Whether the readiness checks find a blocker is left open   *)
(* here: the call may always abort instead.                                  *)

CloseGate(s, p) ==
    /\ cycle[p] = "READY_FOR_APPROVAL"
    /\ TakeGate(s, "close", p, 1, 1)

Close(s) ==
    /\ Holds(s, "close")
    /\ LET p == op[s].period IN
       /\ version[p] < MaxVersion
       /\ cycle' = [cycle EXCEPT ![p] = "CLOSED"]
       /\ version' = [version EXCEPT ![p] = @ + 1]
       /\ pstatus' = [pstatus EXCEPT ![p] = "CLOSED"]
    /\ Release(s)
    /\ UNCHANGED <<first, last, rev, journals, before>>

\* A mutant: the periods created since the close are forgotten.
ReopenGateUnchecked(s, p) ==
    /\ cycle[p] = "CLOSED"
    /\ TakeGate(s, "reopen", p, 1, 1)

ReopenGate(s, p) ==
    /\ cycle[p] = "CLOSED"
    /\ OpenOverlapping(first[p], last[p]) \ {p} = {}
    /\ TakeGate(s, "reopen", p, 1, 1)

Reopen(s) ==
    /\ Holds(s, "reopen")
    /\ LET p == op[s].period IN
       /\ version[p] < MaxVersion
       /\ cycle' = [cycle EXCEPT ![p] = "IN_PROGRESS"]
       /\ version' = [version EXCEPT ![p] = @ + 1]
       /\ pstatus' = [pstatus EXCEPT ![p] = "OPEN"]
    /\ Release(s)
    /\ UNCHANGED <<first, last, rev, journals, before>>

\* The states _transition accepts, and the one it sets, for each ungated call.
Expected(c) ==
    CASE c = "start" -> {"DRAFT"}
      [] c = "mark_ready" -> Operational
      [] c = "return_to_work" -> {"READY_FOR_APPROVAL"}
      [] c = "cancel" -> {"DRAFT"} \cup Operational
      [] c = "restart" -> {"CANCELLED"}

\* A mutant: a status no other handler knows.
TargetMisspelled(c) ==
    CASE c = "mark_ready" -> "READY_FOR_APPROVAL"
      [] c = "cancel" -> "CANCELED"
      [] OTHER -> "IN_PROGRESS"

Target(c) ==
    CASE c = "mark_ready" -> "READY_FOR_APPROVAL"
      [] c = "cancel" -> "CANCELLED"
      [] OTHER -> "IN_PROGRESS"

\* An ungated call reads without the writer position, so others may commit
\* between this step and its Swap or InsertCycle.
Read(s, c, p) ==
    /\ op[s] = Idle
    /\ op' = [op EXCEPT ![s] = [call |-> c, period |-> p, first |-> 1, last |-> 1,
                                seen |-> version[p]]]
    /\ UNCHANGED <<pstatus, first, last, rev, cycle, version, journals, before, writer>>

ReadTransition(s, c, p) ==
    /\ cycle[p] \in Expected(c)
    /\ c = "restart" => pstatus[p] = "OPEN"
    /\ Read(s, c, p)

\* A mutant: the status is checked when it is read and the version not at all.
SwapUnversioned(s) ==
    /\ op[s].call \in Ungated \ {"create_cycle"}
    /\ writer = NoSession
    /\ LET p == op[s].period IN
       /\ version[p] < MaxVersion
       /\ cycle' = [cycle EXCEPT ![p] = Target(op[s].call)]
       /\ version' = [version EXCEPT ![p] = @ + 1]
    /\ op' = [op EXCEPT ![s] = Idle]
    /\ UNCHANGED <<pstatus, first, last, rev, journals, before, writer>>

Swap(s) ==
    /\ op[s].call \in Ungated \ {"create_cycle"}
    /\ writer = NoSession
    /\ LET p == op[s].period IN
       /\ version[p] = op[s].seen
       /\ version[p] < MaxVersion
       /\ cycle' = [cycle EXCEPT ![p] = Target(op[s].call)]
       /\ version' = [version EXCEPT ![p] = @ + 1]
    /\ op' = [op EXCEPT ![s] = Idle]
    /\ UNCHANGED <<pstatus, first, last, rev, journals, before, writer>>

ReadForCycle(s, p) ==
    /\ pstatus[p] = "OPEN"
    /\ cycle[p] = "ABSENT"
    /\ Read(s, "create_cycle", p)

\* CloseCycle.period_id is unique: the second insert fails and rolls back.
InsertCycle(s) ==
    /\ op[s].call = "create_cycle"
    /\ writer = NoSession
    /\ LET p == op[s].period IN
       /\ cycle[p] = "ABSENT"
       /\ cycle' = [cycle EXCEPT ![p] = "DRAFT"]
       /\ version' = [version EXCEPT ![p] = 1]
    /\ MaxVersion > 0
    /\ op' = [op EXCEPT ![s] = Idle]
    /\ UNCHANGED <<pstatus, first, last, rev, journals, before, writer>>

-----------------------------------------------------------------------------
Next ==
    \E s \in Sessions :
        \/ Abort(s)
        \/ \E d \in Days : EnsurePostingAllowed(s, d)
        \/ RecordPosting(s)
        \/ \E f, l \in Days : CreatePeriodGate(s, f, l)
        \/ \E p \in Periods :
            \/ CreatePeriod(s, p)
            \/ CloseGate(s, p)
            \/ ReopenGate(s, p)
            \/ ReadForCycle(s, p)
            \/ \E c \in Ungated \ {"create_cycle"} : ReadTransition(s, c, p)
        \/ Close(s)
        \/ Reopen(s)
        \/ Swap(s)
        \/ InsertCycle(s)

Spec == Init /\ [][Next]_vars

-----------------------------------------------------------------------------
(* No two open periods share a day, however create_period, close and reopen *)
(* interleave (a period may be created over a closed one, and then that one *)
(* must not reopen): the posting guard takes the first open period it finds. *)
OpenPeriodsDisjoint ==
    \A p, q \in Periods :
        p # q /\ pstatus[p] = "OPEN" /\ pstatus[q] = "OPEN" => last[p] < first[q] \/ last[q] < first[p]

(* A period is closed exactly while its cycle is: the two rows are written   *)
(* by different calls and only close and reopen move both.                   *)
PeriodAndCycleAgree ==
    \A p \in Periods : pstatus[p] = "CLOSED" <=> cycle[p] = "CLOSED"

(* ledger_activity_revision counts the journals posted into the period since *)
(* it was created: every posting whose date it covers advances it by one,    *)
(* none is missed by a racing create, close or reopen, none is counted twice. *)
RevisionCountsPostings ==
    \A p \in Periods :
        pstatus[p] # "ABSENT" => rev[p] = 1 + Cardinality(InRange(p) \ before[p])

(* While a period's cycle stays ready for approval or closed, no journal     *)
(* appears on a date it covers.                                              *)
FrozenLedger ==
    [][\A p \in Periods :
        /\ cycle[p] \in {"READY_FOR_APPROVAL", "CLOSED"}
        /\ cycle'[p] \in {"READY_FOR_APPROVAL", "CLOSED"}
        => InRange(p)' = InRange(p)]_vars
=============================================================================
