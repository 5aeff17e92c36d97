----------------------------- MODULE CloseCycle -----------------------------
(***************************************************************************)
(* One accounting period, its close cycle and the controls the cycle       *)
(* collects: reconciliations, the latest variance run, journal approvals,  *)
(* checklist tasks and evidence (close_service.py,                         *)
(* reconciliation_service.py, close_evidence_service.py, period_lock.py).  *)
(*                                                                         *)
(* A call on the cycle takes up to three steps, and other sessions run     *)
(* between them, since none holds SQLite's writer position while it reads: *)
(*   Begin   reads the cycle and its period,                               *)
(*   Look*   reads the rows, the ledger or the report it decides on,       *)
(*   last    compare-and-swaps content_revision (and the row's version) on *)
(*           what was read, and commits; a mismatch rolls everything back. *)
(* Posting, close and reopen read under the write gate and are one step    *)
(* (PeriodGate has their two halves).                                      *)
(*                                                                         *)
(* Begin reads the cycle first and the period just after it; one step is   *)
(* enough, because whatever moves between the two reads either leaves the  *)
(* cycle alone or moves content_revision and fails the swap.               *)
(***************************************************************************)
EXTENDS Integers, FiniteSets

CONSTANTS
    Sessions,          \* database sessions
    Users, Admins,     \* ledger managers, and the administrators among them
    Accounts,          \* policy required_reconciliation_account_ids
    Journals,          \* journals that may be posted into the period
    CustomTasks,       \* possible required custom checklist tasks
    VarianceRequired,  \* policy variance_review_required
    AllTransactions,   \* policy journal_approval_mode = ALL_PERIOD_TRANSACTIONS
    DerivedStatuses,   \* what _derive_reconciliation_status may return
    TaskCap,           \* MAX_CUSTOM_CLOSE_TASKS
    ApprovalCap,       \* MAX_JOURNAL_APPROVALS_PER_CYCLE
    Requests,          \* bound: the calls clients make on the cycle
    CachedReports,     \* whether clients ask for variances with refresh=false
    MaxEarlier,        \* bound: journals posted on dates before the period
    MaxStaged,         \* bound: unresolved staged journals at a time
    MaxContent,        \* bound: CloseCycle.content_revision
    NoOne              \* no user, no row, no item

ASSUME AdminsAssumption == Admins \subseteq Users
ASSUME NoOneAssumption ==
    NoOne \notin Users \cup Accounts \cup Journals \cup CustomTasks \cup {"attestation"}
ASSUME PolicyAssumption ==
    VarianceRequired \in BOOLEAN /\ AllTransactions \in BOOLEAN /\ CachedReports \in BOOLEAN
ASSUME StatusAssumption ==
    DerivedStatuses \subseteq {"UNSTARTED", "MATCHED", "IN_PROGRESS", "EXCEPTION"}
ASSUME BoundsAssumption ==
    /\ TaskCap \in Nat /\ ApprovalCap \in Nat /\ MaxEarlier \in Nat
    /\ MaxStaged \in Nat /\ MaxContent \in Nat /\ MaxContent > 0
ASSUME RequestsAssumption ==
    Requests \subseteq
      {"start", "mark_ready", "return_to_work", "cancel", "restart",
       "create_custom_task", "update_manual_task", "prepare_reconciliation",
       "approve_reconciliation", "materialize_variances", "update_variance",
       "request_approval", "decide_approval", "record_generation"}
ASSUME CustomTasksAssumption == "attestation" \notin CustomTasks

VARIABLES
    status,     \* CloseCycle.status
    content,    \* CloseCycle.content_revision
    pstatus,    \* AccountingPeriod.status
    lrev,       \* AccountingPeriod.ledger_activity_revision
    posted,     \* Transaction rows dated in the period
    earlier,    \* how many were posted on dates before the period meanwhile
    staged,     \* staged journals of the period that are not POSTED
    recs,       \* AccountReconciliation rows
    run,        \* the latest VarianceReviewRun and its one row
    cached,     \* ledger state behind the latest persisted budget report, 0: none
    approvals,  \* JournalApproval rows
    tasks,      \* CloseChecklistTask rows that are completed by hand
    evidence,   \* the latest CloseEvidence row
    op          \* what each session's call has read

cycleVars == <<status, content>>
periodVars == <<pstatus, lrev, posted, earlier, staged>>
Controls == <<recs, run, approvals, tasks>>
vars == <<cycleVars, periodVars, Controls, cached, evidence, op>>

-----------------------------------------------------------------------------
(* The rows.  A balance or a report is represented by the state of the       *)
(* ledger it was computed from.                                              *)

\* The ledger through the period's end date: what balances and reports read.
LedgerState == lrev + earlier

Operational == {"IN_PROGRESS", "BLOCKED"}
CycleStatus == {"DRAFT", "READY_FOR_APPROVAL", "CLOSED", "CANCELLED"} \cup Operational
Tasks == CustomTasks \cup {"attestation"}
Items == Accounts \cup Journals \cup Tasks \cup {NoOne}
SomeUser == Users \cup {NoOne}

Rec == [status : DerivedStatuses \cup {"ABSENT", "APPROVED"}, rev : Nat, basis : Nat,
        preparer : SomeUser, approver : SomeUser, version : Nat]
Run == [rev : Nat, basis : Nat, fresh : BOOLEAN, material : BOOLEAN, resolved : BOOLEAN,
        version : Nat]  \* fresh: the report was computed for this run
Approval == [status : {"ABSENT", "REQUESTED", "APPROVED", "REJECTED", "REVOKED"},
             requestor : SomeUser, decider : SomeUser, version : Nat]
Task == [status : {"ABSENT", "PENDING", "COMPLETE"}, version : Nat]
Evidence == [content : Nat, rev : Nat, basis : Nat, final : BOOLEAN]

Transitions == {"start", "mark_ready", "return_to_work", "cancel", "restart"}
Calls == Transitions \cup
    {"create_custom_task", "update_manual_task", "prepare_reconciliation",
     "approve_reconciliation", "materialize_variances", "update_variance",
     "request_approval", "decide_approval", "record_generation"}

Values == DerivedStatuses \cup
    {"none", "PENDING", "COMPLETE", "resolved", "unresolved", "APPROVED", "REJECTED", "REVOKED",
     "fresh", "cached"}

Idle == [call |-> "none", user |-> NoOne, item |-> NoOne, looked |-> FALSE, status |-> "DRAFT",
         content |-> 0, rev |-> 0, basis |-> 0, version |-> 0, value |-> "none"]
Op == [call : Calls \cup {"none"}, user : SomeUser, item : Items, looked : BOOLEAN,
       status : CycleStatus, content : Nat, rev : Nat, basis : Nat, version : Nat, value : Values]

TypeOK ==
    /\ status \in CycleStatus
    /\ content \in Nat
    /\ pstatus \in {"OPEN", "CLOSED"}
    /\ lrev \in Nat
    /\ posted \in SUBSET Journals
    /\ earlier \in Nat
    /\ staged \in Nat
    /\ recs \in [Accounts -> Rec]
    /\ run \in Run
    /\ cached \in Nat
    /\ approvals \in [Journals -> Approval]
    /\ tasks \in [Tasks -> Task]
    /\ evidence \in Evidence
    /\ op \in [Sessions -> Op]

NoRec == [status |-> "ABSENT", rev |-> 0, basis |-> 0, preparer |-> NoOne, approver |-> NoOne,
          version |-> 0]
NoRun == [rev |-> 0, basis |-> 0, fresh |-> FALSE, material |-> FALSE, resolved |-> FALSE,
          version |-> 0]
NoApproval == [status |-> "ABSENT", requestor |-> NoOne, decider |-> NoOne, version |-> 0]
NoEvidence == [content |-> 0, rev |-> 0, basis |-> 0, final |-> FALSE]

\* create_cycle has just committed a DRAFT cycle with its default checklist.
Init ==
    /\ status = "DRAFT" /\ content = 1
    /\ pstatus = "OPEN" /\ lrev = 1
    /\ posted = {} /\ earlier = 0 /\ staged = 0
    /\ recs = [a \in Accounts |-> NoRec]
    /\ run = NoRun
    /\ cached = 0
    /\ approvals = [j \in Journals |-> NoApproval]
    /\ tasks = [t \in Tasks |-> IF t = "attestation" THEN [status |-> "PENDING", version |-> 1]
                                                     ELSE [status |-> "ABSENT", version |-> 0]]
    /\ evidence = NoEvidence
    /\ op = [s \in Sessions |-> Idle]

-----------------------------------------------------------------------------
(* Readiness                                                                 *)

RecsApproved(rev) == \A a \in Accounts : recs[a].status = "APPROVED" /\ recs[a].rev = rev

VariancesReviewed(rev) ==
    VarianceRequired => run.version > 0 /\ run.rev = rev /\ (run.material => run.resolved)

ApprovalsComplete ==
    /\ \A j \in Journals : approvals[j].status \in {"ABSENT", "APPROVED"}
    /\ AllTransactions => \A j \in posted : approvals[j].status = "APPROVED"

TasksComplete == \A t \in Tasks : tasks[t].status # "PENDING"

EvidenceCurrent(cont, rev) == evidence.content = cont /\ evidence.rev = rev

\* No readiness blocker, for a cycle row and a period row as they were read.
\* The trial balance never blocks: every journal is validated balanced.
Ready(st, cont, rev) ==
    /\ st # "DRAFT"
    /\ staged = 0
    /\ RecsApproved(rev)
    /\ VariancesReviewed(rev)
    /\ ApprovalsComplete
    /\ TasksComplete
    /\ st = "READY_FOR_APPROVAL" => EvidenceCurrent(cont, rev)

-----------------------------------------------------------------------------
(* The steps of a call                                                       *)

\* The cycle statuses a call accepts (require_cycle_mutation, _transition).
Allowed(c) ==
    CASE c = "start" -> {"DRAFT"}
      [] c = "return_to_work" -> {"READY_FOR_APPROVAL"}
      [] c \in {"cancel", "create_custom_task"} -> {"DRAFT"} \cup Operational
      [] c = "restart" -> {"CANCELLED"}
      [] c = "record_generation" -> {"DRAFT", "READY_FOR_APPROVAL"} \cup Operational
      [] OTHER -> Operational

ItemsOf(c) ==
    CASE c \in {"prepare_reconciliation", "approve_reconciliation"} -> Accounts
      [] c \in {"request_approval", "decide_approval"} -> Journals
      [] c = "create_custom_task" -> CustomTasks
      [] c = "update_manual_task" -> Tasks
      [] OTHER -> {NoOne}

\* The actor is kept where a later guard compares it.  Calls that only an
\* administrator may make need no more than that there is one.
ActorsOf(c) ==
    CASE c \in {"prepare_reconciliation", "approve_reconciliation",
                "request_approval", "decide_approval"} -> Users
      [] c \in {"return_to_work", "cancel", "restart"} /\ Admins = {} -> {}
      [] OTHER -> {NoOne}

Begin(s, u, c, i) ==
    /\ op[s] = Idle
    /\ status \in Allowed(c)
    /\ u \in ActorsOf(c)
    /\ i \in ItemsOf(c)
    /\ c = "restart" => pstatus = "OPEN"
    /\ op' = [op EXCEPT ![s] = [Idle EXCEPT !.call = c, !.user = u, !.item = i,
                !.status = status, !.content = content, !.rev = lrev]]
    /\ UNCHANGED <<cycleVars, periodVars, Controls, cached, evidence>>

\* The call is refused, conflicts, or times out on the writer: it rolls back.
Abort(s) ==
    /\ op[s] # Idle
    /\ op' = [op EXCEPT ![s] = Idle]
    /\ UNCHANGED <<cycleVars, periodVars, Controls, cached, evidence>>

Looks(s, c) == op[s].call = c /\ ~op[s].looked

Saw(s, basis, ver, val) ==
    /\ op' = [op EXCEPT ![s] = [@ EXCEPT !.looked = TRUE, !.basis = basis,
                                         !.version = ver, !.value = val]]
    /\ UNCHANGED <<cycleVars, periodVars, Controls, evidence>>

LookReady(s) ==
    /\ Looks(s, "mark_ready")
    /\ Ready(op[s].status, op[s].content, op[s].rev)
    /\ Saw(s, 0, 0, "none")
    /\ UNCHANGED cached

LookPrepare(s) ==
    /\ Looks(s, "prepare_reconciliation")
    /\ \E st \in DerivedStatuses : Saw(s, LedgerState, recs[op[s].item].version, st)
    /\ UNCHANGED cached

LookApproveRec(s) ==
    /\ Looks(s, "approve_reconciliation")
    /\ LET r == recs[op[s].item] IN
       /\ r.status \in {"MATCHED", "IN_PROGRESS"}
       /\ r.rev = op[s].rev
       /\ r.preparer # op[s].user
       /\ Saw(s, 0, r.version, "none")
    /\ UNCHANGED cached

\* budget_vs_actual: a fresh report is persisted and committed on its own.
LookVariances(s) ==
    /\ Looks(s, "materialize_variances")
    /\ \/ /\ Saw(s, LedgerState, 0, "fresh")
          /\ cached' = LedgerState
       \/ /\ CachedReports /\ cached # 0
          /\ Saw(s, cached, 0, "cached")
          /\ UNCHANGED cached

LookVariance(s) ==
    /\ Looks(s, "update_variance")
    /\ run.version > 0
    /\ \E d \in {"resolved", "unresolved"} : Saw(s, 0, run.version, d)
    /\ UNCHANGED cached

LookRequest(s) ==
    /\ Looks(s, "request_approval")
    /\ op[s].item \in posted
    /\ LET a == approvals[op[s].item] IN
       /\ a.status \notin {"REQUESTED", "APPROVED"}
       /\ a.status = "ABSENT" =>
            Cardinality({j \in Journals : approvals[j].status # "ABSENT"}) < ApprovalCap
       /\ Saw(s, 0, a.version, "none")
    /\ UNCHANGED cached

LookDecide(s) ==
    /\ Looks(s, "decide_approval")
    /\ LET a == approvals[op[s].item] IN
       \/ /\ a.status = "REQUESTED" /\ a.requestor # op[s].user
          /\ Saw(s, 0, a.version, "APPROVED")
       \/ a.status = "REQUESTED" /\ Saw(s, 0, a.version, "REJECTED")
       \/ /\ a.status = "APPROVED" /\ op[s].user \in Admins
          /\ Saw(s, 0, a.version, "REVOKED")
    /\ UNCHANGED cached

LookTask(s) ==
    /\ Looks(s, "update_manual_task")
    /\ tasks[op[s].item].status # "ABSENT"
    /\ \E st \in {"PENDING", "COMPLETE"} : Saw(s, 0, tasks[op[s].item].version, st)
    /\ UNCHANGED cached

LookNewTask(s) ==
    /\ Looks(s, "create_custom_task")
    /\ tasks[op[s].item].status = "ABSENT"
    /\ Cardinality({t \in CustomTasks : tasks[t].status # "ABSENT"}) < TaskCap
    /\ Saw(s, 0, 0, "none")
    /\ UNCHANGED cached

\* build_bundle
LookEvidence(s) ==
    /\ Looks(s, "record_generation")
    /\ Saw(s, LedgerState, 0, "none")
    /\ UNCHANGED cached

-----------------------------------------------------------------------------
(* The last step: compare, swap and commit                                   *)

Swaps(s, c) == op[s].call = c /\ op[s].looked /\ content = op[s].content

\* A mutant: the revision is compared but not advanced.
BumpNothing(s) ==
    /\ op' = [op EXCEPT ![s] = Idle]
    /\ UNCHANGED <<status, content, periodVars, cached, evidence>>

\* bump_content_revision, in the transaction of the row it protects.
BumpContent(s) ==
    /\ content < MaxContent
    /\ content' = content + 1
    /\ op' = [op EXCEPT ![s] = Idle]
    /\ UNCHANGED <<status, periodVars, cached, evidence>>

\* A mutant: a status no other handler knows.
TargetMisspelled(c) ==
    CASE c = "mark_ready" -> "READY_FOR_APPROVAL"
      [] c = "cancel" -> "CANCELED"
      [] OTHER -> "IN_PROGRESS"

Target(c) ==
    CASE c = "mark_ready" -> "READY_FOR_APPROVAL"
      [] c = "cancel" -> "CANCELLED"
      [] OTHER -> "IN_PROGRESS"

\* _transition.  CloseCycle.version moves only here and with content_revision,
\* so the swap on content_revision stands for both.
Transition(s) ==
    /\ op[s].call \in Transitions
    /\ op[s].call = "mark_ready" => op[s].looked
    /\ content = op[s].content
    /\ content < MaxContent
    /\ status' = Target(op[s].call)
    /\ content' = content + 1
    /\ op' = [op EXCEPT ![s] = Idle]
    /\ UNCHANGED <<periodVars, Controls, cached, evidence>>

\* A mutant: the period is read again when the row is written.
SaveReconciliationRereading(s) ==
    /\ Swaps(s, "prepare_reconciliation")
    /\ LET a == op[s].item IN
       /\ recs[a].version = op[s].version
       /\ recs' = [recs EXCEPT ![a] =
            [status |-> op[s].value, rev |-> lrev, basis |-> op[s].basis,
             preparer |-> op[s].user, approver |-> NoOne, version |-> op[s].version + 1]]
    /\ BumpContent(s)
    /\ UNCHANGED <<run, approvals, tasks>>

SaveReconciliation(s) ==
    /\ Swaps(s, "prepare_reconciliation")
    /\ LET a == op[s].item IN
       /\ recs[a].version = op[s].version
       /\ recs' = [recs EXCEPT ![a] =
            [status |-> op[s].value, rev |-> op[s].rev, basis |-> op[s].basis,
             preparer |-> op[s].user, approver |-> NoOne, version |-> op[s].version + 1]]
    /\ BumpContent(s)
    /\ UNCHANGED <<run, approvals, tasks>>

\* A mutant: neither revision is compared.
ApproveReconciliationBlindly(s) ==
    /\ op[s].call = "approve_reconciliation" /\ op[s].looked
    /\ LET a == op[s].item IN
       recs' = [recs EXCEPT ![a].status = "APPROVED", ![a].approver = op[s].user,
                            ![a].version = @ + 1]
    /\ BumpContent(s)
    /\ UNCHANGED <<run, approvals, tasks>>

ApproveReconciliation(s) ==
    /\ Swaps(s, "approve_reconciliation")
    /\ LET a == op[s].item IN
       /\ recs[a].version = op[s].version
       /\ recs' = [recs EXCEPT ![a].status = "APPROVED", ![a].approver = op[s].user,
                               ![a].version = op[s].version + 1]
    /\ BumpContent(s)
    /\ UNCHANGED <<run, approvals, tasks>>

\* A mutant: the period is read again after the report.
MaterializeVariancesRereading(s) ==
    /\ Swaps(s, "materialize_variances")
    /\ \E material \in BOOLEAN :
        run' = [rev |-> lrev, basis |-> op[s].basis, fresh |-> (op[s].value = "fresh"),
                material |-> material, resolved |-> FALSE, version |-> 1]
    /\ BumpContent(s)
    /\ UNCHANGED <<recs, approvals, tasks>>

MaterializeVariances(s) ==
    /\ Swaps(s, "materialize_variances")
    /\ \E material \in BOOLEAN :
        run' = [rev |-> op[s].rev, basis |-> op[s].basis, fresh |-> (op[s].value = "fresh"),
                material |-> material, resolved |-> FALSE, version |-> 1]
    /\ BumpContent(s)
    /\ UNCHANGED <<recs, approvals, tasks>>

UpdateVariance(s) ==
    /\ Swaps(s, "update_variance")
    /\ run.version = op[s].version
    /\ run' = [run EXCEPT !.resolved = (op[s].value = "resolved"), !.version = op[s].version + 1]
    /\ BumpContent(s)
    /\ UNCHANGED <<recs, approvals, tasks>>

RequestApproval(s) ==
    /\ Swaps(s, "request_approval")
    /\ LET j == op[s].item IN
       /\ approvals[j].version = op[s].version
       /\ approvals' = [approvals EXCEPT ![j] =
            [status |-> "REQUESTED", requestor |-> op[s].user, decider |-> NoOne,
             version |-> op[s].version + 1]]
    /\ BumpContent(s)
    /\ UNCHANGED <<recs, run, tasks>>

\* A mutant: neither revision is compared.
DecideApprovalBlindly(s) ==
    /\ op[s].call = "decide_approval" /\ op[s].looked
    /\ LET j == op[s].item IN
       approvals' = [approvals EXCEPT ![j].status = op[s].value, ![j].decider = op[s].user,
                                      ![j].version = @ + 1]
    /\ BumpContent(s)
    /\ UNCHANGED <<recs, run, tasks>>

DecideApproval(s) ==
    /\ Swaps(s, "decide_approval")
    /\ LET j == op[s].item IN
       /\ approvals[j].version = op[s].version
       /\ approvals' = [approvals EXCEPT ![j].status = op[s].value, ![j].decider = op[s].user,
                                         ![j].version = op[s].version + 1]
    /\ BumpContent(s)
    /\ UNCHANGED <<recs, run, tasks>>

UpdateManualTask(s) ==
    /\ Swaps(s, "update_manual_task")
    /\ LET t == op[s].item IN
       /\ tasks[t].version = op[s].version
       /\ tasks' = [tasks EXCEPT ![t] = [status |-> op[s].value, version |-> op[s].version + 1]]
    /\ BumpContent(s)
    /\ UNCHANGED <<recs, run, approvals>>

\* A mutant: the count and the insert are not one decision.
CreateCustomTaskUnswapped(s) ==
    /\ op[s].call = "create_custom_task" /\ op[s].looked
    /\ tasks' = [tasks EXCEPT ![op[s].item] = [status |-> "PENDING", version |-> 1]]
    /\ BumpContent(s)
    /\ UNCHANGED <<recs, run, approvals>>

CreateCustomTask(s) ==
    /\ Swaps(s, "create_custom_task")
    /\ tasks' = [tasks EXCEPT ![op[s].item] = [status |-> "PENDING", version |-> 1]]
    /\ BumpContent(s)
    /\ UNCHANGED <<recs, run, approvals>>

\* A mutant: the period's revision is stamped but not compared.
RecordGenerationUnlocked(s) ==
    /\ Swaps(s, "record_generation")
    /\ status = op[s].status
    /\ evidence' = [content |-> content, rev |-> lrev, basis |-> op[s].basis, final |-> FALSE]
    /\ op' = [op EXCEPT ![s] = Idle]
    /\ UNCHANGED <<cycleVars, periodVars, Controls, cached>>

\* Draft evidence is conditional on the status and both revisions; it is not a
\* change of the cycle's content.
RecordGeneration(s) ==
    /\ Swaps(s, "record_generation")
    /\ status = op[s].status
    /\ lrev = op[s].rev
    /\ evidence' = [content |-> content, rev |-> lrev, basis |-> op[s].basis, final |-> FALSE]
    /\ op' = [op EXCEPT ![s] = Idle]
    /\ UNCHANGED <<cycleVars, periodVars, Controls, cached>>

-----------------------------------------------------------------------------
(* Calls under the write gate                                                *)

\* A mutant: the readiness found by mark_ready is trusted.
CloseUnchecked ==
    /\ Admins # {}
    /\ status = "READY_FOR_APPROVAL"
    /\ content < MaxContent
    /\ status' = "CLOSED"
    /\ content' = content + 1
    /\ pstatus' = "CLOSED"
    /\ evidence' = [content |-> content + 1, rev |-> lrev, basis |-> LedgerState, final |-> TRUE]
    /\ UNCHANGED <<lrev, posted, earlier, staged, Controls, cached, op>>

\* A mutant: the bundle is built before the cycle moves.
CloseEarlyBundle ==
    /\ Admins # {}
    /\ status = "READY_FOR_APPROVAL"
    /\ Ready(status, content, lrev)
    /\ content < MaxContent
    /\ status' = "CLOSED"
    /\ content' = content + 1
    /\ pstatus' = "CLOSED"
    /\ evidence' = [content |-> content, rev |-> lrev, basis |-> LedgerState, final |-> TRUE]
    /\ UNCHANGED <<lrev, posted, earlier, staged, Controls, cached, op>>

\* Cycle, period, checklist and final evidence move in one transaction.
Close ==
    /\ Admins # {}
    /\ status = "READY_FOR_APPROVAL"
    /\ Ready(status, content, lrev)
    /\ content < MaxContent
    /\ status' = "CLOSED"
    /\ content' = content + 1
    /\ pstatus' = "CLOSED"
    /\ evidence' = [content |-> content + 1, rev |-> lrev, basis |-> LedgerState, final |-> TRUE]
    /\ UNCHANGED <<lrev, posted, earlier, staged, Controls, cached, op>>

\* The overlap check of reopen is PeriodGate's.
Reopen ==
    /\ Admins # {}
    /\ status = "CLOSED"
    /\ content < MaxContent
    /\ status' = "IN_PROGRESS"
    /\ content' = content + 1
    /\ pstatus' = "OPEN"
    /\ UNCHANGED <<lrev, posted, earlier, staged, Controls, cached, evidence, op>>

\* A mutant: only closed periods refuse journals.
PostWhileReady(j) ==
    /\ j \notin posted
    /\ pstatus = "OPEN"
    /\ posted' = posted \cup {j}
    /\ lrev' = lrev + 1
    /\ staged' \in {staged, staged - 1} \cap Nat
    /\ UNCHANGED <<cycleVars, pstatus, earlier, Controls, cached, evidence, op>>

\* ensure_posting_allowed and record_posting_activity, for a direct journal
\* or for a staged one that auto-posts.
Post(j) ==
    /\ j \notin posted
    /\ pstatus = "OPEN"
    /\ status # "READY_FOR_APPROVAL"
    /\ posted' = posted \cup {j}
    /\ lrev' = lrev + 1
    /\ staged' \in {staged, staged - 1} \cap Nat
    /\ UNCHANGED <<cycleVars, pstatus, earlier, Controls, cached, evidence, op>>

\* A date that no closed or ready period covers is open for posting: the
\* revision of this later period does not move.
PostEarlier ==
    /\ earlier < MaxEarlier
    /\ earlier' = earlier + 1
    /\ UNCHANGED <<cycleVars, pstatus, lrev, posted, staged, Controls, cached, evidence, op>>

\* Ingest does not look at periods at all.
Ingest ==
    /\ staged < MaxStaged
    /\ staged' = staged + 1
    /\ UNCHANGED <<cycleVars, pstatus, lrev, posted, earlier, Controls, cached, evidence, op>>

-----------------------------------------------------------------------------
Look(s) ==
    \/ LookReady(s) \/ LookPrepare(s) \/ LookApproveRec(s) \/ LookVariances(s)
    \/ LookVariance(s) \/ LookRequest(s) \/ LookDecide(s) \/ LookTask(s)
    \/ LookNewTask(s) \/ LookEvidence(s)

Commit(s) ==
    \/ Transition(s) \/ SaveReconciliation(s) \/ ApproveReconciliation(s)
    \/ MaterializeVariances(s) \/ UpdateVariance(s) \/ RequestApproval(s)
    \/ DecideApproval(s) \/ UpdateManualTask(s) \/ CreateCustomTask(s)
    \/ RecordGeneration(s)

Next ==
    \/ \E s \in Sessions, c \in Requests :
         \E u \in ActorsOf(c), i \in ItemsOf(c) : Begin(s, u, c, i)
    \/ \E s \in Sessions : Look(s) \/ Commit(s) \/ Abort(s)
    \/ Close
    \/ Reopen
    \/ \E j \in Journals : Post(j)
    \/ PostEarlier
    \/ Ingest

Spec == Init /\ [][Next]_vars

-----------------------------------------------------------------------------
(* Properties                                                                *)

Proven == RecsApproved(lrev) /\ VariancesReviewed(lrev) /\ ApprovalsComplete /\ TasksComplete

(* The period and its cycle close together, and only over controls that are *)
(* complete at the period's current ledger revision: a posting or a control *)
(* change racing with mark_ready or close can never slip under the close.   *)
ClosedIsProven == (pstatus = "CLOSED" <=> status = "CLOSED") /\ (status = "CLOSED" => Proven)

\* A ledger state that misses no journal of the period; journals dated before
\* the period may have been posted since.
Covers(basis) == basis \in lrev..LedgerState

(* A reconciliation stamped with the current ledger revision misses no       *)
(* journal of the period, whatever posted between its reads and its commit   *)
(* (prepare_reconciliation reads the period before the balance).             *)
ReconciliationMatchesLedger ==
    \A a \in Accounts : recs[a].status # "ABSENT" /\ recs[a].rev = lrev => Covers(recs[a].basis)

(* A variance run stamped with the current ledger revision was computed from *)
(* the current journals of the period, unless its report was asked for with  *)
(* refresh=false: then only the stamp is current.                            *)
VarianceMatchesLedger == run.fresh /\ run.rev = lrev => Covers(run.basis)

\* No control is stamped with a ledger its numbers were not read from.
ControlsMatchLedger == ReconciliationMatchesLedger /\ VarianceMatchesLedger

(* Evidence that counts as current was built from the period's journals as   *)
(* they stand, although no read of the bundle is locked.                     *)
EvidenceMatchesLedger == EvidenceCurrent(content, lrev) => Covers(evidence.basis)

(* "Reconciliations and variance runs record the ledger revision they        *)
(* reviewed" (docs/SECURITY.md:87): also a run whose report was cached.      *)
RunsRecordWhatTheyReviewed == run.version > 0 /\ run.rev = lrev => Covers(run.basis)

(* A closed cycle has current evidence, recorded from the closed state; and *)
(* no evidence recorded from another state is current while it is closed.   *)
FinalEvidence ==
    EvidenceCurrent(content, lrev) /\ evidence.final <=> status = "CLOSED"

(* Whoever prepared a balance or requested an approval is never the one who *)
(* approved it, even if the row is prepared or requested anew in between.   *)
SeparationOfDuties ==
    /\ \A a \in Accounts : recs[a].status = "APPROVED" =>
         recs[a].approver \in Users /\ recs[a].approver # recs[a].preparer
    /\ \A j \in Journals : approvals[j].status = "APPROVED" =>
         approvals[j].decider \in Users /\ approvals[j].decider # approvals[j].requestor

(* Two calls that both counted one row below the cap do not both insert.     *)
CapsHold ==
    /\ Cardinality({t \in CustomTasks : tasks[t].status # "ABSENT"}) <= TaskCap
    /\ Cardinality({j \in Journals : approvals[j].status # "ABSENT"}) <= ApprovalCap

(* Once ready, closed or cancelled the controls stay as they are: a call     *)
(* that read an operational cycle never commits into a frozen one.           *)
FrozenControls ==
    [][(status \in {"READY_FOR_APPROVAL", "CLOSED", "CANCELLED"}) => Controls' = Controls]_vars

(* Nothing that evidence describes changes behind it: after any change of    *)
(* the controls, the cycle's status or the period's journals the evidence    *)
(* recorded before is stale.                                                 *)
NoChangeBehindEvidence ==
    [][Controls' # Controls \/ status' # status \/ posted' # posted =>
        evidence' # evidence \/ ~EvidenceCurrent(content, lrev)']_vars

Phase ==
    CASE status = "READY_FOR_APPROVAL" -> "ready"
      [] status = "CLOSED" -> "closed"
      [] OTHER -> "working"

Promise == INSTANCE CloseControl WITH phase <- Phase, ledger <- lrev, proven <- Proven

(* The cycle with all its races does no more than CloseControl promises.     *)
KeepsPromise == Promise!Spec
=============================================================================
