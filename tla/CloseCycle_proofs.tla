-------------------------- MODULE CloseCycle_proofs --------------------------
(***************************************************************************)
(* Proofs about CloseCycle, for any number of sessions, users, accounts,   *)
(* journals and tasks and whatever the policy and the bounds are.          *)
(*                                                                         *)
(* The argument is optimistic concurrency control.  Everything a call does *)
(* to the cycle rests on what it read; content_revision never decreases    *)
(* and every change of the status or of a control advances it; so a call   *)
(* whose compare-and-swap succeeds commits into the cycle it read          *)
(* (ReadsFresh), in a status that allows the call (CallsWellFormed).       *)
(***************************************************************************)
EXTENDS CloseCycle, FiniteSetTheorems, TLAPS

\* What a call may have seen of the row it is about.
ValuesOf(c) ==
    CASE c = "prepare_reconciliation" -> DerivedStatuses
      [] c = "decide_approval" -> {"APPROVED", "REJECTED", "REVOKED"}
      [] c = "update_manual_task" -> {"PENDING", "COMPLETE"}
      [] OTHER -> Values

\* A call is about an item and a user of its kind, began in a status that
\* allows it, and saw a value that makes sense for it.
CallsWellFormed ==
    \A s \in Sessions : op[s].call # "none" =>
        /\ op[s].item \in ItemsOf(op[s].call)
        /\ op[s].user \in ActorsOf(op[s].call)
        /\ op[s].status \in Allowed(op[s].call)
        /\ op[s].looked => op[s].value \in ValuesOf(op[s].call)

\* What a call read is not from the future, and if content_revision still has
\* the value it read, the status does too.
ReadsFresh ==
    \A s \in Sessions : op[s].call # "none" =>
        /\ op[s].content <= content
        /\ op[s].rev <= lrev
        /\ op[s].content = content => op[s].status = status

\* Evidence describes revisions that exist.
EvidenceFromPast == evidence.content <= content /\ evidence.rev <= lrev

IInv == TypeOK /\ CallsWellFormed /\ ReadsFresh /\ EvidenceFromPast
             /\ ClosedIsProven /\ FinalEvidence
-----------------------------------------------------------------------------
(* Shapes of steps                                                           *)

\* A step of session s that only reads.
OnlyReads(s) ==
    /\ op[s].call # "none"
    /\ \E b, v \in Nat, x \in Values \cap ValuesOf(op[s].call) :
         op' = [op EXCEPT ![s] = [op[s] EXCEPT !.looked = TRUE, !.basis = b,
                                               !.version = v, !.value = x]]
    /\ cached' \in Nat
    /\ UNCHANGED <<cycleVars, periodVars, Controls, evidence>>

\* A step of session s that commits a change of the controls.
CommitsControls(s) ==
    /\ op[s].call \notin Transitions \cup {"none", "record_generation"}
    /\ content = op[s].content
    /\ content' = content + 1
    /\ op' = [op EXCEPT ![s] = Idle]
    /\ recs' \in [Accounts -> Rec]
    /\ run' \in Run
    /\ approvals' \in [Journals -> Approval]
    /\ tasks' \in [Tasks -> Task]
    /\ UNCHANGED <<status, periodVars, cached, evidence>>

\* LedgerState is a number.
LEMMA LedgerStateNat == TypeOK => LedgerState \in Nat
  BY DEF TypeOK, LedgerState

LEMMA SawOnlyReads ==
  ASSUME NEW s \in Sessions, op[s].call # "none", cached' \in Nat,
         NEW b \in Nat, NEW v \in Nat, NEW x \in Values \cap ValuesOf(op[s].call),
         Saw(s, b, v, x)
  PROVE  OnlyReads(s)
  BY DEF Saw, OnlyReads

\* Every Look* step only reads.
LEMMA LookOnlyReads ==
  ASSUME TypeOK, CallsWellFormed, NEW s \in Sessions, Look(s)
  PROVE  OnlyReads(s)
<1>1. /\ op[s] \in Op
      /\ LedgerState \in Nat
      /\ cached \in Nat
      /\ DerivedStatuses \subseteq Values
      /\ {"none", "resolved", "unresolved", "PENDING", "COMPLETE",
           "APPROVED", "REJECTED", "REVOKED", "fresh", "cached"} \subseteq Values
  BY LedgerStateNat DEF TypeOK, Values
<1>2. CASE LookReady(s)
  BY <1>1, <1>2, SawOnlyReads DEF LookReady, Looks, ValuesOf
<1>3. CASE LookPrepare(s)
  <2>1. op[s].item \in Accounts
    BY <1>3 DEF LookPrepare, Looks, CallsWellFormed, ItemsOf
  <2>2. recs[op[s].item].version \in Nat
    BY <2>1 DEF TypeOK, Rec
  <2> QED BY <1>1, <1>3, <2>2, SawOnlyReads DEF LookPrepare, Looks, ValuesOf
<1>4. CASE LookApproveRec(s)
  <2>1. op[s].item \in Accounts
    BY <1>4 DEF LookApproveRec, Looks, CallsWellFormed, ItemsOf
  <2>2. recs[op[s].item].version \in Nat
    BY <2>1 DEF TypeOK, Rec
  <2> QED BY <1>1, <1>4, <2>2, SawOnlyReads DEF LookApproveRec, Looks, ValuesOf
<1>5. CASE LookVariances(s)
  BY <1>1, <1>5, SawOnlyReads DEF LookVariances, Looks, ValuesOf
<1>6. CASE LookVariance(s)
  <2>1. run.version \in Nat
    BY DEF TypeOK, Run
  <2> QED BY <1>1, <1>6, <2>1, SawOnlyReads DEF LookVariance, Looks, ValuesOf
<1>7. CASE LookRequest(s)
  <2>1. op[s].item \in Journals
    BY <1>7 DEF LookRequest, Looks, CallsWellFormed, ItemsOf
  <2>2. approvals[op[s].item].version \in Nat
    BY <2>1 DEF TypeOK, Approval
  <2> QED BY <1>1, <1>7, <2>2, SawOnlyReads DEF LookRequest, Looks, ValuesOf
<1>8. CASE LookDecide(s)
  <2>1. op[s].item \in Journals
    BY <1>8 DEF LookDecide, Looks, CallsWellFormed, ItemsOf
  <2>2. approvals[op[s].item].version \in Nat
    BY <2>1 DEF TypeOK, Approval
  <2> QED BY <1>1, <1>8, <2>2, SawOnlyReads DEF LookDecide, Looks, ValuesOf
<1>9. CASE LookTask(s)
  <2>1. op[s].item \in Tasks
    BY <1>9 DEF LookTask, Looks, CallsWellFormed, ItemsOf
  <2>2. tasks[op[s].item].version \in Nat
    BY <2>1 DEF TypeOK, Task
  <2> QED BY <1>1, <1>9, <2>2, SawOnlyReads DEF LookTask, Looks, ValuesOf
<1>10. CASE LookNewTask(s)
  BY <1>1, <1>10, SawOnlyReads DEF LookNewTask, Looks, ValuesOf
<1>11. CASE LookEvidence(s)
  BY <1>1, <1>11, SawOnlyReads DEF LookEvidence, Looks, ValuesOf
<1> QED BY <1>2, <1>3, <1>4, <1>5, <1>6, <1>7, <1>8, <1>9, <1>10, <1>11 DEF Look

ControlCommit(s) ==
    \/ SaveReconciliation(s) \/ ApproveReconciliation(s)
    \/ MaterializeVariances(s) \/ UpdateVariance(s) \/ RequestApproval(s)
    \/ DecideApproval(s) \/ UpdateManualTask(s) \/ CreateCustomTask(s)

LEMMA ControlCommitShape ==
  ASSUME TypeOK, CallsWellFormed, NEW s \in Sessions, ControlCommit(s)
  PROVE  CommitsControls(s)
<1>1. /\ op[s] \in Op
      /\ recs \in [Accounts -> Rec]
      /\ run \in Run
      /\ approvals \in [Journals -> Approval]
      /\ tasks \in [Tasks -> Task]
  BY DEF TypeOK
<1>2. op[s].version \in Nat /\ op[s].version + 1 \in Nat /\ op[s].rev \in Nat
      /\ op[s].basis \in Nat /\ op[s].user \in SomeUser /\ op[s].value \in Values
  BY <1>1 DEF Op
<1>3. CASE SaveReconciliation(s)
  <2>1. op[s].value \in DerivedStatuses
    BY <1>3 DEF SaveReconciliation, Swaps, CallsWellFormed, ValuesOf
  <2>2. [status |-> op[s].value, rev |-> op[s].rev, basis |-> op[s].basis,
         preparer |-> op[s].user, approver |-> NoOne, version |-> op[s].version + 1] \in Rec
    BY <1>2, <2>1 DEF Rec, SomeUser
  <2>3. recs' \in [Accounts -> Rec]
    BY <1>1, <1>3, <2>2 DEF SaveReconciliation
  <2> QED BY <1>1, <1>3, <2>3 DEF SaveReconciliation, Swaps, BumpContent, CommitsControls, Transitions
<1>4. CASE ApproveReconciliation(s)
  <2>1. \A r \in Rec : [r EXCEPT !.status = "APPROVED", !.approver = op[s].user,
                                 !.version = op[s].version + 1] \in Rec
    BY <1>2 DEF Rec
  <2>2. op[s].item \in Accounts
    BY <1>4 DEF ApproveReconciliation, Swaps, CallsWellFormed, ItemsOf
  <2>3. recs' \in [Accounts -> Rec]
    BY <1>1, <1>4, <2>1, <2>2 DEF ApproveReconciliation
  <2> QED BY <1>1, <1>4, <2>3 DEF ApproveReconciliation, Swaps, BumpContent, CommitsControls, Transitions
<1>5. CASE MaterializeVariances(s)
  <2>1. run' \in Run
    BY <1>2, <1>5 DEF MaterializeVariances, Run
  <2> QED BY <1>1, <1>5, <2>1 DEF MaterializeVariances, Swaps, BumpContent, CommitsControls, Transitions
<1>6. CASE UpdateVariance(s)
  <2>1. run' \in Run
    BY <1>1, <1>2, <1>6 DEF UpdateVariance, Run
  <2> QED BY <1>1, <1>6, <2>1 DEF UpdateVariance, Swaps, BumpContent, CommitsControls, Transitions
<1>7. CASE RequestApproval(s)
  <2>1. approvals' \in [Journals -> Approval]
    BY <1>1, <1>2, <1>7 DEF RequestApproval, Approval, SomeUser
  <2> QED BY <1>1, <1>7, <2>1 DEF RequestApproval, Swaps, BumpContent, CommitsControls, Transitions
<1>8. CASE DecideApproval(s)
  <2>1. op[s].value \in {"APPROVED", "REJECTED", "REVOKED"}
    BY <1>8 DEF DecideApproval, Swaps, CallsWellFormed, ValuesOf
  <2>2. \A a \in Approval : [a EXCEPT !.status = op[s].value, !.decider = op[s].user,
                                      !.version = op[s].version + 1] \in Approval
    BY <1>2, <2>1 DEF Approval
  <2>3. op[s].item \in Journals
    BY <1>8 DEF DecideApproval, Swaps, CallsWellFormed, ItemsOf
  <2>4. approvals' \in [Journals -> Approval]
    BY <1>1, <1>8, <2>2, <2>3 DEF DecideApproval
  <2> QED BY <1>1, <1>8, <2>4 DEF DecideApproval, Swaps, BumpContent, CommitsControls, Transitions
<1>9. CASE UpdateManualTask(s)
  <2>1. op[s].value \in {"PENDING", "COMPLETE"}
    BY <1>9 DEF UpdateManualTask, Swaps, CallsWellFormed, ValuesOf
  <2>2. tasks' \in [Tasks -> Task]
    BY <1>1, <1>2, <1>9, <2>1 DEF UpdateManualTask, Task
  <2> QED BY <1>1, <1>9, <2>2 DEF UpdateManualTask, Swaps, BumpContent, CommitsControls, Transitions
<1>10. CASE CreateCustomTask(s)
  <2>1. tasks' \in [Tasks -> Task]
    BY <1>1, <1>10 DEF CreateCustomTask, Task
  <2> QED BY <1>1, <1>10, <2>1 DEF CreateCustomTask, Swaps, BumpContent, CommitsControls, Transitions
<1> QED BY <1>3, <1>4, <1>5, <1>6, <1>7, <1>8, <1>9, <1>10 DEF ControlCommit

-----------------------------------------------------------------------------
(* Every step preserves the invariant                                        *)

LEMMA InitIInv == Init => IInv
<1> SUFFICES ASSUME Init PROVE IInv
  OBVIOUS
<1>1. TypeOK
  <2>1. NoRec \in Rec /\ NoRun \in Run /\ NoApproval \in Approval /\ NoEvidence \in Evidence
    BY DEF NoRec, Rec, NoRun, Run, NoApproval, Approval, NoEvidence, Evidence, SomeUser
  <2>2. Idle \in Op
    BY DEF Idle, Op, SomeUser, Items, CycleStatus, Values
  <2>3. tasks \in [Tasks -> Task]
    BY DEF Init, Task
  <2> QED BY <2>1, <2>2, <2>3 DEF Init, TypeOK, CycleStatus
<1>2. CallsWellFormed /\ ReadsFresh
  BY DEF Init, CallsWellFormed, ReadsFresh, Idle
<1>3. EvidenceFromPast /\ FinalEvidence
  BY DEF Init, EvidenceFromPast, FinalEvidence, NoEvidence, EvidenceCurrent
<1>4. ClosedIsProven
  BY DEF Init, ClosedIsProven
<1> QED BY <1>1, <1>2, <1>3, <1>4 DEF IInv

\* An operation that rolls back, or begins, or has read: only op moves, and the
\* new value of op[s] is well formed.
LEMMA OpStep ==
  ASSUME IInv, NEW s \in Sessions, NEW o \in Op,
         op' = [op EXCEPT ![s] = o], cached' \in Nat,
         UNCHANGED <<cycleVars, periodVars, Controls, evidence>>,
         o.call # "none" =>
            /\ o.item \in ItemsOf(o.call)
            /\ o.user \in ActorsOf(o.call)
            /\ o.status \in Allowed(o.call)
            /\ o.looked => o.value \in ValuesOf(o.call)
            /\ o.content <= content
            /\ o.rev <= lrev
            /\ o.content = content => o.status = status
  PROVE  IInv'
<1>1. TypeOK'
  BY DEF IInv, TypeOK, cycleVars, periodVars, Controls
<1>2. CallsWellFormed'
  BY DEF IInv, TypeOK, CallsWellFormed, cycleVars, periodVars, Controls
<1>3. ReadsFresh'
  BY DEF IInv, TypeOK, ReadsFresh, cycleVars, periodVars, Controls
<1>4. EvidenceFromPast' /\ FinalEvidence'
  BY DEF IInv, EvidenceFromPast, FinalEvidence, EvidenceCurrent, cycleVars, periodVars, Controls
<1>5. ClosedIsProven'
  BY DEF IInv, ClosedIsProven, Proven, RecsApproved, VariancesReviewed, ApprovalsComplete,
         TasksComplete, cycleVars, periodVars, Controls
<1> QED BY <1>1, <1>2, <1>3, <1>4, <1>5 DEF IInv

LEMMA IdleType == Idle \in Op
  BY DEF Idle, Op, SomeUser, Items, CycleStatus, Values

LEMMA BeginPreserves ==
  ASSUME IInv, NEW s \in Sessions, NEW c \in Requests, NEW u \in ActorsOf(c),
         NEW i \in ItemsOf(c), Begin(s, u, c, i)
  PROVE  IInv'
<1> DEFINE o == [Idle EXCEPT !.call = c, !.user = u, !.item = i,
                   !.status = status, !.content = content, !.rev = lrev]
<1>1. c \in Calls /\ c # "none"
  BY RequestsAssumption DEF Calls, Transitions
<1>2. u \in SomeUser
  BY DEF ActorsOf, SomeUser
<1>3. i \in Items
  BY <1>1 DEF ItemsOf, Items, Tasks
<1>4. o \in Op
  BY <1>1, <1>2, <1>3, IdleType DEF Op, IInv, TypeOK
<1>5. /\ o.call = c /\ o.item = i /\ o.user = u /\ o.status = status
      /\ o.content = content /\ o.rev = lrev /\ ~o.looked
  BY DEF Idle
<1>6. status \in Allowed(c) /\ op' = [op EXCEPT ![s] = o]
  BY DEF Begin
<1>7. content <= content /\ lrev <= lrev /\ cached \in Nat
  BY DEF IInv, TypeOK
<1> HIDE DEF o
<1> QED BY <1>4, <1>5, <1>6, <1>7, OpStep DEF Begin

LEMMA ReadPreserves ==
  ASSUME IInv, NEW s \in Sessions, OnlyReads(s)
  PROVE  IInv'
<1>1. op[s] \in Op
  BY DEF IInv, TypeOK
<1>2. PICK b \in Nat, v \in Nat, x \in Values \cap ValuesOf(op[s].call) :
        op' = [op EXCEPT ![s] = [op[s] EXCEPT !.looked = TRUE, !.basis = b,
                                              !.version = v, !.value = x]]
  BY DEF OnlyReads
<1> DEFINE o == [op[s] EXCEPT !.looked = TRUE, !.basis = b, !.version = v, !.value = x]
<1>3. o \in Op
  BY <1>1 DEF Op
<1>4. /\ o.call = op[s].call /\ o.item = op[s].item /\ o.user = op[s].user
      /\ o.status = op[s].status /\ o.content = op[s].content /\ o.rev = op[s].rev
      /\ o.value = x
  BY <1>1 DEF Op
<1>5. op' = [op EXCEPT ![s] = o]
  BY <1>2
<1> HIDE DEF o
<1>6. o.call # "none" =>
            /\ o.item \in ItemsOf(o.call)
            /\ o.user \in ActorsOf(o.call)
            /\ o.status \in Allowed(o.call)
            /\ o.looked => o.value \in ValuesOf(o.call)
            /\ o.content <= content
            /\ o.rev <= lrev
            /\ o.content = content => o.status = status
  BY <1>4 DEF IInv, CallsWellFormed, ReadsFresh
<1> QED BY <1>3, <1>5, <1>6, OpStep DEF OnlyReads

LEMMA AbortPreserves ==
  ASSUME IInv, NEW s \in Sessions, Abort(s)
  PROVE  IInv'
<1>1. Idle.call = "none"
  BY DEF Idle
<1>2. cached' \in Nat
  BY DEF Abort, IInv, TypeOK
<1> QED BY <1>1, <1>2, IdleType, OpStep DEF Abort

\* A call that commits changes of the controls or the status, and so advances
\* content_revision: whatever others have read is stale, and so is evidence.
LEMMA ContentStep ==
  ASSUME IInv, NEW s \in Sessions,
         content' = content + 1, op' = [op EXCEPT ![s] = Idle],
         UNCHANGED <<periodVars, cached, evidence>>
  PROVE  CallsWellFormed' /\ ReadsFresh' /\ EvidenceFromPast' /\ ~EvidenceCurrent(content, lrev)'
<1>1. content \in Nat /\ op \in [Sessions -> Op] /\ evidence \in Evidence
  BY DEF IInv, TypeOK
<1>2. \A t \in Sessions : op'[t].call # "none" => t # s /\ op'[t] = op[t]
  BY <1>1 DEF Idle
<1>3. CallsWellFormed'
  BY <1>2 DEF IInv, CallsWellFormed
<1>4. ReadsFresh'
  <2> SUFFICES ASSUME NEW t \in Sessions, op'[t].call # "none"
               PROVE  /\ op'[t].content <= content' /\ op'[t].rev <= lrev'
                      /\ op'[t].content # content'
    BY DEF ReadsFresh
  <2>1. op'[t] = op[t] /\ op[t].content \in Nat /\ lrev' = lrev
    BY <1>1, <1>2 DEF Op, periodVars
  <2>2. op[t].content <= content /\ op[t].rev <= lrev
    BY <1>2 DEF IInv, ReadsFresh
  <2> QED BY <1>1, <2>1, <2>2
<1>5. EvidenceFromPast' /\ ~EvidenceCurrent(content, lrev)'
  BY <1>1 DEF IInv, EvidenceFromPast, EvidenceCurrent, Evidence, periodVars
<1> QED BY <1>3, <1>4, <1>5

\* The call that commits is in a status that allows it.
LEMMA CommitsWhatItRead ==
  ASSUME IInv, NEW s \in Sessions, op[s].call # "none", content = op[s].content
  PROVE  status \in Allowed(op[s].call)
  BY DEF IInv, ReadsFresh, CallsWellFormed

LEMMA ControlPreserves ==
  ASSUME IInv, NEW s \in Sessions, CommitsControls(s)
  PROVE  IInv' /\ status \in Operational \cup {"DRAFT"}
<1>1. status \in Operational \cup {"DRAFT"}
  <2>1. op[s].call \in Calls
    BY DEF IInv, TypeOK, Op, CommitsControls
  <2> QED BY <2>1, CommitsWhatItRead DEF CommitsControls, Allowed, Operational, Transitions, Calls
<1>2. CallsWellFormed' /\ ReadsFresh' /\ EvidenceFromPast' /\ ~EvidenceCurrent(content, lrev)'
  BY ContentStep DEF CommitsControls
<1>3. TypeOK'
  BY IdleType DEF IInv, TypeOK, CommitsControls, periodVars
<1>4. ClosedIsProven' /\ FinalEvidence'
  BY <1>1, <1>2 DEF IInv, ClosedIsProven, FinalEvidence, CommitsControls, Operational, periodVars
<1> QED BY <1>1, <1>2, <1>3, <1>4 DEF IInv

LEMMA TransitionPreserves ==
  ASSUME IInv, NEW s \in Sessions, Transition(s)
  PROVE  IInv' /\ status # "CLOSED" /\ status' # "CLOSED"
<1>1. status # "CLOSED"
  BY CommitsWhatItRead DEF Transition, Transitions, Allowed, Operational
<1>2. status' # "CLOSED" /\ status' \in CycleStatus
  BY DEF Transition, Target, CycleStatus, Operational
<1>3. CallsWellFormed' /\ ReadsFresh' /\ EvidenceFromPast' /\ ~EvidenceCurrent(content, lrev)'
  BY ContentStep DEF Transition
<1>4. TypeOK'
  BY <1>2, IdleType DEF IInv, TypeOK, Transition, periodVars, Controls
<1>5. ClosedIsProven' /\ FinalEvidence'
  BY <1>1, <1>2, <1>3 DEF IInv, ClosedIsProven, FinalEvidence, Transition, periodVars
<1> QED BY <1>1, <1>2, <1>3, <1>4, <1>5 DEF IInv

LEMMA GenerationPreserves ==
  ASSUME IInv, NEW s \in Sessions, RecordGeneration(s)
  PROVE  IInv'
<1>1. status # "CLOSED"
  BY CommitsWhatItRead DEF RecordGeneration, Swaps, Allowed, Operational
<1>2. op[s].basis \in Nat
  BY DEF IInv, TypeOK, Op
<1>3. TypeOK'
  BY <1>2, IdleType DEF IInv, TypeOK, RecordGeneration, Evidence, cycleVars, periodVars, Controls
<1>4. CallsWellFormed' /\ ReadsFresh'
  BY DEF IInv, TypeOK, CallsWellFormed, ReadsFresh, RecordGeneration, Idle, cycleVars, periodVars
<1>5. EvidenceFromPast' /\ FinalEvidence'
  BY <1>1 DEF IInv, TypeOK, EvidenceFromPast, FinalEvidence, RecordGeneration, cycleVars, periodVars
<1>6. ClosedIsProven'
  BY <1>1 DEF IInv, ClosedIsProven, RecordGeneration, cycleVars, periodVars
<1> QED BY <1>3, <1>4, <1>5, <1>6 DEF IInv

\* Closing needs a proof of the ledger; reopening gives it up.
LEMMA ClosePreserves == IInv /\ (Close \/ Reopen) => IInv'
<1> SUFFICES ASSUME IInv, Close \/ Reopen PROVE IInv'
  OBVIOUS
<1>1. /\ content \in Nat /\ content' = content + 1 /\ lrev \in Nat /\ lrev' = lrev
      /\ op' = op /\ op \in [Sessions -> Op] /\ evidence \in Evidence
      /\ status' \in {"CLOSED", "IN_PROGRESS"}
      /\ evidence.content <= content /\ evidence.rev <= lrev
  BY DEF IInv, TypeOK, Close, Reopen, EvidenceFromPast
<1>2. TypeOK'
  <2>1. LedgerState \in Nat
    BY LedgerStateNat DEF IInv
  <2>2. evidence' \in Evidence
    <3>1. CASE Close
      <4>1. content + 1 \in Nat
        BY <1>1
      <4> QED BY <1>1, <2>1, <3>1, <4>1 DEF Close, Evidence
    <3>2. CASE Reopen
      BY <1>1, <3>2 DEF Reopen
    <3> QED BY <3>1, <3>2
  <2>3. pstatus' \in {"OPEN", "CLOSED"} /\ status' \in CycleStatus
    BY <1>1 DEF Close, Reopen, CycleStatus, Operational
  <2>4. UNCHANGED <<lrev, posted, earlier, staged, recs, run, approvals, tasks, cached>>
    BY DEF Close, Reopen, Controls
  <2> QED BY <1>1, <2>2, <2>3, <2>4 DEF IInv, TypeOK
<1>3. CallsWellFormed'
  BY <1>1 DEF IInv, CallsWellFormed
<1>4. ReadsFresh'
  <2> SUFFICES ASSUME NEW t \in Sessions, op[t].call # "none"
               PROVE  /\ op[t].content <= content' /\ op[t].rev <= lrev
                      /\ op[t].content # content'
    BY <1>1 DEF ReadsFresh
  <2>1. op[t].content \in Nat /\ op[t].content <= content /\ op[t].rev <= lrev
    BY <1>1 DEF IInv, ReadsFresh, Op
  <2> QED BY <1>1, <2>1
<1>5. EvidenceFromPast'
  BY <1>1 DEF Close, Reopen, EvidenceFromPast, Evidence
<1>6. FinalEvidence'
  BY <1>1 DEF Close, Reopen, FinalEvidence, EvidenceCurrent, Evidence
<1>7. ClosedIsProven'
  <2>1. CASE Close
    <3>1. Proven
      BY <2>1 DEF Close, Ready, Proven
    <3> QED BY <2>1, <3>1 DEF Close, ClosedIsProven, Proven, RecsApproved, VariancesReviewed,
                  ApprovalsComplete, TasksComplete, Controls
  <2>2. CASE Reopen
    BY <2>2 DEF Reopen, ClosedIsProven
  <2> QED BY <2>1, <2>2
<1> QED BY <1>2, <1>3, <1>4, <1>5, <1>6, <1>7 DEF IInv

\* The ledger moves only while the books are open.
LEMMA LedgerPreserves ==
  ASSUME IInv, (\E j \in Journals : Post(j)) \/ PostEarlier \/ Ingest
  PROVE  IInv'
<1>1. /\ lrev \in Nat /\ lrev' \in {lrev, lrev + 1} /\ content \in Nat
      /\ op \in [Sessions -> Op] /\ evidence \in Evidence
      /\ UNCHANGED <<status, content, pstatus, recs, run, approvals, tasks, cached, evidence, op>>
  BY DEF IInv, TypeOK, Post, PostEarlier, Ingest, cycleVars, Controls
<1>2. TypeOK'
  <2>1. posted' \in SUBSET Journals /\ earlier' \in Nat /\ staged' \in Nat
    BY DEF IInv, TypeOK, Post, PostEarlier, Ingest
  <2> QED BY <1>1, <2>1 DEF IInv, TypeOK
<1>3. CallsWellFormed'
  BY <1>1 DEF IInv, CallsWellFormed
<1>4. ReadsFresh'
  BY <1>1 DEF IInv, ReadsFresh, Op
<1>5. EvidenceFromPast'
  BY <1>1 DEF IInv, EvidenceFromPast, Evidence
<1>6. lrev' = lrev + 1 => status # "CLOSED"
  BY <1>1 DEF IInv, ClosedIsProven, Post, PostEarlier, Ingest
<1>7. FinalEvidence'
  BY <1>1, <1>6 DEF IInv, FinalEvidence, EvidenceFromPast, EvidenceCurrent, Evidence
<1>8. ClosedIsProven'
  <2>1. CASE status # "CLOSED"
    BY <1>1, <2>1 DEF IInv, ClosedIsProven
  <2>2. CASE status = "CLOSED"
    <3>1. lrev' = lrev /\ posted' = posted
      BY <2>2 DEF IInv, ClosedIsProven, Post, PostEarlier, Ingest
    <3> QED BY <1>1, <3>1 DEF IInv, ClosedIsProven, Proven, RecsApproved, VariancesReviewed,
                  ApprovalsComplete, TasksComplete
  <2> QED BY <2>1, <2>2
<1> QED BY <1>2, <1>3, <1>4, <1>5, <1>7, <1>8 DEF IInv

LEMMA StutterPreserves == IInv /\ UNCHANGED vars => IInv'
  BY DEF IInv, TypeOK, CallsWellFormed, ReadsFresh, EvidenceFromPast, FinalEvidence, EvidenceCurrent,
         ClosedIsProven, Proven, RecsApproved, VariancesReviewed, ApprovalsComplete, TasksComplete,
         vars, cycleVars, periodVars, Controls

\* What a step of Next is, by shape.
LEMMA NextShape ==
  ASSUME TypeOK, CallsWellFormed, Next
  PROVE  \/ \E s \in Sessions, c \in Requests :
              \E u \in ActorsOf(c), i \in ItemsOf(c) : Begin(s, u, c, i)
         \/ \E s \in Sessions : \/ Abort(s) \/ OnlyReads(s) \/ CommitsControls(s)
                               \/ Transition(s) \/ RecordGeneration(s)
         \/ Close \/ Reopen
         \/ (\E j \in Journals : Post(j)) \/ PostEarlier \/ Ingest
  BY LookOnlyReads, ControlCommitShape DEF Next, Commit, ControlCommit

LEMMA NextPreserves == IInv /\ [Next]_vars => IInv'
<1> SUFFICES ASSUME IInv, [Next]_vars PROVE IInv'
  OBVIOUS
<1>1. CASE UNCHANGED vars
  BY <1>1, StutterPreserves
<1>2. CASE Next
  <2>1. TypeOK /\ CallsWellFormed
    BY DEF IInv
  <2> QED BY <1>2, <2>1, NextShape, BeginPreserves, AbortPreserves, ReadPreserves, ControlPreserves,
             TransitionPreserves, GenerationPreserves, ClosePreserves, LedgerPreserves
<1> QED BY <1>1, <1>2

-----------------------------------------------------------------------------
(* Theorems                                                                  *)

LEMMA InductiveInvariant == Spec => []IInv
<1>1. Init => IInv
  BY InitIInv
<1>2. IInv /\ [Next]_vars => IInv'
  BY NextPreserves
<1> QED BY <1>1, <1>2, PTL DEF Spec

(* Every variable keeps the type of the column it stands for.                *)
THEOREM TypesHold == Spec => []TypeOK
<1>1. IInv => TypeOK
  BY DEF IInv
<1> QED BY <1>1, InductiveInvariant, PTL

(* close_service.close never signs off controls that do not prove the        *)
(* period's ledger as it stands, and posting or a control change never       *)
(* undermines them while the period is closed.                               *)
THEOREM ClosedPeriodsAreProven == Spec => []ClosedIsProven
<1>1. IInv => ClosedIsProven
  BY DEF IInv
<1> QED BY <1>1, InductiveInvariant, PTL

(* The evidence of a closed cycle is current until it reopens, and no other  *)
(* evidence is taken for it: what GET evidence/download compares the latest  *)
(* record with before it rebuilds the bundle.                                *)
THEOREM FinalEvidenceIsCurrent == Spec => []FinalEvidence
<1>1. IInv => FinalEvidence
  BY DEF IInv
<1> QED BY <1>1, InductiveInvariant, PTL

\* Steps that are not about the cycle leave what the promise is about alone.
Visible == <<status, lrev, posted, Controls>>

LEMMA QuietSteps ==
  ASSUME NEW s \in Sessions,
         \/ \E c \in Requests : \E u \in ActorsOf(c), i \in ItemsOf(c) : Begin(s, u, c, i)
         \/ Abort(s) \/ OnlyReads(s) \/ RecordGeneration(s)
  PROVE  Visible' = Visible
  BY DEF Begin, Abort, OnlyReads, RecordGeneration, Visible, cycleVars, periodVars

LEMMA FrozenStep ==
  IInv /\ [Next]_vars =>
    (status \in {"READY_FOR_APPROVAL", "CLOSED", "CANCELLED"} => Controls' = Controls)
<1> SUFFICES ASSUME IInv, Next, status \in {"READY_FOR_APPROVAL", "CLOSED", "CANCELLED"}
             PROVE  Controls' = Controls
  BY DEF vars
<1>1. \A s \in Sessions : ~CommitsControls(s)
  BY ControlPreserves DEF Operational
<1>2. \A s \in Sessions : Transition(s) => Controls' = Controls
  BY DEF Transition
<1>3. Close \/ Reopen \/ (\E j \in Journals : Post(j)) \/ PostEarlier \/ Ingest
        => Controls' = Controls
  BY DEF Close, Reopen, Post, PostEarlier, Ingest
<1>4. TypeOK /\ CallsWellFormed
  BY DEF IInv
<1> QED BY <1>1, <1>2, <1>3, <1>4, NextShape, QuietSteps DEF Visible

(* A cycle that is ready, closed or cancelled keeps its controls: a call     *)
(* that read it while it was operational loses its compare-and-swap.         *)
THEOREM FrozenControlsStay == Spec => FrozenControls
<1>1. IInv /\ [Next]_vars =>
        (status \in {"READY_FOR_APPROVAL", "CLOSED", "CANCELLED"} => Controls' = Controls)
  BY FrozenStep
<1> QED BY <1>1, InductiveInvariant, PTL DEF Spec, FrozenControls

LEMMA EvidenceStep ==
  IInv /\ [Next]_vars =>
    (Controls' # Controls \/ status' # status \/ posted' # posted =>
       evidence' # evidence \/ ~EvidenceCurrent(content, lrev)')
<1> SUFFICES ASSUME IInv, Next, Controls' # Controls \/ status' # status \/ posted' # posted
             PROVE  evidence' # evidence \/ ~EvidenceCurrent(content, lrev)'
  BY DEF vars, cycleVars, periodVars
<1>1. ASSUME NEW s \in Sessions, CommitsControls(s) \/ Transition(s)
      PROVE  ~EvidenceCurrent(content, lrev)'
  BY <1>1, ContentStep DEF CommitsControls, Transition
<1>2. content \in Nat /\ lrev \in Nat /\ evidence \in Evidence
      /\ evidence.content <= content /\ evidence.rev <= lrev
  BY DEF IInv, TypeOK, EvidenceFromPast
<1>3. CASE Close
  <2>1. evidence'.content = content + 1
    BY <1>3 DEF Close
  <2> QED BY <1>2, <2>1 DEF Evidence
<1>4. CASE Reopen
  BY <1>2, <1>4 DEF Reopen, EvidenceCurrent, Evidence
<1>5. CASE \E j \in Journals : Post(j)
  BY <1>2, <1>5 DEF Post, EvidenceCurrent, Evidence, cycleVars
<1>6. ~PostEarlier /\ ~Ingest
  BY DEF PostEarlier, Ingest, cycleVars
<1>7. TypeOK /\ CallsWellFormed
  BY DEF IInv
<1> QED BY <1>1, <1>3, <1>4, <1>5, <1>6, <1>7, NextShape, QuietSteps DEF Visible

(* Evidence recorded before a change of the controls, of the cycle's status  *)
(* or of the period's journals is stale after it.                            *)
THEOREM EvidenceGoesStale == Spec => NoChangeBehindEvidence
<1>1. IInv /\ [Next]_vars =>
        (Controls' # Controls \/ status' # status \/ posted' # posted =>
           evidence' # evidence \/ ~EvidenceCurrent(content, lrev)')
  BY EvidenceStep
<1> QED BY <1>1, InductiveInvariant, PTL DEF Spec, NoChangeBehindEvidence

-----------------------------------------------------------------------------
(* CloseCycle implements CloseControl                                        *)

LEMMA ProvenBoolean == Proven \in BOOLEAN /\ Proven' \in BOOLEAN
  BY DEF Proven

\* Proven reads nothing but what is visible.
LEMMA ProvenVisible ==
  ASSUME UNCHANGED <<lrev, posted, recs, run, approvals, tasks>>
  PROVE  Proven' = Proven
  BY DEF Proven, RecsApproved, VariancesReviewed, ApprovalsComplete, TasksComplete

LEMMA PromiseStep == IInv /\ [Next]_vars => [Promise!Next]_(Promise!vars)
<1> SUFFICES ASSUME IInv, [Next]_vars PROVE Promise!Next \/ UNCHANGED <<Phase, lrev, Proven>>
  BY DEF Promise!vars
<1>1. lrev \in Nat
  BY DEF IInv, TypeOK
<1>2. ASSUME Visible' = Visible
      PROVE  UNCHANGED <<Phase, lrev, Proven>>
  BY <1>2, ProvenVisible DEF Visible, Controls, Phase
<1>3. ASSUME NEW s \in Sessions, CommitsControls(s)
      PROVE  Promise!Work
  <2>1. Phase = "working" /\ Phase' = "working"
    BY <1>3, ControlPreserves DEF CommitsControls, Phase, Operational
  <2>2. lrev' = lrev
    BY <1>3 DEF CommitsControls, periodVars
  <2> QED BY <1>1, <2>1, <2>2, ProvenBoolean DEF Promise!Work
<1>4. ASSUME NEW s \in Sessions, Transition(s)
      PROVE  Promise!Freeze \/ Promise!Thaw \/ UNCHANGED <<Phase, lrev, Proven>>
  <2>1. lrev' = lrev /\ Proven' = Proven
    BY <1>4, ProvenVisible DEF Transition, periodVars, Controls
  <2>2. status \in Allowed(op[s].call) /\ status' = Target(op[s].call) /\ op[s].call \in Transitions
    BY <1>4, CommitsWhatItRead DEF Transition, Transitions
  <2>3. CASE op[s].call = "mark_ready"
    <3>1. Phase = "working" /\ Phase' = "ready"
      BY <2>2, <2>3 DEF Allowed, Target, Operational, Phase
    <3> QED BY <2>1, <3>1 DEF Promise!Freeze, Promise!Move
  <2>4. CASE op[s].call = "return_to_work"
    <3>1. Phase = "ready" /\ Phase' = "working"
      BY <2>2, <2>4 DEF Allowed, Target, Phase
    <3> QED BY <2>1, <3>1 DEF Promise!Thaw, Promise!Move
  <2>5. CASE op[s].call \in {"start", "cancel", "restart"}
    <3>1. Phase = "working" /\ Phase' = "working"
      BY <2>2, <2>5 DEF Allowed, Target, Operational, Phase
    <3> QED BY <2>1, <3>1
  <2> QED BY <2>2, <2>3, <2>4, <2>5 DEF Transitions
<1>5. CASE Close
  <2>1. Phase = "ready" /\ Phase' = "closed" /\ lrev' = lrev /\ Proven
    BY <1>5 DEF Close, Phase, Ready, Proven
  <2>2. Proven' = Proven
    BY <1>5, ProvenVisible DEF Close, Controls
  <2> QED BY <2>1, <2>2 DEF Promise!SignOff, Promise!Move, Promise!Next
<1>6. CASE Reopen
  <2>1. Phase = "closed" /\ Phase' = "working" /\ lrev' = lrev
    BY <1>6 DEF Reopen, Phase
  <2>2. Proven' = Proven
    BY <1>6, ProvenVisible DEF Reopen, Controls
  <2> QED BY <2>1, <2>2 DEF Promise!Unlock, Promise!Move, Promise!Next
<1>7. CASE \E j \in Journals : Post(j)
  <2>1. Phase = "working" /\ Phase' = "working"
    BY <1>7 DEF IInv, ClosedIsProven, Post, cycleVars, Phase
  <2>2. lrev' \in Nat /\ lrev' >= lrev
    BY <1>1, <1>7 DEF Post
  <2> QED BY <2>1, <2>2, ProvenBoolean DEF Promise!Work, Promise!Next
<1>8. CASE PostEarlier \/ Ingest \/ UNCHANGED vars
  <2>1. Visible' = Visible
    BY <1>8 DEF PostEarlier, Ingest, Visible, vars, cycleVars, periodVars
  <2> QED BY <1>2, <2>1
<1>9. TypeOK /\ CallsWellFormed
  BY DEF IInv
<1> QED BY <1>2, <1>3, <1>4, <1>5, <1>6, <1>7, <1>8, <1>9, NextShape, QuietSteps DEF Promise!Next

(* The close workspace with all its racing calls keeps the promise of        *)
(* CloseControl: work only on open books, sign-off only of a ready and       *)
(* proven cycle, and nothing but reopen out of closed.                       *)
THEOREM Refinement == Spec => KeepsPromise
<1>1. Init => Promise!Init
  BY InitIInv, ProvenBoolean DEF Init, Promise!Init, Phase
<1>2. IInv /\ [Next]_vars => [Promise!Next]_(Promise!vars)
  BY PromiseStep
<1> QED BY <1>1, <1>2, InductiveInvariant, PTL DEF Spec, KeepsPromise, Promise!Spec

-----------------------------------------------------------------------------
(* Separation of duties                                                      *)

\* What a decision has seen of its row stays true until the content moves.
DecisionsFresh ==
    \A s \in Sessions : op[s].looked /\ op[s].content = content =>
        /\ op[s].call = "approve_reconciliation" => recs[op[s].item].preparer # op[s].user
        /\ op[s].call = "decide_approval" /\ op[s].value = "APPROVED" =>
             approvals[op[s].item].requestor # op[s].user

\* A step that moves only op[s]: the others' decisions stand.
LEMMA OpDecisions ==
  ASSUME IInv, DecisionsFresh, SeparationOfDuties, NEW s \in Sessions, NEW o,
         op' = [op EXCEPT ![s] = o], UNCHANGED <<content, recs, approvals>>,
         o.looked /\ o.content = content =>
            /\ o.call = "approve_reconciliation" => recs[o.item].preparer # o.user
            /\ o.call = "decide_approval" /\ o.value = "APPROVED" =>
                 approvals[o.item].requestor # o.user
  PROVE  DecisionsFresh' /\ SeparationOfDuties'
<1>1. op'[s] = o /\ \A t \in Sessions : t # s => op'[t] = op[t]
  BY DEF IInv, TypeOK
<1>2. DecisionsFresh'
  BY <1>1 DEF DecisionsFresh
<1>3. SeparationOfDuties'
  BY DEF SeparationOfDuties
<1> QED BY <1>2, <1>3

LEMMA IdleNotLooked == ~Idle.looked
  BY DEF Idle

LEMMA LookDecisions ==
  ASSUME IInv, DecisionsFresh, SeparationOfDuties, NEW s \in Sessions, Look(s)
  PROVE  DecisionsFresh' /\ SeparationOfDuties'
<1>1. /\ op[s] \in Op /\ op[s].call # "none" /\ UNCHANGED <<content, recs, approvals>>
  BY LookOnlyReads DEF IInv, TypeOK, OnlyReads, cycleVars, Controls
<1>2. ASSUME NEW b, NEW v, NEW x, Saw(s, b, v, x),
             op[s].call = "approve_reconciliation" => recs[op[s].item].preparer # op[s].user,
             op[s].call = "decide_approval" /\ x = "APPROVED" =>
               approvals[op[s].item].requestor # op[s].user
      PROVE  DecisionsFresh' /\ SeparationOfDuties'
  <2> DEFINE o == [op[s] EXCEPT !.looked = TRUE, !.basis = b, !.version = v, !.value = x]
  <2>1. o.call = op[s].call /\ o.item = op[s].item /\ o.user = op[s].user /\ o.value = x
    BY <1>1 DEF Op
  <2>2. op' = [op EXCEPT ![s] = o]
    BY <1>2 DEF Saw
  <2> HIDE DEF o
  <2> QED BY <1>1, <1>2, <2>1, <2>2, OpDecisions
<1>3. CASE LookApproveRec(s)
  BY <1>2, <1>3 DEF LookApproveRec, Looks
<1>4. CASE LookDecide(s)
  <2>1. op[s].call = "decide_approval"
    BY <1>4 DEF LookDecide, Looks
  <2> QED BY <1>2, <1>4, <2>1 DEF LookDecide
<1>5. CASE ~LookApproveRec(s) /\ ~LookDecide(s)
  <2>1. op[s].call \notin {"approve_reconciliation", "decide_approval"} /\ \E b, v, x : Saw(s, b, v, x)
    BY <1>5 DEF Look, Looks, LookReady, LookPrepare, LookVariances, LookVariance, LookRequest,
                LookTask, LookNewTask, LookEvidence
  <2> QED BY <1>2, <2>1
<1> QED BY <1>3, <1>4, <1>5

\* After the content moved no decision taken before it is fresh.
LEMMA ContentDecisions ==
  ASSUME IInv, content' = content + 1, \A t \in Sessions : op'[t] \in {op[t], Idle}
  PROVE  DecisionsFresh'
<1> SUFFICES ASSUME NEW t \in Sessions, op'[t].looked, op[t].call # "none" => op[t].content <= content
             PROVE  op'[t].content # content' \/ op'[t].call = "none"
  BY DEF DecisionsFresh, IInv, ReadsFresh
<1>1. op'[t] = op[t]
  BY IdleNotLooked
<1>2. op[t].content \in Nat /\ content \in Nat
  BY DEF IInv, TypeOK, Op
<1> QED BY <1>1, <1>2

LEMMA CommitDecisions ==
  ASSUME IInv, DecisionsFresh, SeparationOfDuties, NEW s \in Sessions, Commit(s)
  PROVE  DecisionsFresh' /\ SeparationOfDuties'
<1>1. /\ op' = [op EXCEPT ![s] = Idle] /\ op \in [Sessions -> Op]
      /\ recs \in [Accounts -> Rec] /\ approvals \in [Journals -> Approval]
  BY DEF Commit, Transition, SaveReconciliation, ApproveReconciliation, MaterializeVariances,
         UpdateVariance, RequestApproval, DecideApproval, UpdateManualTask, CreateCustomTask,
         RecordGeneration, BumpContent, IInv, TypeOK
<1>2. \A t \in Sessions : op'[t] \in {op[t], Idle}
  BY <1>1
<1>3. CASE RecordGeneration(s)
  BY <1>1, <1>3, IdleNotLooked, OpDecisions DEF RecordGeneration, cycleVars, Controls
<1>4. CASE ~RecordGeneration(s)
  <2>1. DecisionsFresh'
    <3>1. content' = content + 1
      BY <1>4 DEF Commit, Transition, SaveReconciliation, ApproveReconciliation, MaterializeVariances,
         UpdateVariance, RequestApproval, DecideApproval, UpdateManualTask, CreateCustomTask, BumpContent
    <3> QED BY <1>2, <3>1, ContentDecisions
  <2>2. CASE SaveReconciliation(s)
    <3>1. approvals' = approvals
      BY <2>2 DEF SaveReconciliation
    <3>2. \A a \in Accounts : recs'[a].status = "APPROVED" => recs'[a] = recs[a]
      <4>1. op[s].value # "APPROVED"
        BY <2>2, StatusAssumption DEF SaveReconciliation, Swaps, IInv, CallsWellFormed, ValuesOf
      <4> QED BY <1>1, <2>2, <4>1 DEF SaveReconciliation
    <3> QED BY <2>1, <3>1, <3>2 DEF SeparationOfDuties
  <2>3. CASE ApproveReconciliation(s)
    <3> DEFINE a == op[s].item
    <3>1. approvals' = approvals /\ a \in Accounts /\ op[s].user \in Users
      BY <2>3 DEF ApproveReconciliation, Swaps, IInv, CallsWellFormed, ItemsOf, ActorsOf
    <3>2. recs[a].preparer # op[s].user
      BY <2>3 DEF ApproveReconciliation, Swaps, DecisionsFresh
    <3>3. recs'[a].approver = op[s].user /\ recs'[a].preparer = recs[a].preparer
      BY <1>1, <2>3, <3>1 DEF ApproveReconciliation, Rec
    <3>4. \A b \in Accounts \ {a} : recs'[b] = recs[b]
      BY <1>1, <2>3, <3>1 DEF ApproveReconciliation
    <3> HIDE DEF a
    <3> QED BY <2>1, <3>1, <3>2, <3>3, <3>4 DEF SeparationOfDuties
  <2>4. CASE RequestApproval(s)
    <3>1. recs' = recs
      BY <2>4 DEF RequestApproval
    <3>2. \A j \in Journals : approvals'[j].status = "APPROVED" => approvals'[j] = approvals[j]
      BY <1>1, <2>4 DEF RequestApproval
    <3> QED BY <2>1, <3>1, <3>2 DEF SeparationOfDuties
  <2>5. CASE DecideApproval(s)
    <3> DEFINE j == op[s].item
    <3>1. recs' = recs /\ j \in Journals /\ op[s].user \in Users
      BY <2>5 DEF DecideApproval, Swaps, IInv, CallsWellFormed, ItemsOf, ActorsOf
    <3>2. op[s].value = "APPROVED" => approvals[j].requestor # op[s].user
      BY <2>5 DEF DecideApproval, Swaps, DecisionsFresh
    <3>3. /\ approvals'[j].decider = op[s].user /\ approvals'[j].requestor = approvals[j].requestor
          /\ approvals'[j].status = op[s].value
      BY <1>1, <2>5, <3>1 DEF DecideApproval, Approval
    <3>4. \A i \in Journals \ {j} : approvals'[i] = approvals[i]
      BY <1>1, <2>5, <3>1 DEF DecideApproval
    <3> HIDE DEF j
    <3> QED BY <2>1, <3>1, <3>2, <3>3, <3>4 DEF SeparationOfDuties
  <2>6. CASE Transition(s) \/ MaterializeVariances(s) \/ UpdateVariance(s)
             \/ UpdateManualTask(s) \/ CreateCustomTask(s)
    <3>1. recs' = recs /\ approvals' = approvals
      BY <2>6 DEF Transition, MaterializeVariances, UpdateVariance, UpdateManualTask,
                  CreateCustomTask, Controls
    <3> QED BY <2>1, <3>1 DEF SeparationOfDuties
  <2> QED BY <1>4, <2>2, <2>3, <2>4, <2>5, <2>6 DEF Commit
<1> QED BY <1>3, <1>4

LEMMA DecisionsNext ==
  IInv /\ DecisionsFresh /\ SeparationOfDuties /\ [Next]_vars => DecisionsFresh' /\ SeparationOfDuties'
<1> SUFFICES ASSUME IInv, DecisionsFresh, SeparationOfDuties, [Next]_vars
             PROVE  DecisionsFresh' /\ SeparationOfDuties'
  OBVIOUS
<1>1. ASSUME NEW s \in Sessions, NEW c \in Requests, NEW u \in ActorsOf(c), NEW i \in ItemsOf(c),
             Begin(s, u, c, i)
      PROVE  DecisionsFresh' /\ SeparationOfDuties'
  <2> DEFINE o == [Idle EXCEPT !.call = c, !.user = u, !.item = i,
                     !.status = status, !.content = content, !.rev = lrev]
  <2>1. ~o.looked
    BY DEF Idle
  <2>2. op' = [op EXCEPT ![s] = o] /\ UNCHANGED <<content, recs, approvals>>
    BY <1>1 DEF Begin, cycleVars, Controls
  <2> HIDE DEF o
  <2> QED BY <2>1, <2>2, OpDecisions
<1>2. ASSUME NEW s \in Sessions, Abort(s) PROVE DecisionsFresh' /\ SeparationOfDuties'
  BY <1>2, IdleNotLooked, OpDecisions DEF Abort, cycleVars, Controls
<1>3. CASE Close \/ Reopen
  <2>1. content' = content + 1 /\ op' = op /\ recs' = recs /\ approvals' = approvals
    BY <1>3 DEF Close, Reopen, Controls
  <2> QED BY <2>1, ContentDecisions DEF SeparationOfDuties
<1>4. CASE (\E j \in Journals : Post(j)) \/ PostEarlier \/ Ingest \/ UNCHANGED vars
  <2>1. UNCHANGED <<content, op, recs, approvals>>
    BY <1>4 DEF Post, PostEarlier, Ingest, vars, cycleVars, Controls
  <2> QED BY <2>1 DEF DecisionsFresh, SeparationOfDuties
<1> QED BY <1>1, <1>2, <1>3, <1>4, LookDecisions, CommitDecisions DEF Next

(* Nobody ends up having approved a balance they prepared or a journal they  *)
(* requested approval for, whatever raced with the decision.                 *)
THEOREM DutiesSeparated == Spec => []SeparationOfDuties
<1>1. Init => DecisionsFresh /\ SeparationOfDuties
  BY DEF Init, DecisionsFresh, SeparationOfDuties, Idle, NoRec, NoApproval
<1>2. IInv /\ DecisionsFresh /\ SeparationOfDuties /\ [Next]_vars
        => DecisionsFresh' /\ SeparationOfDuties'
  BY DecisionsNext
<1> QED BY <1>1, <1>2, InductiveInvariant, PTL DEF Spec

-----------------------------------------------------------------------------
(* Stamps: a revision and the ledger state read with it                     *)

\* If the revision is still the period's, what was read misses no journal of it.
Stamped(rev, basis) == rev <= lrev /\ (rev = lrev => Covers(basis))

\* The calls that read numbers and stamp them later with the revision they read before.
Stamps(o) ==
    /\ o.looked
    /\ \/ o.call \in {"prepare_reconciliation", "record_generation"}
       \/ o.call = "materialize_variances" /\ o.value = "fresh"

StampsInv ==
    /\ lrev > 0
    /\ \A a \in Accounts : Stamped(recs[a].rev, recs[a].basis)
    /\ run.fresh => Stamped(run.rev, run.basis)
    /\ Stamped(evidence.rev, evidence.basis)
    /\ \A s \in Sessions : Stamps(op[s]) => Stamped(op[s].rev, op[s].basis)

\* Only op[s] moves, and if it is to stamp something, it has just read it.
LEMMA OpStamps ==
  ASSUME IInv, StampsInv, NEW s \in Sessions, NEW o, op' = [op EXCEPT ![s] = o],
         UNCHANGED <<lrev, earlier, recs, run, evidence>>,
         Stamps(o) => Stamped(o.rev, o.basis)
  PROVE  StampsInv'
<1>1. op'[s] = o /\ \A t \in Sessions : t # s => op'[t] = op[t]
  BY DEF IInv, TypeOK
<1>2. \A rev, basis : Stamped(rev, basis)' <=> Stamped(rev, basis)
  BY DEF Stamped, Covers, LedgerState
<1> QED BY <1>1, <1>2 DEF StampsInv, Stamps

\* What is read now covers the revision read before, if nobody posted since.
LEMMA NowCovers ==
  ASSUME IInv, NEW rev, rev <= lrev
  PROVE  Stamped(rev, LedgerState)
  BY DEF IInv, TypeOK, Stamped, Covers, LedgerState

LEMMA IdleStampsNothing == ~Stamps(Idle)
  BY DEF Stamps, Idle

LEMMA LookStamps ==
  ASSUME IInv, StampsInv, NEW s \in Sessions, Look(s)
  PROVE  StampsInv'
<1>1. /\ op[s] \in Op /\ op[s].call # "none" /\ op[s].rev <= lrev
      /\ UNCHANGED <<lrev, earlier, recs, run, evidence>>
  BY LookOnlyReads DEF IInv, TypeOK, ReadsFresh, OnlyReads, periodVars, Controls
<1>2. ASSUME NEW b, NEW v, NEW x, Saw(s, b, v, x),
             \/ b = LedgerState
             \/ /\ op[s].call \notin {"prepare_reconciliation", "record_generation"}
                /\ op[s].call = "materialize_variances" => x # "fresh"
      PROVE  StampsInv'
  <2> DEFINE o == [op[s] EXCEPT !.looked = TRUE, !.basis = b, !.version = v, !.value = x]
  <2>1. o.call = op[s].call /\ o.rev = op[s].rev /\ o.basis = b /\ o.value = x
    BY <1>1 DEF Op
  <2>2. op' = [op EXCEPT ![s] = o]
    BY <1>2 DEF Saw
  <2>3. Stamps(o) => Stamped(o.rev, o.basis)
    BY <1>1, <1>2, <2>1, NowCovers DEF Stamps
  <2> HIDE DEF o
  <2> QED BY <1>1, <2>2, <2>3, OpStamps
<1>3. CASE LookPrepare(s) \/ LookEvidence(s)
  BY <1>2, <1>3 DEF LookPrepare, LookEvidence
<1>4. CASE LookVariances(s)
  <2>1. op[s].call = "materialize_variances"
    BY <1>4 DEF LookVariances, Looks
  <2> QED BY <1>2, <1>4, <2>1 DEF LookVariances
<1>5. CASE ~LookPrepare(s) /\ ~LookEvidence(s) /\ ~LookVariances(s)
  <2>1. op[s].call \notin {"prepare_reconciliation", "record_generation", "materialize_variances"}
        /\ \E b, v, x : Saw(s, b, v, x)
    BY <1>5 DEF Look, Looks, LookReady, LookApproveRec, LookVariance, LookRequest, LookDecide,
                LookTask, LookNewTask
  <2> QED BY <1>2, <2>1
<1> QED BY <1>3, <1>4, <1>5

LEMMA CommitStamps ==
  ASSUME IInv, StampsInv, NEW s \in Sessions, Commit(s)
  PROVE  StampsInv'
<1>1. /\ op' = [op EXCEPT ![s] = Idle] /\ op \in [Sessions -> Op]
      /\ recs \in [Accounts -> Rec] /\ run \in Run
      /\ lrev' = lrev /\ earlier' = earlier
  BY DEF Commit, Transition, SaveReconciliation, ApproveReconciliation, MaterializeVariances,
         UpdateVariance, RequestApproval, DecideApproval, UpdateManualTask, CreateCustomTask,
         RecordGeneration, BumpContent, periodVars, IInv, TypeOK
<1>3. lrev' > 0 /\ \A t \in Sessions : Stamps(op'[t]) => Stamped(op'[t].rev, op'[t].basis)
  <2> SUFFICES ASSUME NEW t \in Sessions, Stamps(op'[t])
               PROVE  Stamped(op'[t].rev, op'[t].basis)
    BY <1>1 DEF StampsInv
  <2>1. op'[t] = op[t]
    BY <1>1, IdleStampsNothing
  <2> QED BY <2>1 DEF StampsInv
<1>4. ASSUME \A a \in Accounts : Stamped(recs'[a].rev, recs'[a].basis),
             run'.fresh => Stamped(run'.rev, run'.basis),
             Stamped(evidence'.rev, evidence'.basis)
      PROVE  StampsInv'
  BY <1>1, <1>3, <1>4 DEF StampsInv, Stamps, Stamped, Covers, LedgerState
<1>5. /\ \A a \in Accounts : Stamped(recs[a].rev, recs[a].basis)
      /\ run.fresh => Stamped(run.rev, run.basis)
      /\ Stamped(evidence.rev, evidence.basis)
      /\ Stamps(op[s]) => Stamped(op[s].rev, op[s].basis)
  BY DEF StampsInv
<1>6. CASE SaveReconciliation(s)
  <2>1. Stamped(op[s].rev, op[s].basis) /\ run' = run /\ evidence' = evidence
    BY <1>5, <1>6 DEF SaveReconciliation, Swaps, Stamps, BumpContent
  <2>2. \A a \in Accounts : recs'[a] = recs[a] \/ (recs'[a].rev = op[s].rev /\ recs'[a].basis = op[s].basis)
    <3> DEFINE r == [status |-> op[s].value, rev |-> op[s].rev, basis |-> op[s].basis,
                     preparer |-> op[s].user, approver |-> NoOne, version |-> op[s].version + 1]
    <3>1. recs' = [recs EXCEPT ![op[s].item] = r]
      BY <1>6 DEF SaveReconciliation
    <3>2. r.rev = op[s].rev /\ r.basis = op[s].basis
      OBVIOUS
    <3> HIDE DEF r
    <3>3. \A a \in Accounts : recs'[a] = recs[a] \/ recs'[a] = r
      BY <1>1, <3>1
    <3> QED BY <3>2, <3>3
  <2>3. \A a \in Accounts : Stamped(recs'[a].rev, recs'[a].basis)
    BY <1>5, <2>1, <2>2
  <2> QED BY <1>4, <1>5, <2>1, <2>3
<1>7. CASE ApproveReconciliation(s)
  <2>1. run' = run /\ evidence' = evidence
    BY <1>7 DEF ApproveReconciliation, BumpContent
  <2>2. \A a \in Accounts : recs'[a].rev = recs[a].rev /\ recs'[a].basis = recs[a].basis
    BY <1>1, <1>7 DEF ApproveReconciliation, Rec
  <2>3. \A a \in Accounts : Stamped(recs'[a].rev, recs'[a].basis)
    BY <1>5, <2>2
  <2> QED BY <1>4, <1>5, <2>1, <2>3
<1>8. CASE MaterializeVariances(s)
  <2>1. recs' = recs /\ evidence' = evidence
    BY <1>8 DEF MaterializeVariances, BumpContent
  <2>2. /\ run'.rev = op[s].rev /\ run'.basis = op[s].basis
        /\ run'.fresh <=> op[s].value = "fresh"
    <3>1. PICK material \in BOOLEAN :
            run' = [rev |-> op[s].rev, basis |-> op[s].basis, fresh |-> (op[s].value = "fresh"),
                    material |-> material, resolved |-> FALSE, version |-> 1]
      BY <1>8 DEF MaterializeVariances
    <3>2. run'.rev = op[s].rev /\ run'.basis = op[s].basis
      BY <3>1
    <3>3. run'.fresh = (op[s].value = "fresh")
      BY <3>1
    <3> QED BY <3>2, <3>3
  <2>3. run'.fresh => Stamped(run'.rev, run'.basis)
    BY <1>5, <1>8, <2>2 DEF MaterializeVariances, Swaps, Stamps
  <2> QED BY <1>4, <1>5, <2>1, <2>3
<1>9. CASE UpdateVariance(s)
  <2>1. recs' = recs /\ evidence' = evidence
    BY <1>9 DEF UpdateVariance, BumpContent
  <2>2. run'.rev = run.rev /\ run'.basis = run.basis /\ run'.fresh = run.fresh
    BY <1>1, <1>9 DEF UpdateVariance, Run
  <2> QED BY <1>4, <1>5, <2>1, <2>2
<1>10. CASE RecordGeneration(s)
  <2>1. recs' = recs /\ run' = run
    BY <1>10 DEF RecordGeneration, Controls
  <2>2. evidence'.rev = op[s].rev /\ evidence'.basis = op[s].basis
    BY <1>10 DEF RecordGeneration
  <2>3. Stamped(evidence'.rev, evidence'.basis)
    BY <1>5, <1>10, <2>2 DEF RecordGeneration, Swaps, Stamps
  <2> QED BY <1>4, <1>5, <2>1, <2>3
<1>11. CASE Transition(s) \/ RequestApproval(s) \/ DecideApproval(s) \/ UpdateManualTask(s)
            \/ CreateCustomTask(s)
  <2>1. recs' = recs /\ run' = run /\ evidence' = evidence
    BY <1>11 DEF Transition, RequestApproval, DecideApproval, UpdateManualTask, CreateCustomTask,
                 BumpContent, Controls
  <2> QED BY <1>4, <1>5, <2>1
<1> QED BY <1>6, <1>7, <1>8, <1>9, <1>10, <1>11 DEF Commit

LEMMA StampsNext == IInv /\ StampsInv /\ [Next]_vars => StampsInv'
<1> SUFFICES ASSUME IInv, StampsInv, [Next]_vars PROVE StampsInv'
  OBVIOUS
<1>1. ASSUME NEW s \in Sessions, NEW c \in Requests, NEW u \in ActorsOf(c), NEW i \in ItemsOf(c),
             Begin(s, u, c, i)
      PROVE  StampsInv'
  <2> DEFINE o == [Idle EXCEPT !.call = c, !.user = u, !.item = i,
                     !.status = status, !.content = content, !.rev = lrev]
  <2>1. ~Stamps(o)
    BY DEF Idle, Stamps
  <2>2. op' = [op EXCEPT ![s] = o] /\ UNCHANGED <<lrev, earlier, recs, run, evidence>>
    BY <1>1 DEF Begin, periodVars, Controls
  <2> HIDE DEF o
  <2> QED BY <2>1, <2>2, OpStamps
<1>2. ASSUME NEW s \in Sessions, Abort(s) PROVE StampsInv'
  BY <1>2, IdleStampsNothing, OpStamps DEF Abort, periodVars, Controls
<1>3. CASE Close \/ Reopen
  <2>1. UNCHANGED <<lrev, earlier, recs, run, op>>
    BY <1>3 DEF Close, Reopen, Controls
  <2>2. \A rev, basis : Stamped(rev, basis)' <=> Stamped(rev, basis)
    BY <2>1 DEF Stamped, Covers, LedgerState
  <2>3. Stamped(evidence'.rev, evidence'.basis)
    <3>1. evidence' = evidence \/ (evidence'.rev = lrev /\ evidence'.basis = LedgerState)
      <4>1. Reopen => evidence' = evidence
        BY DEF Reopen
      <4>2. Close => evidence'.rev = lrev /\ evidence'.basis = LedgerState
        BY DEF Close
      <4> QED BY <1>3, <4>1, <4>2
    <3>2. lrev <= lrev
      BY DEF IInv, TypeOK
    <3> QED BY <3>1, <3>2, NowCovers DEF StampsInv
  <2> QED BY <2>1, <2>2, <2>3 DEF StampsInv, Stamps
<1>4. CASE \E j \in Journals : Post(j)
  <2>1. /\ lrev \in Nat /\ lrev' = lrev + 1
        /\ UNCHANGED <<recs, run, evidence, op>>
    BY <1>4 DEF IInv, TypeOK, Post, Controls
  <2>2. \A rev \in Nat : \A basis : Stamped(rev, basis) => Stamped(rev, basis)'
    BY <2>1 DEF Stamped
  <2>3. /\ \A a \in Accounts : recs[a].rev \in Nat
        /\ run.rev \in Nat /\ evidence.rev \in Nat
        /\ \A s \in Sessions : op[s].rev \in Nat
    BY DEF IInv, TypeOK, Rec, Run, Evidence, Op
  <2> QED BY <2>1, <2>2, <2>3 DEF StampsInv, Stamps
<1>5. CASE PostEarlier
  <2>1. /\ lrev \in Nat /\ earlier \in Nat /\ lrev' = lrev /\ earlier' = earlier + 1
        /\ UNCHANGED <<recs, run, evidence, op>>
    BY <1>5 DEF IInv, TypeOK, PostEarlier, Controls
  <2>2. \A rev, basis : Stamped(rev, basis) => Stamped(rev, basis)'
    BY <2>1 DEF Stamped, Covers, LedgerState
  <2> QED BY <2>1, <2>2 DEF StampsInv, Stamps
<1>6. CASE Ingest \/ UNCHANGED vars
  <2>1. UNCHANGED <<lrev, earlier, recs, run, evidence, op>>
    BY <1>6 DEF Ingest, vars, periodVars, Controls
  <2> QED BY <2>1 DEF StampsInv, Stamps, Stamped, Covers, LedgerState
<1> QED BY <1>1, <1>2, <1>3, <1>4, <1>5, <1>6, LookStamps, CommitStamps DEF Next

LEMMA StampsHold == Spec => []StampsInv
<1>1. Init => StampsInv
  <2> SUFFICES ASSUME Init PROVE StampsInv
    OBVIOUS
  <2>1. lrev = 1
    BY DEF Init
  <2>2. \A basis : Stamped(0, basis)
    BY <2>1 DEF Stamped
  <2> QED BY <2>1, <2>2, IdleStampsNothing DEF Init, StampsInv, NoRec, NoRun, NoEvidence
<1>2. IInv /\ StampsInv /\ [Next]_vars => StampsInv'
  BY StampsNext
<1> QED BY <1>1, <1>2, InductiveInvariant, PTL DEF Spec

(* prepare_reconciliation and materialize_variances read the period's        *)
(* revision before the numbers they stamp with it: a journal posted in       *)
(* between makes the stamp old, never the numbers wrong.                     *)
THEOREM StampsAreHonest == Spec => []ControlsMatchLedger
<1>1. StampsInv => ControlsMatchLedger
  BY DEF StampsInv, Stamped, ControlsMatchLedger, ReconciliationMatchesLedger, VarianceMatchesLedger
<1> QED BY <1>1, StampsHold, PTL

(* No read of build_bundle is locked, and still evidence that counts as      *)
(* current shows the period's journals as they stand.                        *)
THEOREM EvidenceIsOfTheLedger == Spec => []EvidenceMatchesLedger
<1>1. StampsInv => EvidenceMatchesLedger
  BY DEF StampsInv, Stamped, EvidenceMatchesLedger, EvidenceCurrent
<1> QED BY <1>1, StampsHold, PTL

-----------------------------------------------------------------------------
(* Caps: a count stays true until the content moves                         *)

TaskRows == {t \in CustomTasks : tasks[t].status # "ABSENT"}
ApprovalRows == {j \in Journals : approvals[j].status # "ABSENT"}

\* What a call that adds or changes a row has seen of the rows there are.
SawRoom(o) ==
    /\ o.call = "create_custom_task" => Cardinality(TaskRows) < TaskCap
    /\ o.call = "update_manual_task" => tasks[o.item].status # "ABSENT"
    /\ o.call = "request_approval" =>
         approvals[o.item].status # "ABSENT" \/ Cardinality(ApprovalRows) < ApprovalCap
    /\ o.call = "decide_approval" => approvals[o.item].status # "ABSENT"

RowsBounded ==
    /\ IsFiniteSet(TaskRows) /\ Cardinality(TaskRows) <= TaskCap
    /\ IsFiniteSet(ApprovalRows) /\ Cardinality(ApprovalRows) <= ApprovalCap

CapsInv ==
    /\ RowsBounded
    /\ \A s \in Sessions : op[s].looked /\ op[s].content = content => SawRoom(op[s])

LEMMA SameRows ==
  ASSUME tasks' = tasks, approvals' = approvals
  PROVE  /\ RowsBounded => RowsBounded'
         /\ \A s \in Sessions : op'[s] = op[s] /\ SawRoom(op[s]) => SawRoom(op[s])'
  BY DEF RowsBounded, TaskRows, ApprovalRows, SawRoom

\* Only op[s] moves, to a call that has not looked or has just seen the rows.
LEMMA OpCaps ==
  ASSUME IInv, CapsInv, NEW s \in Sessions, NEW o, op' = [op EXCEPT ![s] = o],
         UNCHANGED <<content, tasks, approvals>>,
         o.looked /\ o.content = content => SawRoom(o)
  PROVE  CapsInv'
<1>1. op'[s] = o /\ \A t \in Sessions : t # s => op'[t] = op[t]
  BY DEF IInv, TypeOK
<1>2. RowsBounded'
  BY SameRows DEF CapsInv
<1>3. \A t \in Sessions : op'[t].looked /\ op'[t].content = content => SawRoom(op'[t])
  BY <1>1 DEF CapsInv
<1> QED BY <1>2, <1>3 DEF CapsInv, SawRoom, TaskRows, ApprovalRows

\* After the content moved no count taken before it is relied on.
LEMMA ContentCaps ==
  ASSUME IInv, content' = content + 1, \A t \in Sessions : op'[t] \in {op[t], Idle}, RowsBounded'
  PROVE  CapsInv'
<1>1. ASSUME NEW t \in Sessions, op'[t].looked, op'[t].call # "none"
      PROVE  op'[t].content # content'
  <2>1. op'[t] = op[t]
    BY <1>1, IdleNotLooked
  <2>2. op[t].content \in Nat /\ content \in Nat
    BY DEF IInv, TypeOK, Op
  <2> QED BY <1>1, <2>1, <2>2 DEF IInv, ReadsFresh
<1> QED BY <1>1 DEF CapsInv, SawRoom

LEMMA LookCaps ==
  ASSUME IInv, CapsInv, NEW s \in Sessions, Look(s)
  PROVE  CapsInv'
<1>1. op[s] \in Op /\ UNCHANGED <<content, tasks, approvals>>
  BY LookOnlyReads DEF IInv, TypeOK, OnlyReads, cycleVars, Controls
<1>2. ASSUME NEW b, NEW v, NEW x, Saw(s, b, v, x), SawRoom(op[s]) PROVE CapsInv'
  <2> DEFINE o == [op[s] EXCEPT !.looked = TRUE, !.basis = b, !.version = v, !.value = x]
  <2>1. o.call = op[s].call /\ o.item = op[s].item
    BY <1>1 DEF Op
  <2>2. op' = [op EXCEPT ![s] = o]
    BY <1>2 DEF Saw
  <2> HIDE DEF o
  <2>3. SawRoom(o)
    BY <1>2, <2>1 DEF SawRoom
  <2> QED BY <1>1, <2>2, <2>3, OpCaps
<1>3. CASE LookNewTask(s)
  <2>1. SawRoom(op[s])
    BY <1>3 DEF LookNewTask, Looks, SawRoom, TaskRows
  <2> QED BY <1>2, <1>3, <2>1 DEF LookNewTask
<1>4. CASE LookTask(s)
  <2>1. SawRoom(op[s])
    BY <1>4 DEF LookTask, Looks, SawRoom
  <2> QED BY <1>2, <1>4, <2>1 DEF LookTask
<1>5. CASE LookRequest(s)
  <2>1. SawRoom(op[s])
    BY <1>5 DEF LookRequest, Looks, SawRoom, ApprovalRows
  <2> QED BY <1>2, <1>5, <2>1 DEF LookRequest
<1>6. CASE LookDecide(s)
  <2>1. SawRoom(op[s])
    BY <1>6 DEF LookDecide, Looks, SawRoom
  <2> QED BY <1>2, <1>6, <2>1 DEF LookDecide
<1>7. CASE ~LookNewTask(s) /\ ~LookTask(s) /\ ~LookRequest(s) /\ ~LookDecide(s)
  <2>1. op[s].call \notin {"create_custom_task", "update_manual_task", "request_approval",
                           "decide_approval"}
        /\ \E b, v, x : Saw(s, b, v, x)
    BY <1>7 DEF Look, Looks, LookReady, LookPrepare, LookApproveRec, LookVariances, LookVariance,
                LookEvidence
  <2> QED BY <1>2, <2>1 DEF SawRoom
<1> QED BY <1>3, <1>4, <1>5, <1>6, <1>7

LEMMA OneMoreRow ==
  ASSUME NEW S, NEW x, NEW cap \in Nat, IsFiniteSet(S), Cardinality(S) <= cap,
         x \in S \/ Cardinality(S) < cap
  PROVE  IsFiniteSet(S \cup {x}) /\ Cardinality(S \cup {x}) <= cap
<1>1. Cardinality(S) \in Nat
  BY FS_CardinalityType
<1>2. /\ IsFiniteSet(S \cup {x})
      /\ Cardinality(S \cup {x}) = IF x \in S THEN Cardinality(S) ELSE Cardinality(S) + 1
  BY FS_AddElement
<1> QED BY <1>1, <1>2

LEMMA CommitCaps ==
  ASSUME IInv, CapsInv, NEW s \in Sessions, Commit(s)
  PROVE  CapsInv'
<1>1. /\ op' = [op EXCEPT ![s] = Idle] /\ op \in [Sessions -> Op]
      /\ tasks \in [Tasks -> Task] /\ approvals \in [Journals -> Approval]
  BY DEF Commit, Transition, SaveReconciliation, ApproveReconciliation, MaterializeVariances,
         UpdateVariance, RequestApproval, DecideApproval, UpdateManualTask, CreateCustomTask,
         RecordGeneration, BumpContent, IInv, TypeOK
<1>2. \A t \in Sessions : op'[t] \in {op[t], Idle}
  BY <1>1
<1>3. CASE RecordGeneration(s)
  BY <1>1, <1>3, IdleNotLooked, OpCaps DEF RecordGeneration, cycleVars, Controls
<1>4. ASSUME ~RecordGeneration(s), RowsBounded' PROVE CapsInv'
  <2>1. content' = content + 1
    BY <1>4 DEF Commit, Transition, SaveReconciliation, ApproveReconciliation, MaterializeVariances,
       UpdateVariance, RequestApproval, DecideApproval, UpdateManualTask, CreateCustomTask, BumpContent
  <2> QED BY <1>2, <1>4, <2>1, ContentCaps
<1>5. RowsBounded
  BY DEF CapsInv
<1>6. ASSUME op[s].looked, content = op[s].content PROVE SawRoom(op[s])
  BY <1>6 DEF CapsInv
<1>7. CASE CreateCustomTask(s)
  <2>1. op[s].item \in CustomTasks /\ Cardinality(TaskRows) < TaskCap /\ approvals' = approvals
    BY <1>6, <1>7 DEF CreateCustomTask, Swaps, IInv, CallsWellFormed, ItemsOf, SawRoom
  <2>2. TaskRows' = TaskRows \cup {op[s].item}
    BY <1>1, <1>7, <2>1 DEF CreateCustomTask, TaskRows, Tasks
  <2>3. IsFiniteSet(TaskRows') /\ Cardinality(TaskRows') <= TaskCap
    BY <1>5, <2>1, <2>2, OneMoreRow, BoundsAssumption DEF RowsBounded
  <2>4. ApprovalRows' = ApprovalRows
    BY <2>1 DEF ApprovalRows
  <2>5. RowsBounded'
    BY <1>5, <2>3, <2>4 DEF RowsBounded
  <2> QED BY <1>4, <1>7, <2>5 DEF CreateCustomTask, RecordGeneration, Swaps
<1>8. CASE UpdateManualTask(s)
  <2>1. op[s].item \in Tasks /\ tasks[op[s].item].status # "ABSENT" /\ approvals' = approvals
    BY <1>6, <1>8 DEF UpdateManualTask, Swaps, IInv, CallsWellFormed, ItemsOf, SawRoom
  <2>2. op[s].value # "ABSENT"
    BY <1>8 DEF UpdateManualTask, Swaps, IInv, CallsWellFormed, ValuesOf
  <2>3. TaskRows' = TaskRows /\ ApprovalRows' = ApprovalRows
    BY <1>1, <1>8, <2>1, <2>2 DEF UpdateManualTask, TaskRows, ApprovalRows, Tasks
  <2>4. RowsBounded'
    BY <1>5, <2>3 DEF RowsBounded
  <2> QED BY <1>4, <1>8, <2>4 DEF UpdateManualTask, RecordGeneration, Swaps
<1>9. CASE RequestApproval(s)
  <2> DEFINE j == op[s].item
  <2>1. /\ j \in Journals /\ tasks' = tasks
        /\ approvals[j].status # "ABSENT" \/ Cardinality(ApprovalRows) < ApprovalCap
    BY <1>6, <1>9 DEF RequestApproval, Swaps, IInv, CallsWellFormed, ItemsOf, SawRoom
  <2>2. ApprovalRows' = ApprovalRows \cup {j} /\ TaskRows' = TaskRows
    BY <1>1, <1>9, <2>1 DEF RequestApproval, ApprovalRows, TaskRows
  <2>3. j \in ApprovalRows \/ Cardinality(ApprovalRows) < ApprovalCap
    BY <2>1 DEF ApprovalRows
  <2> HIDE DEF j
  <2>4. IsFiniteSet(ApprovalRows') /\ Cardinality(ApprovalRows') <= ApprovalCap
    BY <1>5, <2>2, <2>3, OneMoreRow, BoundsAssumption DEF RowsBounded
  <2>5. RowsBounded'
    BY <1>5, <2>2, <2>4 DEF RowsBounded
  <2> QED BY <1>4, <1>9, <2>5 DEF RequestApproval, RecordGeneration, Swaps
<1>10. CASE DecideApproval(s)
  <2>1. op[s].item \in Journals /\ approvals[op[s].item].status # "ABSENT" /\ tasks' = tasks
    BY <1>6, <1>10 DEF DecideApproval, Swaps, IInv, CallsWellFormed, ItemsOf, SawRoom
  <2>2. op[s].value # "ABSENT"
    BY <1>10 DEF DecideApproval, Swaps, IInv, CallsWellFormed, ValuesOf
  <2>3. TaskRows' = TaskRows /\ ApprovalRows' = ApprovalRows
    BY <1>1, <1>10, <2>1, <2>2 DEF DecideApproval, TaskRows, ApprovalRows, Approval
  <2>4. RowsBounded'
    BY <1>5, <2>3 DEF RowsBounded
  <2> QED BY <1>4, <1>10, <2>4 DEF DecideApproval, RecordGeneration, Swaps
<1>11. CASE Transition(s) \/ SaveReconciliation(s) \/ ApproveReconciliation(s)
            \/ MaterializeVariances(s) \/ UpdateVariance(s)
  <2>1. tasks' = tasks /\ approvals' = approvals
    BY <1>11 DEF Transition, SaveReconciliation, ApproveReconciliation, MaterializeVariances,
                 UpdateVariance, Controls
  <2>2. RowsBounded'
    BY <1>5, <2>1, SameRows
  <2> QED BY <1>4, <1>11, <2>2 DEF Transition, SaveReconciliation, ApproveReconciliation,
             MaterializeVariances, UpdateVariance, RecordGeneration, Swaps, Transitions
<1> QED BY <1>3, <1>7, <1>8, <1>9, <1>10, <1>11 DEF Commit

LEMMA CapsNext == IInv /\ CapsInv /\ [Next]_vars => CapsInv'
<1> SUFFICES ASSUME IInv, CapsInv, [Next]_vars PROVE CapsInv'
  OBVIOUS
<1>1. ASSUME NEW s \in Sessions, NEW c \in Requests, NEW u \in ActorsOf(c), NEW i \in ItemsOf(c),
             Begin(s, u, c, i)
      PROVE  CapsInv'
  <2> DEFINE o == [Idle EXCEPT !.call = c, !.user = u, !.item = i,
                     !.status = status, !.content = content, !.rev = lrev]
  <2>1. ~o.looked
    BY DEF Idle
  <2>2. op' = [op EXCEPT ![s] = o] /\ UNCHANGED <<content, tasks, approvals>>
    BY <1>1 DEF Begin, cycleVars, Controls
  <2> HIDE DEF o
  <2> QED BY <2>1, <2>2, OpCaps
<1>2. ASSUME NEW s \in Sessions, Abort(s) PROVE CapsInv'
  BY <1>2, IdleNotLooked, OpCaps DEF Abort, cycleVars, Controls
<1>3. CASE Close \/ Reopen
  <2>1. content' = content + 1 /\ op' = op /\ tasks' = tasks /\ approvals' = approvals
    BY <1>3 DEF Close, Reopen, Controls
  <2> QED BY <2>1, ContentCaps, SameRows DEF CapsInv
<1>4. CASE (\E j \in Journals : Post(j)) \/ PostEarlier \/ Ingest \/ UNCHANGED vars
  <2>1. UNCHANGED <<content, op, tasks, approvals>>
    BY <1>4 DEF Post, PostEarlier, Ingest, vars, cycleVars, Controls
  <2> QED BY <2>1 DEF CapsInv, RowsBounded, TaskRows, ApprovalRows, SawRoom
<1> QED BY <1>1, <1>2, <1>3, <1>4, LookCaps, CommitCaps DEF Next

(* MAX_CUSTOM_CLOSE_TASKS and MAX_JOURNAL_APPROVALS_PER_CYCLE hold although  *)
(* nothing locks the rows that are counted: of two calls that counted one    *)
(* row below the cap one loses its compare-and-swap.                         *)
THEOREM CapsStay == Spec => []CapsHold
<1>1. Init => CapsInv
  <2> SUFFICES ASSUME Init PROVE CapsInv
    OBVIOUS
  <2>1. TaskRows = {}
    BY CustomTasksAssumption DEF Init, TaskRows, Tasks
  <2>2. ApprovalRows = {}
    BY DEF Init, ApprovalRows, NoApproval
  <2>3. RowsBounded
    BY <2>1, <2>2, FS_EmptySet, BoundsAssumption DEF RowsBounded
  <2> QED BY <2>3, IdleNotLooked DEF Init, CapsInv
<1>2. IInv /\ CapsInv /\ [Next]_vars => CapsInv'
  BY CapsNext
<1>3. CapsInv => CapsHold
  BY DEF CapsInv, RowsBounded, CapsHold, TaskRows, ApprovalRows
<1> QED BY <1>1, <1>2, <1>3, InductiveInvariant, PTL DEF Spec

=============================================================================
