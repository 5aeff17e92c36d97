---------------------------- MODULE StagedPosting ----------------------------
(***************************************************************************)
(* The staging area of one organization: /workflow/ingest and              *)
(* /workflow/process (routers/workflow.py, workflow_service.py).           *)
(*                                                                         *)
(* A staged row is read before the database's writer position is held, and *)
(* the session keeps that copy (expire_on_commit is off, and a SELECT does *)
(* not refresh what the identity map holds) until a rollback expires it.   *)
(* From its first write to its commit a session works on a draft nobody    *)
(* else sees.                                                              *)
(***************************************************************************)
EXTENDS Integers, Sequences, FiniteSets

CONSTANTS
    Sessions,     \* database sessions, one per request being served
    Refs,         \* source_reference values, per transaction
    NoRef,        \* a transaction ingested without one
    Payloads,     \* [account, balanced, currency] of the inputs
    Accounts,     \* accounts a payload may name
    MaxRows,      \* bound: StagedTransaction rows
    MaxJournals,  \* bound: Transaction rows
    MaxBatch,     \* bound: transactions of one ingest call
    Requests,     \* the requests clients make: "ingest", "auto_process", "validate", "post"
    NoSession     \* nobody holds the writer position

ASSUME MaxRowsAssumption == MaxRows \in Nat
ASSUME MaxJournalsAssumption == MaxJournals \in Nat
ASSUME MaxBatchAssumption == MaxBatch \in Nat
ASSUME RequestsAssumption == Requests \subseteq {"ingest", "auto_process", "validate", "post"}
ASSUME NoSessionAssumption == NoSession \notin Sessions
ASSUME NoRefAssumption == NoRef \notin Refs
ASSUME AccountsAssumption == Accounts # {}
ASSUME PayloadsAssumption ==
    Payloads \subseteq [account : Accounts, balanced : BOOLEAN, currency : {"omitted", "named"}]

VARIABLES
    db,          \* committed rows, journals and the period's ledger_activity_revision
    draft,       \* the writer's own copy of db
    writer,      \* the session holding the writer position
    period,      \* the period every row is dated in: "OPEN", "READY" or "CLOSED"
    chart,       \* accounts that exist
    op,          \* what each session's call has read and still has to do
    contended,   \* history: rows two calls held at the same time
    raced,       \* history: references two ingest calls were staging at the same time
    refused      \* history: pairs <<given, incoming>> of refused repeated ingests

vars == <<db, draft, writer, period, chart, op, contended, raced, refused>>

Ids == 1..MaxRows
NoRow == 0
NoTxn == 0
Unread == MaxRows + 1
Calls == {"none", "ingest", "process", "failing"}
Status == {"ABSENT", "INGESTED", "VALIDATED", "FAILED", "POSTED"}
AnyPayload == [account : Accounts, balanced : BOOLEAN, currency : {"omitted", "named"}]
Row == [status : Status, txn : 0..MaxJournals, ref : Refs \cup {NoRef},
        given : AnyPayload, payload : AnyPayload]
Incoming == [ref : Refs \cup {NoRef}, payload : Payloads]
Database == [rows : [Ids -> Row], journals : SUBSET [id : 1..MaxJournals, row : Ids], rev : Nat]
Op == [call : Calls, auto : BOOLEAN, commit : BOOLEAN, batch : Seq(Incoming),
       found : Ids \cup {NoRow, Unread}, todo : SUBSET Ids, done : SUBSET Ids,
       view : [Ids -> Row], expired : SUBSET Ids]

SomePayload == CHOOSE p \in AnyPayload : TRUE
NoRowYet == [status |-> "ABSENT", txn |-> NoTxn, ref |-> NoRef,
             given |-> SomePayload, payload |-> SomePayload]
NothingRead == [i \in Ids |-> NoRowYet]
Empty == [rows |-> NothingRead, journals |-> {}, rev |-> 1]
Idle == [call |-> "none", auto |-> FALSE, commit |-> TRUE, batch |-> <<>>, found |-> Unread,
         todo |-> {}, done |-> {}, view |-> NothingRead, expired |-> {}]

TypeOK ==
    /\ db \in Database
    /\ draft \in Database
    /\ writer \in Sessions \cup {NoSession}
    /\ period \in {"OPEN", "READY", "CLOSED"}
    /\ chart \subseteq Accounts
    /\ op \in [Sessions -> Op]
    /\ contended \subseteq Ids
    /\ raced \subseteq Refs
    /\ refused \subseteq AnyPayload \X AnyPayload

Init ==
    /\ db = Empty
    /\ draft = Empty
    /\ writer = NoSession
    /\ period = "OPEN"
    /\ chart \in SUBSET Accounts
    /\ op = [s \in Sessions |-> Idle]
    /\ contended = {}
    /\ raced = {}
    /\ refused = {}

-----------------------------------------------------------------------------
(* The session: what it sees, and how it writes.                           *)

CanWrite(s) == writer \in {NoSession, s}
Sees(s) == IF writer = s THEN draft ELSE db

\* The call goes on and its writes stay in the draft.
Flush(s, new) ==
    /\ CanWrite(s)
    /\ writer' = s
    /\ draft' = new
    /\ db' = db

\* The writes become everybody's.
Commit(s, new) ==
    /\ CanWrite(s)
    /\ writer' = NoSession
    /\ draft' = Empty
    /\ db' = new

Write(s, new) == IF op[s].commit THEN Commit(s, new) ELSE Flush(s, new)

Rollback(s) ==
    /\ writer' = IF writer = s THEN NoSession ELSE writer
    /\ draft' = IF writer = s THEN Empty ELSE draft
    /\ db' = db

NoWrite == UNCHANGED <<db, draft, writer>>

EndCall(s) == op' = [op EXCEPT ![s] = Idle]

\* Rows a call has read and has not committed its own decision on.
Held(s) == op[s].todo \cup (IF op[s].commit THEN {} ELSE op[s].done \cup ({op[s].found} \cap Ids))

\* Rows that s starts to hold while another call holds them too.
Contend(s, ids) ==
    contended' = contended \cup {i \in ids : \E t \in Sessions \ {s} : i \in Held(t)}

\* Any other exception, a busy timeout, a lost request: the session rolls back.
Abort(s) ==
    /\ op[s] # Idle
    /\ Rollback(s)
    /\ EndCall(s)
    /\ UNCHANGED <<period, chart, contended, raced, refused>>

Present(rows) == {i \in Ids : rows[i].status # "ABSENT"}
\* Rows are numbered as they are staged, and read in that order.
First(i, ids) == i \in ids /\ \A k \in ids : i <= k

-----------------------------------------------------------------------------
(* ingest_transactions: the rows of a batch become visible together.       *)

\* References a call still has to stage, or has staged and not committed.
Staging(s) ==
    (IF op[s].call = "ingest" THEN {op[s].batch[k].ref : k \in DOMAIN op[s].batch} ELSE {})
    \cup (IF writer = s THEN {draft.rows[i].ref : i \in op[s].done} ELSE {})

\* auto_process defers the commit to the end of processing.
BeginIngest(s, batch, auto) ==
    /\ op[s] = Idle
    /\ (IF auto THEN "auto_process" ELSE "ingest") \in Requests
    /\ op' = [op EXCEPT ![s] = [Idle EXCEPT !.call = "ingest", !.auto = auto,
                                            !.commit = ~auto, !.batch = batch]]
    /\ NoWrite
    /\ UNCHANGED <<period, chart, contended, raced, refused>>

\* A mutant: the lookup is skipped.
FindNothing(rows, ref) == NoRow
FindBySourceReference(rows, ref) ==
    LET same == {i \in Present(rows) : ref # NoRef /\ rows[i].ref = ref}
    IN IF same = {} THEN NoRow ELSE CHOOSE i \in same : First(i, same)

\* The lookup of the next transaction; before the first insert it is unlocked.
LookUp(s) ==
    /\ op[s].call = "ingest"
    /\ op[s].batch # <<>>
    /\ op[s].found = Unread
    /\ LET ref == Head(op[s].batch).ref
           i == FindBySourceReference(Sees(s).rows, ref)
           known == i \in op[s].done  \* already in the identity map
       IN /\ op' = [op EXCEPT ![s].found = i,
                              ![s].view = IF i = NoRow \/ known THEN @
                                          ELSE [@ EXCEPT ![i] = Sees(s).rows[i]]]
          /\ IF i = NoRow \/ ~op[s].auto THEN contended' = contended ELSE Contend(s, {i})
          /\ raced' = IF \E t \in Sessions \ {s} : ref \in Staging(t) \ {NoRef}
                      THEN raced \cup {ref} ELSE raced
    /\ NoWrite
    /\ UNCHANGED <<period, chart, refused>>

StageNew(s) ==
    /\ op[s].call = "ingest"
    /\ op[s].found = NoRow
    /\ LET in == Head(op[s].batch)
           seen == Sees(s)
           free == Ids \ Present(seen.rows)
           i == CHOOSE k \in free : First(k, free)
           row == [status |-> "INGESTED", txn |-> NoTxn, ref |-> in.ref,
                   given |-> in.payload, payload |-> in.payload]
       IN /\ free # {}
          /\ Flush(s, [seen EXCEPT !.rows = [@ EXCEPT ![i] = row]])
          /\ op' = [op EXCEPT ![s].batch = Tail(@), ![s].found = Unread,
                              ![s].done = @ \cup {i}, ![s].view = [@ EXCEPT ![i] = row]]
    /\ UNCHANGED <<period, chart, contended, raced, refused>>

\* A mutant: a processed row accepts no repeat.
SamePayloadUnprocessed(row, in) == row.payload = in.payload /\ row.status = "INGESTED"
\* _assert_idempotent_payload compares with the postings as they are now.
SamePayload(row, in) == row.payload = in.payload

ReuseExisting(s) ==
    /\ op[s].call = "ingest"
    /\ op[s].found \in Ids
    /\ LET i == op[s].found
           in == Head(op[s].batch)
       IN \/ /\ SamePayload(op[s].view[i], in)
             /\ op' = [op EXCEPT ![s].batch = Tail(@), ![s].found = Unread,
                                 ![s].done = @ \cup {i}]
             /\ NoWrite
             /\ refused' = refused
          \/ /\ ~SamePayload(op[s].view[i], in)
             /\ EndCall(s)
             /\ Rollback(s)
             /\ refused' = refused \cup {<<op[s].view[i].given, in.payload>>}
    /\ UNCHANGED <<period, chart, contended, raced>>

\* A mutant: the staged rows are committed before they are processed.
CommitIngestEarly(s) ==
    /\ op[s].call = "ingest"
    /\ op[s].batch = <<>>
    /\ IF writer = s THEN Commit(s, draft) ELSE NoWrite
    /\ IF op[s].auto
       THEN op' = [op EXCEPT ![s].call = "process", ![s].todo = op[s].done]
       ELSE EndCall(s)
    /\ UNCHANGED <<period, chart, contended, raced, refused>>

\* The batch is staged: commit it, or go on to process it in the same transaction.
CommitIngest(s) ==
    /\ op[s].call = "ingest"
    /\ op[s].batch = <<>>
    /\ \/ /\ op[s].commit
          /\ IF writer = s THEN Commit(s, draft) ELSE NoWrite
          /\ EndCall(s)
       \/ /\ op[s].auto
          /\ op' = [op EXCEPT ![s].call = "process", ![s].todo = op[s].done]
          /\ NoWrite
    /\ UNCHANGED <<period, chart, contended, raced, refused>>

-----------------------------------------------------------------------------
(* process_transactions: one item after the other, each committed on its   *)
(* own unless the caller commits.                                          *)

BeginProcess(s, ids, auto) ==
    /\ op[s] = Idle
    /\ (IF auto THEN "post" ELSE "validate") \in Requests
    /\ op' = [op EXCEPT ![s] = [Idle EXCEPT !.call = "process", !.auto = auto,
                  !.todo = ids,
                  !.view = [i \in Ids |-> IF i \in ids THEN db.rows[i] ELSE NoRowYet]]]
    /\ Contend(s, ids)
    /\ NoWrite
    /\ UNCHANGED <<period, chart, raced, refused>>

\* After a rollback a row is read again when the loop comes to it.
Reread(s, i) ==
    /\ op[s].call = "process"
    /\ First(i, op[s].todo)
    /\ i \in op[s].expired
    /\ op' = [op EXCEPT ![s].view = [@ EXCEPT ![i] = Sees(s).rows[i]],
                        ![s].expired = @ \ {i}]
    /\ NoWrite
    /\ UNCHANGED <<period, chart, contended, raced, refused>>

\* The first item that is left, as this session read it.
Takes(s, i) ==
    /\ op[s].call = "process"
    /\ First(i, op[s].todo)
    /\ i \notin op[s].expired

NextItem(s, i, row) ==
    op' = [op EXCEPT ![s].todo = @ \ {i}, ![s].view = [@ EXCEPT ![i] = row]]

Skips(s, i) == op[s].auto /\ op[s].view[i].status = "POSTED" /\ op[s].view[i].txn # NoTxn

\* Posted already: the earlier result is returned.
SkipPosted(s, i) ==
    /\ Takes(s, i)
    /\ Skips(s, i)
    /\ NextItem(s, i, op[s].view[i])
    /\ NoWrite
    /\ UNCHANGED <<period, chart, contended, raced, refused>>

Resolves(p) == p.account \in chart
Normalised(p) == [p EXCEPT !.currency = "named"]

\* A mutant: only a closed period is refused.
GateOpenWhileReady(s) == op[s].auto => period # "CLOSED"
\* ensure_posting_allowed is asked only when the item is to be posted.
GateOpen(s) == op[s].auto => period = "OPEN"

\* A period error rolls everything back and ends the request.
RefusedByPeriod(s, i) ==
    /\ Takes(s, i)
    /\ ~Skips(s, i)
    /\ Resolves(op[s].view[i].payload)
    /\ CanWrite(s)
    /\ ~GateOpen(s)
    /\ Rollback(s)
    /\ EndCall(s)
    /\ UNCHANGED <<period, chart, contended, raced, refused>>

\* A mutant: a status outside the enumeration is written.
WithUnknownStatus(row, read, st) == [row EXCEPT !.status = "REJECTED"]
\* The unit of work writes a status only if it differs from the one it read.
WithStatus(row, read, st) == IF read.status = st THEN row ELSE [row EXCEPT !.status = st]

\* An account that does not resolve is found before the gate, an unbalanced journal after it.
Reject(s, i) ==
    /\ Takes(s, i)
    /\ ~Skips(s, i)
    /\ LET read == op[s].view[i]
           new == WithStatus(Sees(s).rows[i], read, "FAILED")
       IN /\ ~Resolves(read.payload) \/ (GateOpen(s) /\ ~read.payload.balanced)
          /\ Write(s, [Sees(s) EXCEPT !.rows = [@ EXCEPT ![i] = new]])
          /\ NextItem(s, i, [read EXCEPT !.status = "FAILED"])
    /\ UNCHANGED <<period, chart, contended, raced, refused>>

Accepts(s, i) ==
    /\ Takes(s, i)
    /\ ~Skips(s, i)
    /\ Resolves(op[s].view[i].payload)
    /\ GateOpen(s)
    /\ op[s].view[i].payload.balanced

\* auto_post is off: the row is validated, whatever it was before.
Validate(s, i) ==
    /\ Accepts(s, i)
    /\ ~op[s].auto
    /\ LET read == op[s].view[i]
           new == [WithStatus(Sees(s).rows[i], read, "VALIDATED")
                      EXCEPT !.payload = Normalised(read.payload)]
       IN /\ Write(s, [Sees(s) EXCEPT !.rows = [@ EXCEPT ![i] = new]])
          /\ NextItem(s, i, [read EXCEPT !.status = "VALIDATED", !.payload = Normalised(@)])
    /\ UNCHANGED <<period, chart, contended, raced, refused>>

\* A mutant: the earlier journal is forgotten.
PostedBeforeForgotten(read, journals) == FALSE
PostedBefore(read, journals) == \E j \in journals : j.id = read.txn

\* The row was posted before and then validated again: its journal is kept.
PostAgain(s, i) ==
    /\ Accepts(s, i)
    /\ op[s].auto
    /\ LET read == op[s].view[i]
           new == [WithStatus(Sees(s).rows[i], read, "POSTED")
                      EXCEPT !.payload = Normalised(read.payload)]
       IN /\ PostedBefore(read, Sees(s).journals)
          /\ Write(s, [Sees(s) EXCEPT !.rows = [@ EXCEPT ![i] = new]])
          /\ NextItem(s, i, [read EXCEPT !.status = "POSTED", !.payload = Normalised(@)])
    /\ UNCHANGED <<period, chart, contended, raced, refused>>

\* A mutant: the row is committed and the journal is not.
PostRowOnly(s, i) ==
    /\ Accepts(s, i)
    /\ op[s].auto
    /\ LET read == op[s].view[i]
           seen == Sees(s)
           t == Cardinality(seen.journals) + 1
           new == [seen.rows[i] EXCEPT !.status = "POSTED", !.txn = t]
       IN /\ ~PostedBefore(read, seen.journals)
          /\ t <= MaxJournals
          /\ Write(s, [seen EXCEPT !.rows = [@ EXCEPT ![i] = new]])
          /\ NextItem(s, i, [read EXCEPT !.status = "POSTED", !.txn = t])
    /\ UNCHANGED <<period, chart, contended, raced, refused>>

\* _stage_transaction, and the revision of the period it is dated in.
WithJournal(seen, i, row) ==
    [rows |-> [seen.rows EXCEPT ![i] = row],
     journals |-> seen.journals \cup {[id |-> row.txn, row |-> i]},
     rev |-> seen.rev + 1]

\* record_posting_activity, the journal and the row's status in one transaction.
Post(s, i) ==
    /\ Accepts(s, i)
    /\ op[s].auto
    /\ LET read == op[s].view[i]
           seen == Sees(s)
           t == Cardinality(seen.journals) + 1
           new == [seen.rows[i] EXCEPT !.status = "POSTED", !.txn = t,
                                       !.payload = Normalised(read.payload)]
       IN /\ ~PostedBefore(read, seen.journals)
          /\ t <= MaxJournals
          /\ Write(s, WithJournal(seen, i, new))
          /\ NextItem(s, i, [read EXCEPT !.status = "POSTED", !.txn = t, !.payload = Normalised(@)])
    /\ UNCHANGED <<period, chart, contended, raced, refused>>

\* Storing the journal fails: roll back, read the row again, and expire the others.
PostingFails(s, i) ==
    /\ Accepts(s, i)
    /\ op[s].auto
    /\ op[s].commit
    /\ CanWrite(s)
    /\ Rollback(s)
    /\ op' = [op EXCEPT ![s].call = "failing", ![s].expired = op[s].todo \ {i},
                        ![s].view = [@ EXCEPT ![i] = db.rows[i]]]
    /\ UNCHANGED <<period, chart, contended, raced, refused>>

RecordFailure(s, i) ==
    /\ op[s].call = "failing"
    /\ First(i, op[s].todo)
    /\ LET read == op[s].view[i]
           new == WithStatus(db.rows[i], read, "FAILED")
       IN /\ Commit(s, [db EXCEPT !.rows = [@ EXCEPT ![i] = new]])
          /\ op' = [op EXCEPT ![s].call = "process", ![s].todo = @ \ {i},
                              ![s].view = [@ EXCEPT ![i] = [read EXCEPT !.status = "FAILED"]]]
    /\ UNCHANGED <<period, chart, contended, raced, refused>>

EndProcess(s) ==
    /\ op[s].call = "process"
    /\ op[s].todo = {}
    /\ IF writer = s THEN Commit(s, draft) ELSE NoWrite
    /\ EndCall(s)
    /\ UNCHANGED <<period, chart, contended, raced, refused>>

-----------------------------------------------------------------------------
(* What other calls do meanwhile.                                          *)

Settled(rows) == \A i \in Present(rows) : rows[i].status = "POSTED"

\* mark_ready, return_to_work, close and reopen of the period's close cycle.
\* Close recomputes readiness while it holds the writer position.
MovePeriod(st) ==
    /\ writer = NoSession
    /\ \/ period = "OPEN" /\ st = "READY"
       \/ period = "READY" /\ st = "OPEN"
       \/ period = "READY" /\ st = "CLOSED" /\ Settled(db.rows)
       \/ period = "CLOSED" /\ st = "OPEN"
    /\ period' = st
    /\ UNCHANGED <<db, draft, writer, chart, op, contended, raced, refused>>

CreateAccount(a) ==
    /\ writer = NoSession
    /\ a \notin chart
    /\ chart' = chart \cup {a}
    /\ UNCHANGED <<db, draft, writer, period, op, contended, raced, refused>>

Batches == UNION {[1..n -> Incoming] : n \in 1..MaxBatch}

\* What the service does for a request it has begun.
Serve(s) ==
    \/ LookUp(s) \/ StageNew(s) \/ ReuseExisting(s) \/ CommitIngest(s)
    \/ EndProcess(s) \/ Abort(s)
    \/ \E i \in Ids :
        \/ Reread(s, i) \/ SkipPosted(s, i) \/ RefusedByPeriod(s, i) \/ Reject(s, i)
        \/ Validate(s, i) \/ PostAgain(s, i) \/ Post(s, i) \/ PostingFails(s, i)
        \/ RecordFailure(s, i)

Next ==
    \/ \E s \in Sessions :
        \/ \E batch \in Batches, auto \in BOOLEAN : BeginIngest(s, batch, auto)
        \/ \E ids \in (SUBSET Present(db.rows)) \ {{}}, auto \in BOOLEAN : BeginProcess(s, ids, auto)
        \/ Serve(s)
    \/ \E st \in {"OPEN", "READY", "CLOSED"} : MovePeriod(st)
    \/ \E a \in Accounts : CreateAccount(a)

Spec == Init /\ [][Next]_vars

-----------------------------------------------------------------------------
(* Properties.                                                             *)

JournalsOf(i) == {j \in db.journals : j.row = i}

\* A row that no two calls held at once is posted by at most one journal, whatever
\* sequence of validations, failures, retries and period refusals it goes through,
\* and that journal is the one its transaction_id names.
PostedOnce ==
    \A i \in Ids \ contended :
        /\ Cardinality(JournalsOf(i)) <= 1
        /\ \A j \in JournalsOf(i) : db.rows[i].txn = j.id

\* A row marked POSTED has its journal in the ledger, contended or not: no commit
\* shows the status without the journal.
PostedHasJournal ==
    \A i \in Ids : db.rows[i].status = "POSTED" => \E j \in JournalsOf(i) : j.id = db.rows[i].txn

\* Rows and journals agree: none is missing and none is there twice.
RowsHaveTheirJournal == PostedOnce /\ PostedHasJournal

\* Two staged rows carry the same reference only if two calls staged it at once.
ReferenceOnce ==
    \A i, k \in Present(db.rows) :
        db.rows[i].ref = db.rows[k].ref /\ i # k => db.rows[i].ref \in raced \cup {NoRef}

\* While the period is ready or closed no commit adds a journal, also not the commit
\* of a transaction that began to post earlier.
FrozenLedger == [][period # "OPEN" => db'.journals = db.journals]_vars

\* auto_process stages and posts in one transaction: a row it creates is first seen
\* posted or failed, never waiting.
AutoProcessIsAtomic ==
    [][\A s \in Sessions : writer = s /\ op[s].auto /\ db' # db =>
         \A i \in Present(db'.rows) \ Present(db.rows) : db'.rows[i].status \in {"FAILED", "POSTED"}]_vars

\* What the tests of repeated processing say without naming concurrency: a row has
\* one journal (tests/test_workflow_service.py:90-92).
PostedOnceAlways == \A i \in Ids : Cardinality(JournalsOf(i)) <= 1

\* A repeated ingest is refused as "already exists with different payload" only if
\* the payload differs, or it left out the currency that processing has filled in
\* since (the comparison is with the stored postings, not with what was sent).
ConflictExplained ==
    \A pair \in refused : pair[1] # pair[2] \/ pair[1].currency = "omitted"

\* A reference names one row, and a repeat of it is refused only for a reason.
RepeatsExplained == ReferenceOnce /\ ConflictExplained
=============================================================================
