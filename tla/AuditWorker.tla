----------------------------- MODULE AuditWorker -----------------------------
(***************************************************************************)
(* The audit log: AuditLogger of src/apps/api/audit.py with its background *)
(* thread, and the administrator's paged list of routers/audit.py.         *)
(*                                                                         *)
(* Threads share one logger.  An entry is named by its time stamp, which   *)
(* log() takes before the entry is queued or committed; its id is the      *)
(* position at which it enters the table.                                  *)
(***************************************************************************)
EXTENDS Naturals, Sequences, FiniteSets

CONSTANTS
    Loggers,      \* the threads that use the logger
    PageLimit,    \* the limit of a page
    MaxEntries    \* bound: entries logged

\* The list's limit is at least 1 (Query(ge=1)).
ASSUME AuditAssumption == PageLimit \in Nat \ {0} /\ MaxEntries \in Nat

VARIABLES
    awClock,      \* the time stamp of the latest entry
    awQueue,      \* the queue, or NoQueue before asynchronous logging begins
    awUnfinished, \* tasks put and not done, which join() waits for
    awStop,       \* _stop_event
    awWorker,     \* what the background thread does
    awTaken,      \* the entry it writes
    awTable,      \* the AuditLog table, by id
    awCalls,      \* what each thread does
    awReader,     \* the administrator's reading
    awLost,       \* witness: entries whose write failed
    awPut,        \* witness: entries in the order they were queued
    awLate        \* witness: whether an entry was queued after close() began

awVars == <<awClock, awQueue, awUnfinished, awStop, awWorker, awTaken, awTable,
            awCalls, awReader, awLost, awPut, awLate>>

NoQueue == <<0>>
Rested == [step |-> "idle", entry |-> 0, before |-> {}]
Unpaged == [on |-> FALSE, cursor |-> 0, shown |-> {}, there |-> {}]

AwInit ==
    /\ awClock = 0 /\ awQueue = NoQueue /\ awUnfinished = 0
    /\ awStop = FALSE /\ awWorker = "none" /\ awTaken = 0
    /\ awTable = <<>>
    /\ awCalls = [t \in Loggers |-> Rested]
    /\ awReader = Unpaged
    /\ awLost = {} /\ awPut = <<>> /\ awLate = FALSE

awQueueing == <<awQueue, awUnfinished, awStop, awWorker, awTaken>>
awWitness == <<awLost, awPut, awLate>>

AwAt(t, step) == awCalls[t].step = step
AwGo(t, step) == awCalls' = [awCalls EXCEPT ![t].step = step]
AwReturn(t) == awCalls' = [awCalls EXCEPT ![t] = Rested]
Started == awQueue # NoQueue

-----------------------------------------------------------------------------
(* log(): the entry is stamped first.                                      *)
AwLog(t, asynchronous) ==
    /\ AwAt(t, "idle") /\ awClock < MaxEntries
    /\ awClock' = awClock + 1
    /\ awCalls' = [awCalls EXCEPT ![t] = [Rested EXCEPT
           !.step = IF asynchronous THEN "start" ELSE "commit", !.entry = awClock']]
    /\ UNCHANGED <<awQueueing, awTable, awReader, awWitness>>

\* A synchronous entry is committed in the session of the caller, or refused.
AwCommit(t) ==
    /\ AwAt(t, "commit")
    /\ awTable' \in {awTable, Append(awTable, awCalls[t].entry)}
    /\ AwReturn(t)
    /\ UNCHANGED <<awClock, awQueueing, awReader, awWitness>>

\* The first thread makes the queue and starts the worker, under the lock.
AwStart(t) ==
    /\ AwAt(t, "start")
    /\ IF Started THEN UNCHANGED <<awQueue, awWorker>>
       ELSE awQueue' = <<>> /\ awWorker' = "check"
    /\ AwGo(t, "put")
    /\ UNCHANGED <<awClock, awUnfinished, awStop, awTaken, awTable, awReader, awWitness>>

AwEnqueue(t) ==
    /\ AwAt(t, "put")
    /\ awQueue' = Append(awQueue, awCalls[t].entry)
    /\ awUnfinished' = awUnfinished + 1
    /\ awPut' = Append(awPut, awCalls[t].entry)
    /\ awLate' = (awLate \/ awStop)
    /\ AwReturn(t)
    /\ UNCHANGED <<awClock, awStop, awWorker, awTaken, awTable, awReader, awLost>>

-----------------------------------------------------------------------------
\* Without a queue there is nothing to wait for.
AwFlush(t) ==
    /\ AwAt(t, "idle") /\ Started
    /\ awCalls' = [awCalls EXCEPT ![t] = [Rested EXCEPT
           !.step = "join", !.before = {awPut[n] : n \in DOMAIN awPut}]]
    /\ UNCHANGED <<awClock, awQueueing, awTable, awReader, awWitness>>

AwClose(t) ==
    /\ AwAt(t, "idle") /\ Started
    /\ awStop' = TRUE
    /\ awCalls' = [awCalls EXCEPT ![t] = [Rested EXCEPT
           !.step = "join", !.before = {awPut[n] : n \in DOMAIN awPut}]]
    /\ UNCHANGED <<awClock, awQueue, awUnfinished, awWorker, awTaken, awTable, awReader, awWitness>>

AwJoined(t) ==
    /\ AwAt(t, "join") /\ awUnfinished = 0
    /\ AwGo(t, "returned")
    /\ UNCHANGED <<awClock, awQueueing, awTable, awReader, awWitness>>

AwDone(t) ==
    /\ AwAt(t, "returned") /\ AwReturn(t)
    /\ UNCHANGED <<awClock, awQueueing, awTable, awReader, awWitness>>

-----------------------------------------------------------------------------
(* The worker: _worker_loop.                                               *)

\* A slip: a stopped worker leaves what is queued.
AwCheckStop ==
    /\ awWorker = "check"
    /\ awWorker' = IF awStop THEN "ended" ELSE "get"
    /\ UNCHANGED <<awClock, awQueue, awUnfinished, awStop, awTaken, awTable, awCalls,
                   awReader, awWitness>>

\* The loop goes on until it is stopped and finds the queue empty.
AwCheck ==
    /\ awWorker = "check"
    /\ awWorker' = IF awStop /\ awQueue = <<>> THEN "ended" ELSE "get"
    /\ UNCHANGED <<awClock, awQueue, awUnfinished, awStop, awTaken, awTable, awCalls,
                   awReader, awWitness>>

\* A slip: the task counts as done when it is taken.
AwTakeDone ==
    /\ awWorker = "get" /\ awQueue # <<>>
    /\ awTaken' = Head(awQueue) /\ awQueue' = Tail(awQueue)
    /\ awUnfinished' = awUnfinished - 1
    /\ awWorker' = "write"
    /\ UNCHANGED <<awClock, awStop, awTable, awCalls, awReader, awWitness>>

\* get() gives up after a quarter of a second when there is nothing.
AwTake ==
    /\ awWorker = "get"
    /\ IF awQueue = <<>>
       THEN awWorker' = "check" /\ UNCHANGED <<awQueue, awTaken>>
       ELSE /\ awTaken' = Head(awQueue) /\ awQueue' = Tail(awQueue)
            /\ awWorker' = "write"
    /\ UNCHANGED <<awClock, awUnfinished, awStop, awTable, awCalls, awReader, awWitness>>

\* A write that fails is logged and the entry dropped; the task is done all the same.
AwWrite ==
    /\ awWorker = "write"
    /\ \/ awTable' = Append(awTable, awTaken) /\ UNCHANGED awLost
       \/ awLost' = awLost \cup {awTaken} /\ UNCHANGED awTable
    /\ awWorker' = "finish"
    /\ UNCHANGED <<awClock, awQueue, awUnfinished, awStop, awTaken, awCalls, awReader,
                   awPut, awLate>>

AwTaskDone ==
    /\ awWorker = "finish"
    /\ awUnfinished' = awUnfinished - 1
    /\ awTaken' = 0 /\ awWorker' = "check"
    /\ UNCHANGED <<awClock, awQueue, awStop, awTable, awCalls, awReader, awWitness>>

AwWork == AwCheck \/ AwTake \/ AwWrite \/ AwTaskDone

-----------------------------------------------------------------------------
\* A slip: the earliest stamps come first.
PageAscending(cursor) ==
    LET below == {n \in DOMAIN awTable : cursor = 0 \/ n < cursor}
    IN  {n \in below : Cardinality({k \in below : awTable[k] < awTable[n]}) < PageLimit}

(* GET /audit: the entries below the cursor, the latest stamps first.      *)
Page(cursor) ==
    LET below == {n \in DOMAIN awTable : cursor = 0 \/ n < cursor}
    IN  {n \in below : Cardinality({k \in below : awTable[k] > awTable[n]}) < PageLimit}

\* The next page is asked for after the last entry of this one.
LastOf(page) == CHOOSE n \in page : \A k \in page : awTable[k] >= awTable[n]

AwReadPage ==
    LET page == Page(awReader.cursor)
    IN  /\ awTable # <<>>
        /\ awReader' =
               IF page = {} THEN Unpaged
               ELSE [on |-> TRUE, cursor |-> LastOf(page), shown |-> awReader.shown \cup page,
                     there |-> IF awReader.on THEN awReader.there ELSE DOMAIN awTable]
        /\ UNCHANGED <<awClock, awQueueing, awTable, awCalls, awWitness>>

AwThread(t) ==
    \/ \E asynchronous \in BOOLEAN : AwLog(t, asynchronous)
    \/ AwCommit(t) \/ AwStart(t) \/ AwEnqueue(t)
    \/ AwFlush(t) \/ AwClose(t) \/ AwJoined(t) \/ AwDone(t)

AwNext == (\E t \in Loggers : AwThread(t)) \/ AwWork \/ AwReadPage

(* The worker runs on.                                                     *)
AwRuns == WF_awVars(AwWork)

AwSpec == AwInit /\ [][AwNext]_awVars
AwLiveSpec == AwSpec /\ AwRuns

-----------------------------------------------------------------------------
\* The types of all variables.
AwTypeOK ==
    /\ awClock \in 0..MaxEntries
    /\ awQueue \in Seq(0..MaxEntries)
    /\ awUnfinished \in 0..MaxEntries
    /\ awStop \in BOOLEAN
    /\ awWorker \in {"none", "check", "get", "write", "finish", "ended"}
    /\ awTaken \in 0..MaxEntries
    /\ awTable \in Seq(1..MaxEntries)
    /\ awCalls \in [Loggers -> [step: {"idle", "commit", "start", "put", "join", "returned"},
                                entry: 0..MaxEntries, before: SUBSET (1..MaxEntries)]]
    /\ awReader \in [on: BOOLEAN, cursor: Nat, shown: SUBSET Nat, there: SUBSET Nat]
    /\ awLost \subseteq 1..MaxEntries

Recorded == {awTable[n] : n \in DOMAIN awTable}

\* When flush() or close() returns, every entry queued before it is in the table,
\* or its write has failed; none is still on its way, and none is there twice.
FlushedIsTried ==
    /\ \A t \in Loggers : AwAt(t, "returned") => awCalls[t].before \subseteq Recorded \cup awLost
    /\ Cardinality(Recorded) = Len(awTable)

\* Queued entries reach the table in the order they were queued, and once.
WrittenInOrder ==
    \A m, n \in DOMAIN awTable, i, k \in DOMAIN awPut :
        m < n /\ awTable[m] = awPut[i] /\ awTable[n] = awPut[k] => i < k

\* "Fetch entries older than this id for pagination": an administrator who turns the
\* pages to the end has seen every entry that was there when they began, except one
\* whose id is higher than an entry's with a later stamp: the list is ordered by the
\* one and cut by the other.
Reordered(n) == \E k \in DOMAIN awTable : k < n /\ awTable[k] > awTable[n]

PagesSkipOnlyReordered ==
    awReader.on /\ Page(awReader.cursor) = {} =>
        \A n \in awReader.there \ awReader.shown : Reordered(n)

\* flush() and close() return: the count they wait for comes down to zero, as the
\* worker ends only after it is stopped and has emptied the queue; they wait for
\* ever only if an entry is queued after close().
FlushReturns == awUnfinished > 0 ~> awUnfinished = 0 \/ awLate
=============================================================================
