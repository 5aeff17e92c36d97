-------------------------- MODULE StagedPosting_proofs --------------------------
(***************************************************************************)
(* Proofs about StagedPosting, for any sessions, references, accounts and  *)
(* bounds.                                                                 *)
(*                                                                         *)
(* What a session sees is the committed database or its own draft of it    *)
(* (Sees).  A step of one session changes what it sees, and what the       *)
(* others see only if it commits (Moves).                                  *)
(***************************************************************************)
EXTENDS StagedPosting, FiniteSetTheorems, WellFoundedInduction, TLAPS

-----------------------------------------------------------------------------
(* Numbers and rows.                                                       *)

Less == {p \in Nat \X Nat : p[1] < p[2]}

\* Among some rows there is a first.
LEMMA FirstExists == ASSUME NEW S, S \subseteq Nat, S # {} PROVE \E m \in S : First(m, S)
<1>1. IsWellFoundedOn(Less, Nat)
  BY NatLessThanWellFounded DEF Less, OpToRel
<1>2. PICK m \in S : \A k \in S : ~(<<k, m>> \in Less)
  BY <1>1, WFMin
<1>3. \A k \in S : m <= k
  <2> SUFFICES ASSUME NEW k \in S PROVE m <= k
    OBVIOUS
  <2>1. <<k, m>> \in Less <=> k < m
    BY DEF Less
  <2> QED BY <1>2, <2>1
<1> QED BY <1>3 DEF First

LEMMA IdsNumbers == Ids \subseteq Nat /\ NoRow \notin Ids /\ Unread \notin Ids /\ Unread # NoRow
  BY MaxRowsAssumption DEF Ids, NoRow, Unread

LEMMA PayloadTypes ==
  /\ SomePayload \in AnyPayload
  /\ Payloads \subseteq AnyPayload
  /\ \A p \in AnyPayload : Normalised(p) \in AnyPayload /\ Normalised(Normalised(p)) = Normalised(p)
<1>1. SomePayload \in AnyPayload
  <2>1. PICK a \in Accounts : TRUE
    BY AccountsAssumption
  <2>2. [account |-> a, balanced |-> TRUE, currency |-> "named"] \in AnyPayload
    BY DEF AnyPayload
  <2> QED BY <2>2 DEF SomePayload
<1>2. Payloads \subseteq AnyPayload
  BY PayloadsAssumption DEF AnyPayload
<1>3. \A p \in AnyPayload : Normalised(p) \in AnyPayload /\ Normalised(Normalised(p)) = Normalised(p)
  BY DEF AnyPayload, Normalised
<1> QED BY <1>1, <1>2, <1>3

LEMMA StartTypes == NoRowYet \in Row /\ NothingRead \in [Ids -> Row] /\ Empty \in Database /\ Idle \in Op
<1>1. NoRowYet \in Row
  BY PayloadTypes, MaxJournalsAssumption DEF NoRowYet, Row, Status, NoTxn
<1>2. NothingRead \in [Ids -> Row]
  BY <1>1 DEF NothingRead
<1>3. Empty \in Database
  BY <1>2 DEF Empty, Database
<1>4. Idle \in Op
  BY <1>2 DEF Idle, Op, Calls
<1> QED BY <1>1, <1>2, <1>3, <1>4

\* One row of a database is replaced.
SetRow(d, i, row) == [d EXCEPT !.rows = [@ EXCEPT ![i] = row]]

LEMMA SetRowType ==
  ASSUME NEW d \in Database, NEW i \in Ids, NEW row \in Row
  PROVE  /\ SetRow(d, i, row) \in Database
         /\ SetRow(d, i, row).rows = [d.rows EXCEPT ![i] = row]
         /\ \A k \in Ids : SetRow(d, i, row).rows[k] = IF k = i THEN row ELSE d.rows[k]
         /\ SetRow(d, i, row).journals = d.journals
  BY DEF SetRow, Database

LEMMA WithJournalType ==
  ASSUME NEW d \in Database, NEW i \in Ids, NEW row \in Row, row.txn \in 1..MaxJournals
  PROVE  /\ WithJournal(d, i, row) \in Database
         /\ \A k \in Ids : WithJournal(d, i, row).rows[k] = IF k = i THEN row ELSE d.rows[k]
         /\ WithJournal(d, i, row).journals = d.journals \cup {[id |-> row.txn, row |-> i]}
  BY DEF WithJournal, Database

LEMMA WithStatusType ==
  ASSUME NEW row \in Row, NEW read \in Row, NEW st \in Status
  PROVE  /\ WithStatus(row, read, st) \in Row
         /\ WithStatus(row, read, st).status = IF read.status = st THEN row.status ELSE st
         /\ WithStatus(row, read, st).txn = row.txn
         /\ WithStatus(row, read, st).ref = row.ref
         /\ WithStatus(row, read, st).given = row.given
         /\ WithStatus(row, read, st).payload = row.payload
  BY DEF WithStatus, Row


-----------------------------------------------------------------------------
(* Types.                                                                  *)

DataType == db \in Database /\ draft \in Database /\ writer \in Sessions \cup {NoSession}

LEMMA SeesType == ASSUME TypeOK, NEW s \in Sessions PROVE Sees(s) \in Database
  BY DEF TypeOK, Sees

LEMMA WriteType ==
  ASSUME DataType, NEW s \in Sessions, NEW new \in Database,
         Flush(s, new) \/ Commit(s, new) \/ Write(s, new) \/ Rollback(s) \/ NoWrite
  PROVE  DataType'
  BY StartTypes DEF DataType, Flush, Commit, Write, Rollback, NoWrite

\* What the database says of the journals numbers them.
LEMMA NextJournal ==
  ASSUME NEW d \in Database
  PROVE  /\ IsFiniteSet(d.journals)
         /\ Cardinality(d.journals) \in Nat
         /\ Cardinality(d.journals) + 1 <= MaxJournals => Cardinality(d.journals) + 1 \in 1..MaxJournals
<1>1. IsFiniteSet([id : 1..MaxJournals, row : Ids])
  <2>1. IsFiniteSet((1..MaxJournals) \X Ids)
    <3>1. IsFiniteSet(1..MaxJournals) /\ IsFiniteSet(1..MaxRows)
      BY MaxJournalsAssumption, MaxRowsAssumption, FS_Interval
    <3> QED BY <3>1, FS_Product DEF Ids
  <2> DEFINE f == [p \in (1..MaxJournals) \X Ids |-> [id |-> p[1], row |-> p[2]]]
  <2>2. f \in Surjection((1..MaxJournals) \X Ids, [id : 1..MaxJournals, row : Ids])
    <3>1. f \in [(1..MaxJournals) \X Ids -> [id : 1..MaxJournals, row : Ids]]
      OBVIOUS
    <3>2. ASSUME NEW j \in [id : 1..MaxJournals, row : Ids]
          PROVE  \E p \in (1..MaxJournals) \X Ids : f[p] = j
      <4>1. <<j.id, j.row>> \in (1..MaxJournals) \X Ids /\ f[<<j.id, j.row>>] = j
        OBVIOUS
      <4> QED BY <4>1
    <3> QED BY <3>1, <3>2 DEF Surjection
  <2> QED BY <2>1, <2>2, FS_Surjection
<1>2. IsFiniteSet(d.journals)
  BY <1>1, FS_Subset DEF Database
<1>3. Cardinality(d.journals) \in Nat
  BY <1>2, FS_CardinalityType
<1> QED BY <1>2, <1>3, MaxJournalsAssumption

LEMMA InitType == Init => TypeOK
  BY StartTypes DEF Init, TypeOK

LEMMA FreeRow ==
  ASSUME NEW S \in SUBSET Ids, S # {}
  PROVE  (CHOOSE k \in S : First(k, S)) \in S
  BY FirstExists, IdsNumbers

LEMMA FoundRow ==
  ASSUME NEW rows \in [Ids -> Row], NEW ref
  PROVE  LET i == FindBySourceReference(rows, ref)
         IN \/ i = NoRow /\ \A k \in Present(rows) : ref = NoRef \/ rows[k].ref # ref
            \/ i \in Present(rows) /\ ref # NoRef /\ rows[i].ref = ref
<1> DEFINE same == {i \in Present(rows) : ref # NoRef /\ rows[i].ref = ref}
<1>1. CASE same = {}
  BY <1>1 DEF FindBySourceReference
<1>2. CASE same # {}
  <2>1. same \in SUBSET Ids
    BY DEF Present
  <2>2. FindBySourceReference(rows, ref) \in same
    BY <1>2, <2>1, FreeRow DEF FindBySourceReference
  <2> QED BY <2>2
<1> QED BY <1>1, <1>2

LEMMA HeadType ==
  ASSUME NEW o \in Op, o.batch # <<>>
  PROVE  Head(o.batch) \in Incoming /\ Tail(o.batch) \in Seq(Incoming)
         /\ Head(o.batch).payload \in AnyPayload /\ Head(o.batch).ref \in Refs \cup {NoRef}
<1>1. Head(o.batch) \in Incoming /\ Tail(o.batch) \in Seq(Incoming)
  BY DEF Op
<1> QED BY <1>1, PayloadTypes DEF Incoming

\* The row StageNew inserts, and those the items of a process call write.
StagedRow(in) == [status |-> "INGESTED", txn |-> NoTxn, ref |-> in.ref,
                  given |-> in.payload, payload |-> in.payload]

LEMMA StagedRowType == ASSUME NEW in \in Incoming PROVE StagedRow(in) \in Row
  BY PayloadTypes, MaxJournalsAssumption DEF StagedRow, Row, Incoming, Status, NoTxn

LEMMA RowTypes ==
  ASSUME NEW row \in Row, NEW read \in Row, NEW st \in Status
  PROVE  /\ [WithStatus(row, read, st) EXCEPT !.payload = Normalised(read.payload)] \in Row
         /\ [read EXCEPT !.status = st] \in Row
         /\ [read EXCEPT !.status = st, !.payload = Normalised(@)] \in Row
         /\ \A t \in 1..MaxJournals :
              /\ [row EXCEPT !.status = "POSTED", !.txn = t, !.payload = Normalised(read.payload)] \in Row
              /\ [read EXCEPT !.status = "POSTED", !.txn = t, !.payload = Normalised(@)] \in Row
<1>1. Normalised(read.payload) \in AnyPayload
  BY PayloadTypes DEF Row
<1>2. WithStatus(row, read, st) \in Row
  BY WithStatusType
<1>3. \A t \in 1..MaxJournals : t \in 0..MaxJournals
  BY MaxJournalsAssumption
<1>4. "POSTED" \in Status
  BY DEF Status
<1>5. \A x \in Row : [x EXCEPT !.payload = Normalised(read.payload)] \in Row
  BY <1>1 DEF Row
<1> QED BY <1>1, <1>2, <1>3, <1>4, <1>5 DEF Row

\* The fields of a call can be set one by one.
LEMMA OpFields ==
  ASSUME NEW o \in Op, NEW i \in Ids, NEW row \in Row
  PROVE  /\ \A f \in Ids \cup {NoRow, Unread} : [o EXCEPT !.found = f] \in Op
         /\ \A v \in [Ids -> Row] : [o EXCEPT !.view = v] \in Op
         /\ [o.view EXCEPT ![i] = row] \in [Ids -> Row]
         /\ \A c \in Calls : [o EXCEPT !.call = c] \in Op
         /\ \A S \in SUBSET Ids : /\ [o EXCEPT !.todo = S] \in Op
                                  /\ [o EXCEPT !.done = S] \in Op
                                  /\ [o EXCEPT !.expired = S] \in Op
         /\ \A b \in Seq(Incoming) : [o EXCEPT !.batch = b] \in Op
         /\ \A b \in BOOLEAN : [o EXCEPT !.auto = b] \in Op /\ [o EXCEPT !.commit = b] \in Op
  BY DEF Op

-----------------------------------------------------------------------------
(* What a call is in the middle of.                                        *)

OpFits(o) ==
  /\ o.call = "none" => o = Idle
  /\ o.found # Unread => o.call = "ingest" /\ o.batch # <<>>
  /\ o.call = "ingest" => o.todo = {} /\ o.expired = {}
  /\ o.call = "ingest" => (o.commit <=> ~o.auto)
  /\ o.commit \/ (o.auto /\ o.expired = {})
  /\ o.commit \/ o.call = "ingest" \/ (o.call = "process" /\ o.todo \subseteq o.done)
  /\ ~o.commit \/ o.call = "ingest" \/ o.done = {}

\* Only a call that stages rows keeps the writer position from one step to the next.
MayWrite(o) == o.call = "ingest" \/ (o.call = "process" /\ ~o.commit)

Control == \A s \in Sessions : OpFits(op[s]) /\ (writer = s => MayWrite(op[s]))

-----------------------------------------------------------------------------
(* What the steps do to the call and to the data.                          *)

Now(s, o) == op' = [op EXCEPT ![s] = o]

\* After the step s sees the database new; nobody else sees more than a commit of it.
Moves(s, new) ==
  /\ Sees(s)' = new
  /\ db' = db \/ (db' = new /\ CanWrite(s))
  /\ \A t \in Sessions \ {s} : (db' = db /\ Sees(t)' = Sees(t)) \/ (Sees(t) = db /\ Sees(t)' = db')
  /\ writer' \in {writer, s, NoSession} /\ draft' \in {draft, new, Empty}

LEMMA NowOp ==
  ASSUME TypeOK, NEW s \in Sessions, NEW o \in Op, Now(s, o)
  PROVE  op' \in [Sessions -> Op] /\ op'[s] = o /\ \A t \in Sessions \ {s} : op'[t] = op[t]
  BY DEF Now, TypeOK

LEMMA WritesMove ==
  ASSUME TypeOK, NEW s \in Sessions, NEW new
  PROVE  /\ NoWrite => Moves(s, Sees(s))
         /\ Rollback(s) => Moves(s, db)
         /\ Flush(s, new) => Moves(s, new)
         /\ Commit(s, new) => Moves(s, new)
         /\ Write(s, new) => Moves(s, new)
<1>0. s # NoSession /\ \A t \in Sessions : t # NoSession
  BY NoSessionAssumption
<1>1. NoWrite => Moves(s, Sees(s))
  BY DEF NoWrite, Moves, Sees
<1>2. Rollback(s) => Moves(s, db)
  BY <1>0 DEF Rollback, Moves, Sees
<1>3. Flush(s, new) => Moves(s, new)
  BY <1>0 DEF Flush, Moves, Sees, CanWrite
<1>4. Commit(s, new) => Moves(s, new)
  BY <1>0 DEF Commit, Moves, Sees, CanWrite
<1>5. Write(s, new) => Moves(s, new)
  BY <1>3, <1>4 DEF Write
<1> QED BY <1>1, <1>2, <1>3, <1>4, <1>5

Quits(s) == Rollback(s) /\ EndCall(s)
Finishes(s) == (IF writer = s THEN Commit(s, draft) ELSE NoWrite) /\ EndCall(s)

LEMMA QuitsMove ==
  ASSUME TypeOK, NEW s \in Sessions
  PROVE  /\ Quits(s) => Moves(s, db) /\ Now(s, Idle) /\ writer' # s
         /\ Finishes(s) => Moves(s, Sees(s)) /\ Now(s, Idle) /\ writer' # s
<1>1. Quits(s) => Moves(s, db) /\ Now(s, Idle) /\ writer' # s
  BY WritesMove, NoSessionAssumption DEF Quits, EndCall, Now, Rollback
<1>2. ASSUME Finishes(s) PROVE Moves(s, Sees(s)) /\ Now(s, Idle) /\ writer' # s
  <2>1. CASE writer = s
    <3>1. Commit(s, draft) /\ Now(s, Idle)
      BY <1>2, <2>1 DEF Finishes, EndCall, Now
    <3>2. Moves(s, draft)
      BY <3>1, WritesMove
    <3>3. Moves(s, Sees(s)) /\ writer' # s
      BY <2>1, <3>1, <3>2, NoSessionAssumption DEF Moves, Sees, Commit
    <3> QED BY <3>1, <3>3
  <2>2. CASE writer # s
    BY <1>2, <2>2, WritesMove DEF Finishes, EndCall, Now, NoWrite
  <2> QED BY <2>1, <2>2
<1> QED BY <1>1, <1>2

\* The call of s becomes o and s sees new.
Turn(s, o, new) == o \in Op /\ new \in Database /\ Now(s, o) /\ Moves(s, new)

Same == UNCHANGED <<period, chart, contended, raced, refused>>

StagedTo(o, i, row) ==
  [o EXCEPT !.batch = Tail(@), !.found = Unread, !.done = @ \cup {i}, !.view = [@ EXCEPT ![i] = row]]

\* A new row is staged, in the draft.
Stages(s, i, o, new) ==
  /\ op[s].call = "ingest" /\ op[s].found = NoRow /\ op[s].batch # <<>>
  /\ i \notin Present(Sees(s).rows)
  /\ StagedRow(Head(op[s].batch)) \in Row
  /\ o = StagedTo(op[s], i, StagedRow(Head(op[s].batch)))
  /\ new = SetRow(Sees(s), i, StagedRow(Head(op[s].batch)))
  /\ Turn(s, o, new) /\ Flush(s, new) /\ Same

LEMMA StageShape ==
  ASSUME TypeOK, Control, NEW s \in Sessions, StageNew(s)
  PROVE  \E i \in Ids : \E o, new : Stages(s, i, o, new)
<1> DEFINE in == Head(op[s].batch)
<1> DEFINE free == Ids \ Present(Sees(s).rows)
<1> DEFINE i == CHOOSE k \in free : First(k, free)
<1> DEFINE row == StagedRow(in)
<1> DEFINE o == StagedTo(op[s], i, row)
<1> DEFINE new == SetRow(Sees(s), i, row)
<1>1. op[s].call = "ingest" /\ op[s].found = NoRow /\ op[s].batch # <<>>
  BY IdsNumbers DEF StageNew, Control, OpFits
<1>2. op[s] \in Op /\ Sees(s) \in Database
  BY SeesType DEF TypeOK
<1>3. in \in Incoming /\ Tail(op[s].batch) \in Seq(Incoming) /\ row \in Row
  BY <1>1, <1>2, HeadType, StagedRowType
<1>4. free # {} /\ Flush(s, new) /\ op' = [op EXCEPT ![s] = o] /\ Same
  BY <1>2 DEF StageNew, Same, SetRow, StagedTo, StagedRow, TypeOK
<1>5. i \in Ids /\ i \notin Present(Sees(s).rows)
  BY <1>4, FreeRow
<1>6. o \in Op
  BY <1>2, <1>3, <1>5 DEF Op, StagedTo
<1>7. new \in Database
  BY <1>2, <1>3, <1>5, SetRowType
<1>8. Moves(s, new)
  BY <1>4, WritesMove
<1>9. Turn(s, o, new)
  BY <1>4, <1>6, <1>7, <1>8 DEF Turn, Now
<1> QED BY <1>1, <1>3, <1>4, <1>5, <1>9 DEF Stages

\* What a decision other than a posting does to a row and to the session's copy of it.
Edited(st, old, read, row, v) ==
  /\ row \in Row /\ v \in Row /\ st \in {"FAILED", "VALIDATED", "POSTED"}
  /\ row.status = (IF read.status = st THEN old.status ELSE st)
  /\ row.txn = old.txn /\ row.ref = old.ref /\ row.given = old.given
  /\ v.status = st /\ v.txn = read.txn /\ v.given = read.given
  /\ row.payload \in {old.payload, Normalised(read.payload)}
  /\ v.payload \in {read.payload, Normalised(read.payload)}

Taken(o, i, v) == [o EXCEPT !.call = "process", !.todo = @ \ {i}, !.view = [@ EXCEPT ![i] = v]]

Edits(s, i, st, row, v, o, new) ==
  /\ op[s].call \in {"process", "failing"} /\ First(i, op[s].todo)
  /\ Edited(st, Sees(s).rows[i], op[s].view[i], row, v)
  /\ st = "POSTED" => PostedBefore(op[s].view[i], Sees(s).journals)
  /\ st = "VALIDATED" => ~op[s].auto
  /\ o = Taken(op[s], i, v)
  /\ new = SetRow(Sees(s), i, row)
  /\ Turn(s, o, new) /\ Write(s, new) /\ Same

LEMMA EditedRows ==
  ASSUME NEW old \in Row, NEW read \in Row, NEW st \in {"FAILED", "VALIDATED", "POSTED"}
  PROVE  /\ Edited(st, old, read, WithStatus(old, read, st), [read EXCEPT !.status = st])
         /\ Edited(st, old, read,
                   [WithStatus(old, read, st) EXCEPT !.payload = Normalised(read.payload)],
                   [read EXCEPT !.status = st, !.payload = Normalised(@)])
<1> DEFINE w == WithStatus(old, read, st)
<1>1. st \in Status
  BY DEF Status
<1>2. /\ w \in Row /\ w.status = (IF read.status = st THEN old.status ELSE st)
      /\ w.txn = old.txn /\ w.ref = old.ref /\ w.given = old.given /\ w.payload = old.payload
  BY <1>1, WithStatusType
<1>3. /\ [w EXCEPT !.payload = Normalised(read.payload)] \in Row
      /\ [read EXCEPT !.status = st] \in Row
      /\ [read EXCEPT !.status = st, !.payload = Normalised(@)] \in Row
  BY <1>1, RowTypes
<1> HIDE DEF w
<1>4. Edited(st, old, read, w, [read EXCEPT !.status = st])
  BY <1>2, <1>3 DEF Edited, Row
<1>5. Edited(st, old, read, [w EXCEPT !.payload = Normalised(read.payload)],
             [read EXCEPT !.status = st, !.payload = Normalised(@)])
  BY <1>2, <1>3 DEF Edited, Row
<1> QED BY <1>4, <1>5 DEF w

LEMMA TakenType ==
  ASSUME NEW o \in Op, NEW i \in Ids, NEW v \in Row
  PROVE  /\ Taken(o, i, v) \in Op
         /\ o.call = "process" =>
              Taken(o, i, v) = [o EXCEPT !.todo = @ \ {i}, !.view = [@ EXCEPT ![i] = v]]
<1>1. [o.view EXCEPT ![i] = v] \in [Ids -> Row] /\ o.todo \ {i} \in SUBSET Ids
  BY DEF Op
<1>2. Taken(o, i, v) \in Op
  BY <1>1 DEF Taken, Op, Calls
<1>3. ASSUME o.call = "process"
      PROVE  Taken(o, i, v) = [o EXCEPT !.todo = @ \ {i}, !.view = [@ EXCEPT ![i] = v]]
  BY <1>3 DEF Taken, Op
<1> QED BY <1>2, <1>3

LEMMA EditShape ==
  ASSUME TypeOK, Control, NEW s \in Sessions, NEW i \in Ids,
         Reject(s, i) \/ Validate(s, i) \/ PostAgain(s, i) \/ RecordFailure(s, i)
  PROVE  \E st, row, v, o, new : Edits(s, i, st, row, v, o, new)
<1> DEFINE read == op[s].view[i]
<1> DEFINE old == Sees(s).rows[i]
<1>1. op[s] \in Op /\ Sees(s) \in Database /\ read \in Row /\ old \in Row
  BY SeesType DEF TypeOK, Op, Database
<1> DEFINE Decided(st, row, v) ==
             /\ op[s].call \in {"process", "failing"} /\ First(i, op[s].todo)
             /\ Edited(st, old, read, row, v)
             /\ st = "POSTED" => PostedBefore(read, Sees(s).journals)
             /\ st = "VALIDATED" => ~op[s].auto
             /\ op' = [op EXCEPT ![s] = Taken(op[s], i, v)]
             /\ Write(s, SetRow(Sees(s), i, row)) /\ Same
<1>2. SUFFICES \E st, row, v : Decided(st, row, v)
  <2>0. PICK st, row, v : Decided(st, row, v)
    BY <1>2
  <2> DEFINE new == SetRow(Sees(s), i, row)
  <2> DEFINE o == Taken(op[s], i, v)
  <2>1. row \in Row /\ v \in Row
    BY <2>0 DEF Edited
  <2>2. new \in Database /\ o \in Op
    BY <1>1, <2>1, SetRowType, TakenType
  <2>3. Moves(s, new)
    BY <2>0, WritesMove
  <2>4. Turn(s, o, new)
    BY <2>0, <2>2, <2>3 DEF Turn, Now
  <2>5. Edits(s, i, st, row, v, o, new)
    BY <2>0, <2>4 DEF Edits
  <2> QED BY <2>5
<1>3. "FAILED" \in Status /\ "VALIDATED" \in Status /\ "POSTED" \in Status
  BY DEF Status
<1>4. ASSUME NEW st \in {"FAILED", "VALIDATED", "POSTED"}
      PROVE  /\ Edited(st, old, read, WithStatus(old, read, st), [read EXCEPT !.status = st])
             /\ Edited(st, old, read,
                       [WithStatus(old, read, st) EXCEPT !.payload = Normalised(read.payload)],
                       [read EXCEPT !.status = st, !.payload = Normalised(@)])
  BY <1>1, EditedRows
<1>5. ASSUME NEW v \in Row, op[s].call = "process", NextItem(s, i, v)
      PROVE  op' = [op EXCEPT ![s] = Taken(op[s], i, v)]
  <2>1. Taken(op[s], i, v) = [op[s] EXCEPT !.todo = @ \ {i}, !.view = [@ EXCEPT ![i] = v]]
    BY <1>5, Zenon DEF Taken
  <2> QED BY <2>1, <1>5 DEF NextItem, TypeOK
<1>6. CASE Reject(s, i)
  <2>0. PICK row, v : /\ row = WithStatus(old, read, "FAILED")
                     /\ v = [read EXCEPT !.status = "FAILED"]
    OBVIOUS
  <2>1. op[s].call = "process" /\ First(i, op[s].todo) /\ NextItem(s, i, v)
        /\ Write(s, SetRow(Sees(s), i, row)) /\ Same
    BY <1>6, <2>0 DEF Reject, Takes, SetRow, Same, Write, Flush, Commit, NextItem
  <2>2. Edited("FAILED", old, read, row, v)
    BY <1>4, <2>0
  <2>3. op' = [op EXCEPT ![s] = Taken(op[s], i, v)]
    BY <1>5, <2>1, <2>2 DEF Edited
  <2>4. Decided("FAILED", row, v)
    BY <2>1, <2>2, <2>3
  <2> WITNESS "FAILED", row, v
  <2> QED BY <2>4
<1>7. CASE Validate(s, i)
  <2>0. PICK row, v : /\ row = [WithStatus(old, read, "VALIDATED") EXCEPT !.payload = Normalised(read.payload)]
                     /\ v = [read EXCEPT !.status = "VALIDATED", !.payload = Normalised(@)]
    OBVIOUS
  <2>1. op[s].call = "process" /\ First(i, op[s].todo) /\ NextItem(s, i, v)
        /\ Write(s, SetRow(Sees(s), i, row)) /\ Same /\ ~op[s].auto
    BY <1>7, <2>0 DEF Validate, Accepts, Takes, SetRow, Same, Write, Flush, Commit, NextItem
  <2>2. Edited("VALIDATED", old, read, row, v)
    BY <1>4, <2>0
  <2>3. op' = [op EXCEPT ![s] = Taken(op[s], i, v)]
    BY <1>5, <2>1, <2>2 DEF Edited
  <2>4. Decided("VALIDATED", row, v)
    BY <2>1, <2>2, <2>3
  <2> WITNESS "VALIDATED", row, v
  <2> QED BY <2>4
<1>8. CASE PostAgain(s, i)
  <2>0. PICK row, v : /\ row = [WithStatus(old, read, "POSTED") EXCEPT !.payload = Normalised(read.payload)]
                     /\ v = [read EXCEPT !.status = "POSTED", !.payload = Normalised(@)]
    OBVIOUS
  <2>1. op[s].call = "process" /\ First(i, op[s].todo) /\ NextItem(s, i, v)
        /\ Write(s, SetRow(Sees(s), i, row)) /\ Same /\ PostedBefore(read, Sees(s).journals)
    BY <1>8, <2>0 DEF PostAgain, Accepts, Takes, SetRow, Same, Write, Flush, Commit, NextItem
  <2>2. Edited("POSTED", old, read, row, v)
    BY <1>4, <2>0
  <2>3. op' = [op EXCEPT ![s] = Taken(op[s], i, v)]
    BY <1>5, <2>1, <2>2 DEF Edited
  <2>4. Decided("POSTED", row, v)
    BY <2>1, <2>2, <2>3
  <2> WITNESS "POSTED", row, v
  <2> QED BY <2>4
<1>9. CASE RecordFailure(s, i)
  <2>0. PICK row, v : /\ row = WithStatus(db.rows[i], read, "FAILED")
                     /\ v = [read EXCEPT !.status = "FAILED"]
    OBVIOUS
  <2>1. op[s].call = "failing" /\ First(i, op[s].todo) /\ Commit(s, SetRow(db, i, row)) /\ Same
    BY <1>9, <2>0 DEF RecordFailure, SetRow, Same, Commit
  <2>2. writer # s /\ op[s].commit
    BY <2>1 DEF Control, OpFits, MayWrite
  <2>3. db = Sees(s)
    BY <2>2 DEF Sees
  <2>4. Edited("FAILED", old, read, row, v)
    BY <1>4, <2>0, <2>3
  <2>5. op' = [op EXCEPT ![s] = Taken(op[s], i, v)]
    BY <1>1, <1>9, <2>0 DEF RecordFailure, Taken, TypeOK
  <2>6. Write(s, SetRow(Sees(s), i, row))
    BY <2>1, <2>2, <2>3 DEF Write, Commit
  <2>7. Decided("FAILED", row, v)
    BY <2>1, <2>2, <2>4, <2>5, <2>6
  <2> WITNESS "FAILED", row, v
  <2> QED BY <2>7
<1> QED BY <1>6, <1>7, <1>8, <1>9

PostedRow(old, read, t) == [old EXCEPT !.status = "POSTED", !.txn = t, !.payload = Normalised(read.payload)]
PostedView(read, t) == [read EXCEPT !.status = "POSTED", !.txn = t, !.payload = Normalised(@)]

\* A journal is stored for the row.
Journals(s, i, row, v, o, new) ==
  /\ op[s].call = "process" /\ First(i, op[s].todo) /\ i \notin op[s].expired
  /\ op[s].auto /\ period = "OPEN"
  /\ ~PostedBefore(op[s].view[i], Sees(s).journals)
  /\ row.txn = Cardinality(Sees(s).journals) + 1 /\ row.txn \in 1..MaxJournals
  /\ row \in Row /\ row.status = "POSTED" /\ row.payload = Normalised(op[s].view[i].payload)
  /\ row.ref = Sees(s).rows[i].ref /\ row.given = Sees(s).rows[i].given
  /\ v \in Row /\ v.status = "POSTED" /\ v.txn = row.txn
  /\ v.given = op[s].view[i].given /\ v.payload = Normalised(op[s].view[i].payload)
  /\ o = Taken(op[s], i, v)
  /\ new = WithJournal(Sees(s), i, row)
  /\ Turn(s, o, new) /\ Write(s, new) /\ Same

LEMMA PostShape ==
  ASSUME TypeOK, Control, NEW s \in Sessions, NEW i \in Ids, Post(s, i)
  PROVE  \E row, v, o, new : Journals(s, i, row, v, o, new)
<1> DEFINE read == op[s].view[i]
<1> DEFINE old == Sees(s).rows[i]
<1> DEFINE n == Cardinality(Sees(s).journals) + 1
<1>1. op[s] \in Op /\ Sees(s) \in Database /\ read \in Row /\ old \in Row
  BY SeesType DEF TypeOK, Op, Database
<1>2. PICK t, row, v : t = n /\ row = PostedRow(old, read, t) /\ v = PostedView(read, t)
  OBVIOUS
<1>3. /\ op[s].call = "process" /\ First(i, op[s].todo) /\ i \notin op[s].expired
      /\ op[s].auto /\ period = "OPEN" /\ ~PostedBefore(read, Sees(s).journals)
      /\ t <= MaxJournals /\ Same
  BY <1>2 DEF Post, Accepts, Takes, GateOpen, Same
<1>4. t \in 1..MaxJournals
  BY <1>1, <1>2, <1>3, NextJournal
<1>5. row \in Row /\ v \in Row
  BY <1>1, <1>2, <1>4, RowTypes DEF PostedRow, PostedView, Status
<1>6. /\ row.txn = t /\ row.status = "POSTED" /\ row.payload = Normalised(read.payload)
      /\ row.ref = old.ref /\ row.given = old.given
      /\ v.status = "POSTED" /\ v.txn = t /\ v.given = read.given /\ v.payload = Normalised(read.payload)
  BY <1>1, <1>2 DEF PostedRow, PostedView, Row
<1>7. PICK o, new : o = Taken(op[s], i, v) /\ new = WithJournal(Sees(s), i, row)
  OBVIOUS
<1>8. Write(s, new) /\ NextItem(s, i, v)
  BY <1>2, <1>7 DEF Post, PostedRow, PostedView, Write, Flush, Commit, NextItem
<1>9. o = [op[s] EXCEPT !.todo = @ \ {i}, !.view = [@ EXCEPT ![i] = v]] /\ o \in Op
  <2>1. op[s] \in Op /\ v \in Row /\ op[s].call = "process"
    BY <1>1, <1>3, <1>5
  <2>2. /\ Taken(op[s], i, v) \in Op
        /\ Taken(op[s], i, v) = [op[s] EXCEPT !.todo = @ \ {i}, !.view = [@ EXCEPT ![i] = v]]
    <3>1. Taken(op[s], i, v) \in Op
      BY <2>1, TakenType
    <3> QED BY <2>1, <3>1, Zenon DEF Taken
  <2> QED BY <1>7, <2>2
<1>10. Now(s, o)
  BY <1>8, <1>9 DEF NextItem, Now, TypeOK
<1>11. new \in Database
  BY <1>1, <1>4, <1>5, <1>6, <1>7, WithJournalType
<1>12. Moves(s, new)
  BY <1>8, WritesMove
<1>13. Turn(s, o, new)
  BY <1>9, <1>10, <1>11, <1>12 DEF Turn
<1> QED BY <1>2, <1>3, <1>4, <1>5, <1>6, <1>7, <1>8, <1>13 DEF Journals

-----------------------------------------------------------------------------
(* The steps that change no data.                                          *)

Ingesting(batch, auto) ==
  [Idle EXCEPT !.call = "ingest", !.auto = auto, !.commit = ~auto, !.batch = batch]

BeginsIngest(s, batch, auto, o, new) ==
  /\ op[s] = Idle /\ auto \in BOOLEAN
  /\ o = Ingesting(batch, auto) /\ new = Sees(s)
  /\ Turn(s, o, new) /\ NoWrite /\ Same

LEMMA BeginIngestShape ==
  ASSUME TypeOK, NEW s \in Sessions, NEW batch \in Batches, NEW auto \in BOOLEAN,
         BeginIngest(s, batch, auto)
  PROVE  \E o, new : BeginsIngest(s, batch, auto, o, new)
<1>1. batch \in Seq(Incoming)
  BY DEF Batches
<1>2. PICK o, new : o = Ingesting(batch, auto) /\ new = Sees(s)
  OBVIOUS
<1>3. o \in Op
  <2>1. "ingest" \in Calls /\ (~auto) \in BOOLEAN
    BY DEF Calls
  <2> QED BY <1>1, <1>2, <2>1, StartTypes DEF Op, Ingesting
<1>4. new \in Database
  BY <1>2, SeesType
<1>5. Now(s, o) /\ NoWrite /\ Same /\ op[s] = Idle
  BY <1>2 DEF BeginIngest, Now, Ingesting, Same
<1>6. Moves(s, Sees(s))
  BY <1>5, WritesMove
<1>7. Moves(s, new)
  BY <1>2, <1>6 DEF Moves
<1> QED BY <1>2, <1>3, <1>4, <1>5, <1>7 DEF BeginsIngest, Turn

Processing(ids, auto, rows) ==
  [Idle EXCEPT !.call = "process", !.auto = auto, !.todo = ids,
               !.view = [i \in Ids |-> IF i \in ids THEN rows[i] ELSE NoRowYet]]

BeginsProcess(s, ids, auto, o, new) ==
  /\ op[s] = Idle /\ auto \in BOOLEAN /\ ids \subseteq Present(db.rows)
  /\ o = Processing(ids, auto, db.rows) /\ new = Sees(s)
  /\ Turn(s, o, new) /\ NoWrite /\ Contend(s, ids) /\ UNCHANGED <<period, chart, raced, refused>>

LEMMA BeginProcessShape ==
  ASSUME TypeOK, NEW s \in Sessions, NEW ids \in SUBSET Present(db.rows), NEW auto \in BOOLEAN,
         BeginProcess(s, ids, auto)
  PROVE  \E o, new : BeginsProcess(s, ids, auto, o, new)
<1>1. PICK o, new : o = Processing(ids, auto, db.rows) /\ new = Sees(s)
  OBVIOUS
<1>2. o \in Op
  <2>1. [i \in Ids |-> IF i \in ids THEN db.rows[i] ELSE NoRowYet] \in [Ids -> Row]
    BY StartTypes DEF TypeOK, Database
  <2>2. ids \in SUBSET Ids /\ "process" \in Calls
    BY DEF Present, Calls
  <2> QED BY <1>1, <2>1, <2>2, StartTypes DEF Op, Processing
<1>3. new \in Database
  BY <1>1, SeesType
<1>4. /\ Now(s, o) /\ NoWrite /\ op[s] = Idle /\ Contend(s, ids)
      /\ UNCHANGED <<period, chart, raced, refused>>
  BY <1>1 DEF BeginProcess, Now, Processing
<1>5. Moves(s, Sees(s))
  BY <1>4, WritesMove
<1>6. Moves(s, new)
  BY <1>1, <1>5 DEF Moves
<1> QED BY <1>1, <1>2, <1>3, <1>4, <1>6 DEF BeginsProcess, Turn

FoundIn(o, i, rows) ==
  [o EXCEPT !.found = i, !.view = IF i = NoRow \/ i \in o.done THEN @ ELSE [@ EXCEPT ![i] = rows[i]]]

LooksUp(s, i, o, new) ==
  /\ op[s].call = "ingest" /\ op[s].batch # <<>> /\ op[s].found = Unread
  /\ i = FindBySourceReference(Sees(s).rows, Head(op[s].batch).ref)
  /\ i \in Ids \cup {NoRow}
  /\ o = FoundIn(op[s], i, Sees(s).rows) /\ new = Sees(s)
  /\ Turn(s, o, new) /\ NoWrite
  /\ i \in Ids /\ op[s].auto => Contend(s, {i})
  /\ i = NoRow \/ ~op[s].auto => contended' = contended
  /\ \A t \in Sessions \ {s} : Head(op[s].batch).ref \in Staging(t) \ {NoRef} =>
       Head(op[s].batch).ref \in raced'
  /\ raced \subseteq raced' /\ raced' \subseteq Refs
  /\ UNCHANGED <<period, chart, refused>>

LEMMA LookUpShape ==
  ASSUME TypeOK, NEW s \in Sessions, LookUp(s)
  PROVE  \E i, o, new : LooksUp(s, i, o, new)
<1>1. op[s] \in Op /\ Sees(s) \in Database /\ Sees(s).rows \in [Ids -> Row]
  BY SeesType DEF TypeOK, Database
<1>2. PICK ref, i, o, new :
        /\ ref = Head(op[s].batch).ref
        /\ i = FindBySourceReference(Sees(s).rows, ref)
        /\ o = FoundIn(op[s], i, Sees(s).rows) /\ new = Sees(s)
  OBVIOUS
<1>3. i \in Ids \cup {NoRow}
  BY <1>1, <1>2, FoundRow DEF Present
<1>4. /\ op[s].call = "ingest" /\ op[s].batch # <<>> /\ op[s].found = Unread
      /\ NoWrite /\ UNCHANGED <<period, chart, refused>>
  BY DEF LookUp
<1>5. Now(s, o)
  BY <1>1, <1>2 DEF LookUp, Now, FoundIn
<1>6. o \in Op
  <2>1. (IF i = NoRow \/ i \in op[s].done THEN op[s].view
         ELSE [op[s].view EXCEPT ![i] = Sees(s).rows[i]]) \in [Ids -> Row]
    BY <1>1, <1>3 DEF Op
  <2> QED BY <1>1, <1>2, <1>3, <2>1 DEF Op, FoundIn
<1>7. Moves(s, Sees(s))
  BY <1>4, WritesMove
<1>8. Turn(s, o, new)
  BY <1>1, <1>2, <1>5, <1>6, <1>7 DEF Turn, Moves
<1>9. /\ i \in Ids /\ op[s].auto => Contend(s, {i})
      /\ i = NoRow \/ ~op[s].auto => contended' = contended
  BY <1>2, IdsNumbers DEF LookUp, Contend
<1>10. ref \in Refs \cup {NoRef}
  BY <1>1, <1>2, <1>4, HeadType
<1>11. /\ \A t \in Sessions \ {s} : ref \in Staging(t) \ {NoRef} => ref \in raced'
       /\ raced \subseteq raced' /\ raced' \subseteq Refs
  <2>1. CASE \E t \in Sessions \ {s} : ref \in Staging(t) \ {NoRef}
    <3>1. raced' = raced \cup {ref} /\ ref # NoRef
      BY <1>2, <2>1 DEF LookUp
    <3> QED BY <3>1, <1>10 DEF TypeOK
  <2>2. CASE ~\E t \in Sessions \ {s} : ref \in Staging(t) \ {NoRef}
    <3>1. raced' = raced
      BY <1>2, <2>2 DEF LookUp
    <3> QED BY <3>1, <2>2 DEF TypeOK
  <2> QED BY <2>1, <2>2
<1> QED BY <1>2, <1>3, <1>4, <1>8, <1>9, <1>11 DEF LooksUp

\* The steps of s that leave the data as it is (the last also releases its position).
Rests(s, o, new) == new = Sees(s) /\ Turn(s, o, new) /\ NoWrite /\ Same

LEMMA RestShape ==
  ASSUME TypeOK, NEW s \in Sessions, NEW o \in Op, op' = [op EXCEPT ![s] = o], NoWrite, Same
  PROVE  \E new : Rests(s, o, new)
<1>1. PICK new : new = Sees(s)
  OBVIOUS
<1>2. new \in Database
  BY <1>1, SeesType
<1>3. Moves(s, Sees(s))
  BY WritesMove
<1>4. Turn(s, o, new)
  BY <1>1, <1>2, <1>3 DEF Turn, Now, Moves
<1> QED BY <1>1, <1>4 DEF Rests

Reused(o) == [o EXCEPT !.batch = Tail(@), !.found = Unread, !.done = @ \cup {o.found}]
ToProcess(o) == [o EXCEPT !.call = "process", !.todo = o.done]
ReadAgain(o, i, rows) == [o EXCEPT !.view = [@ EXCEPT ![i] = rows[i]], !.expired = @ \ {i}]
Failing(o, i, rows) ==
  [o EXCEPT !.call = "failing", !.expired = o.todo \ {i}, !.view = [@ EXCEPT ![i] = rows[i]]]

Reuses(s, o, new) ==
  /\ op[s].call = "ingest" /\ op[s].found \in Ids /\ op[s].batch # <<>>
  /\ o = Reused(op[s]) /\ Rests(s, o, new)
Proceeds(s, o, new) ==
  /\ op[s].call = "ingest" /\ op[s].auto /\ op[s].batch = <<>>
  /\ o = ToProcess(op[s]) /\ Rests(s, o, new)
Rereads(s, i, o, new) ==
  /\ op[s].call = "process" /\ i \in op[s].todo /\ i \in op[s].expired
  /\ o = ReadAgain(op[s], i, Sees(s).rows) /\ Rests(s, o, new)
Passes(s, i, o, new) ==
  /\ op[s].call = "process" /\ First(i, op[s].todo) /\ Skips(s, i)
  /\ o = Taken(op[s], i, op[s].view[i]) /\ Rests(s, o, new)

LEMMA ReuseShape ==
  ASSUME TypeOK, Control, NEW s \in Sessions, op[s].call = "ingest", op[s].found \in Ids,
         op' = [op EXCEPT ![s].batch = Tail(@), ![s].found = Unread, ![s].done = @ \cup {op[s].found}],
         NoWrite, Same
  PROVE  \E o, new : Reuses(s, o, new)
<1>1. op[s].batch # <<>>
  BY IdsNumbers DEF Control, OpFits
<1>2. PICK o : o = Reused(op[s])
  OBVIOUS
<1>3. o \in Op
  <2>1. op[s] \in Op /\ Tail(op[s].batch) \in Seq(Incoming)
    BY <1>1, HeadType DEF TypeOK
  <2> QED BY <1>2, <2>1 DEF Op, Reused
<1>4. op' = [op EXCEPT ![s] = o]
  BY <1>2 DEF Reused, TypeOK
<1>5. PICK new : Rests(s, o, new)
  BY <1>3, <1>4, RestShape
<1> QED BY <1>1, <1>2, <1>5 DEF Reuses

LEMMA ProceedShape ==
  ASSUME TypeOK, NEW s \in Sessions, op[s].call = "ingest", op[s].auto, op[s].batch = <<>>,
         op' = [op EXCEPT ![s].call = "process", ![s].todo = op[s].done], NoWrite, Same
  PROVE  \E o, new : Proceeds(s, o, new)
<1>1. PICK o : o = ToProcess(op[s])
  OBVIOUS
<1>2. o \in Op /\ op' = [op EXCEPT ![s] = o]
  BY <1>1 DEF Op, ToProcess, TypeOK, Calls
<1>3. PICK new : Rests(s, o, new)
  BY <1>2, RestShape
<1> QED BY <1>1, <1>3 DEF Proceeds

LEMMA RereadShape ==
  ASSUME TypeOK, NEW s \in Sessions, NEW i \in Ids, Reread(s, i)
  PROVE  \E o, new : Rereads(s, i, o, new)
<1>1. PICK o : o = ReadAgain(op[s], i, Sees(s).rows)
  OBVIOUS
<1>2. op[s] \in Op /\ Sees(s).rows \in [Ids -> Row]
  BY SeesType DEF TypeOK, Database
<1>3. o \in Op /\ op' = [op EXCEPT ![s] = o] /\ NoWrite /\ Same
  BY <1>1, <1>2 DEF Op, ReadAgain, TypeOK, Reread, Same
<1>4. PICK new : Rests(s, o, new)
  BY <1>3, RestShape
<1> QED BY <1>1, <1>4 DEF Rereads, Reread, First

LEMMA PassShape ==
  ASSUME TypeOK, NEW s \in Sessions, NEW i \in Ids, SkipPosted(s, i)
  PROVE  \E o, new : Passes(s, i, o, new)
<1>1. PICK v, o : v = op[s].view[i] /\ o = Taken(op[s], i, v)
  OBVIOUS
<1>2. op[s] \in Op /\ v \in Row
  BY <1>1 DEF TypeOK, Op
<1>3. op[s].call = "process" /\ First(i, op[s].todo) /\ Skips(s, i) /\ NoWrite /\ Same
  BY DEF SkipPosted, Takes, Same
<1>4. o \in Op /\ o = [op[s] EXCEPT !.todo = @ \ {i}, !.view = [@ EXCEPT ![i] = v]]
  <2>1. op[s] \in Op /\ v \in Row /\ op[s].call = "process"
    BY <1>2, <1>3
  <2>2. /\ Taken(op[s], i, v) \in Op
        /\ Taken(op[s], i, v) = [op[s] EXCEPT !.todo = @ \ {i}, !.view = [@ EXCEPT ![i] = v]]
    BY <2>1, TakenType
  <2> QED BY <1>1, <2>2
<1>5. op' = [op EXCEPT ![s] = o]
  BY <1>1, <1>4 DEF TypeOK, SkipPosted, NextItem
<1>6. PICK new : Rests(s, o, new)
  BY <1>3, <1>4, <1>5, RestShape
<1> QED BY <1>1, <1>3, <1>6 DEF Passes

\* The call ends, with or without its writes.
Refuses(s) ==
  /\ op[s].call = "ingest" /\ op[s].found \in Ids /\ op[s].batch # <<>>
  /\ op[s].view[op[s].found].payload # Head(op[s].batch).payload
  /\ refused' = refused \cup {<<op[s].view[op[s].found].given, Head(op[s].batch).payload>>}

Leaves(s, o, new) ==
  /\ o = Idle /\ new = db
  /\ Turn(s, o, new) /\ writer' # s /\ UNCHANGED <<period, chart, contended, raced>>
  /\ Refuses(s) \/ refused' = refused

Completes(s, o, new) ==
  /\ (op[s].call = "ingest" /\ op[s].commit) \/ (op[s].call = "process" /\ op[s].todo = {})
  /\ o = Idle /\ new = Sees(s)
  /\ Turn(s, o, new) /\ writer' # s /\ Same

LEMMA LeaveShape ==
  ASSUME TypeOK, NEW s \in Sessions, Quits(s), UNCHANGED <<period, chart, contended, raced>>,
         Refuses(s) \/ refused' = refused
  PROVE  \E o, new : Leaves(s, o, new)
<1>1. PICK o, new : o = Idle /\ new = db
  OBVIOUS
<1>2. Moves(s, db) /\ Now(s, Idle) /\ writer' # s
  BY QuitsMove
<1>3. o \in Op /\ new \in Database
  BY <1>1, StartTypes DEF TypeOK
<1>4. Turn(s, o, new)
  BY <1>1, <1>2, <1>3 DEF Turn, Now, Moves
<1> QED BY <1>1, <1>2, <1>4 DEF Leaves

LEMMA CompleteShape ==
  ASSUME TypeOK, NEW s \in Sessions, Finishes(s), Same,
         (op[s].call = "ingest" /\ op[s].commit) \/ (op[s].call = "process" /\ op[s].todo = {})
  PROVE  \E o, new : Completes(s, o, new)
<1>1. PICK o, new : o = Idle /\ new = Sees(s)
  OBVIOUS
<1>2. Moves(s, Sees(s)) /\ Now(s, Idle) /\ writer' # s
  BY QuitsMove
<1>3. o \in Op /\ new \in Database
  BY <1>1, StartTypes, SeesType
<1>4. Turn(s, o, new)
  BY <1>1, <1>2, <1>3 DEF Turn, Now, Moves
<1> QED BY <1>1, <1>2, <1>4 DEF Completes

\* Storing the journal failed: the session starts the item's failure from what is committed.
FailsToPost(s, i, o, new) ==
  /\ op[s].call = "process" /\ op[s].commit /\ First(i, op[s].todo) /\ i \notin op[s].expired
  /\ o = Failing(op[s], i, db.rows) /\ new = db /\ new = Sees(s)
  /\ Turn(s, o, new) /\ writer' # s /\ Same

LEMMA FailShape ==
  ASSUME TypeOK, Control, NEW s \in Sessions, NEW i \in Ids, PostingFails(s, i)
  PROVE  \E o, new : FailsToPost(s, i, o, new)
<1>1. PICK o, new : o = Failing(op[s], i, db.rows) /\ new = db
  OBVIOUS
<1>2. op[s].call = "process" /\ op[s].commit /\ First(i, op[s].todo) /\ i \notin op[s].expired
      /\ Rollback(s) /\ Same
  BY DEF PostingFails, Accepts, Takes, Same
<1>3. writer # s
  BY <1>2 DEF Control, MayWrite
<1>4. db = Sees(s) /\ writer' # s
  BY <1>2, <1>3 DEF Sees, Rollback
<1>5. op[s] \in Op /\ db \in Database /\ db.rows \in [Ids -> Row]
  BY DEF TypeOK, Database
<1>6. o \in Op /\ op' = [op EXCEPT ![s] = o]
  BY <1>1, <1>5 DEF Op, Failing, TypeOK, PostingFails, Calls
<1>7. Moves(s, db)
  BY <1>2, WritesMove
<1>8. Turn(s, o, new)
  BY <1>1, <1>5, <1>6, <1>7 DEF Turn, Now, Moves
<1> QED BY <1>1, <1>2, <1>4, <1>8 DEF FailsToPost

-----------------------------------------------------------------------------
(* Every step is one of these.                                             *)

ItemStep(s, i, o, new) ==
  \/ Rereads(s, i, o, new) \/ Passes(s, i, o, new) \/ FailsToPost(s, i, o, new)
  \/ \E st, row, v : Edits(s, i, st, row, v, o, new)
  \/ \E row, v : Journals(s, i, row, v, o, new)

StepOf(s, o, new) ==
  \/ \E batch, auto : BeginsIngest(s, batch, auto, o, new)
  \/ \E ids, auto : BeginsProcess(s, ids, auto, o, new)
  \/ \E i : LooksUp(s, i, o, new)
  \/ \E i \in Ids : Stages(s, i, o, new) \/ ItemStep(s, i, o, new)
  \/ Reuses(s, o, new) \/ Proceeds(s, o, new)
  \/ Leaves(s, o, new) \/ Completes(s, o, new)

\* The period moves or an account is created.
Elsewhere ==
  /\ writer = NoSession /\ NoWrite /\ UNCHANGED <<op, contended, raced, refused>>
  /\ period' \in {"OPEN", "READY", "CLOSED"} /\ chart' \subseteq Accounts

LEMMA ServeShape ==
  ASSUME TypeOK, Control, NEW s \in Sessions, Serve(s)
  PROVE  \E o, new : StepOf(s, o, new)
<1>1. CASE LookUp(s)
  <2>1. PICK i, o, new : LooksUp(s, i, o, new)
    BY <1>1, LookUpShape
  <2> QED BY <2>1 DEF StepOf
<1>2. CASE StageNew(s)
  <2>1. PICK i \in Ids : \E o, new : Stages(s, i, o, new)
    BY <1>2, StageShape
  <2> QED BY <2>1 DEF StepOf
<1>3. CASE ReuseExisting(s)
  <2>1. op[s].batch # <<>>
    BY <1>3, IdsNumbers DEF ReuseExisting, Control, OpFits
  <2>2. CASE SamePayload(op[s].view[op[s].found], Head(op[s].batch))
    <3>1. PICK o, new : Reuses(s, o, new)
      BY <1>3, <2>2, ReuseShape DEF ReuseExisting, Same
    <3> QED BY <3>1 DEF StepOf
  <2>3. CASE ~SamePayload(op[s].view[op[s].found], Head(op[s].batch))
    <3>1. Quits(s) /\ UNCHANGED <<period, chart, contended, raced>> /\ Refuses(s)
      BY <1>3, <2>1, <2>3 DEF ReuseExisting, Quits, Refuses, SamePayload
    <3>2. PICK o, new : Leaves(s, o, new)
      BY <3>1, LeaveShape
    <3> QED BY <3>2 DEF StepOf
  <2> QED BY <2>2, <2>3
<1>4. CASE CommitIngest(s)
  <2>1. CASE op[s].commit /\ Finishes(s)
    <3>1. PICK o, new : Completes(s, o, new)
      BY <1>4, <2>1, CompleteShape DEF CommitIngest, Same
    <3> QED BY <3>1 DEF StepOf
  <2>2. CASE op[s].auto /\ NoWrite /\ op' = [op EXCEPT ![s].call = "process", ![s].todo = op[s].done]
    <3>1. PICK o, new : Proceeds(s, o, new)
      BY <1>4, <2>2, ProceedShape DEF CommitIngest, Same
    <3> QED BY <3>1 DEF StepOf
  <2> QED BY <1>4, <2>1, <2>2 DEF CommitIngest, Finishes
<1>5. CASE EndProcess(s)
  <2>1. PICK o, new : Completes(s, o, new)
    BY <1>5, CompleteShape DEF EndProcess, Finishes, Same
  <2> QED BY <2>1 DEF StepOf
<1>6. CASE Abort(s)
  <2>1. PICK o, new : Leaves(s, o, new)
    BY <1>6, LeaveShape DEF Abort, Quits
  <2> QED BY <2>1 DEF StepOf
<1>7. ASSUME NEW i \in Ids,
             \/ Reread(s, i) \/ SkipPosted(s, i) \/ RefusedByPeriod(s, i) \/ Reject(s, i)
             \/ Validate(s, i) \/ PostAgain(s, i) \/ Post(s, i) \/ PostingFails(s, i)
             \/ RecordFailure(s, i)
      PROVE  \E o, new : StepOf(s, o, new)
  <2>1. CASE RefusedByPeriod(s, i)
    <3>1. PICK o, new : Leaves(s, o, new)
      BY <2>1, LeaveShape DEF RefusedByPeriod, Quits
    <3> QED BY <3>1 DEF StepOf
  <2>2. CASE Reread(s, i)
    <3>1. PICK o, new : Rereads(s, i, o, new)
      BY <2>2, RereadShape
    <3> QED BY <3>1 DEF StepOf, ItemStep
  <2>3. CASE SkipPosted(s, i)
    <3>1. PICK o, new : Passes(s, i, o, new)
      BY <2>3, PassShape
    <3> QED BY <3>1 DEF StepOf, ItemStep
  <2>4. CASE Reject(s, i) \/ Validate(s, i) \/ PostAgain(s, i) \/ RecordFailure(s, i)
    <3>1. PICK st, row, v, o, new : Edits(s, i, st, row, v, o, new)
      BY <2>4, EditShape
    <3> QED BY <3>1 DEF StepOf, ItemStep
  <2>5. CASE Post(s, i)
    <3>1. PICK row, v, o, new : Journals(s, i, row, v, o, new)
      BY <2>5, PostShape
    <3> QED BY <3>1 DEF StepOf, ItemStep
  <2>6. CASE PostingFails(s, i)
    <3>1. PICK o, new : FailsToPost(s, i, o, new)
      BY <2>6, FailShape
    <3> QED BY <3>1 DEF StepOf, ItemStep
  <2> QED BY <1>7, <2>1, <2>2, <2>3, <2>4, <2>5, <2>6
<1> QED BY <1>1, <1>2, <1>3, <1>4, <1>5, <1>6, <1>7 DEF Serve

LEMMA NextShape ==
  ASSUME TypeOK, Control, Next
  PROVE  Elsewhere \/ \E s \in Sessions : \E o, new : StepOf(s, o, new)
<1>1. ASSUME NEW st \in {"OPEN", "READY", "CLOSED"}, MovePeriod(st) PROVE Elsewhere
  BY <1>1 DEF MovePeriod, Elsewhere, NoWrite, TypeOK
<1>2. ASSUME NEW a \in Accounts, CreateAccount(a) PROVE Elsewhere
  BY <1>2 DEF CreateAccount, Elsewhere, NoWrite, TypeOK
<1>3. ASSUME NEW s \in Sessions, NEW batch \in Batches, NEW auto \in BOOLEAN, BeginIngest(s, batch, auto)
      PROVE  \E o, new : StepOf(s, o, new)
  <2>1. PICK o, new : BeginsIngest(s, batch, auto, o, new)
    BY <1>3, BeginIngestShape
  <2> QED BY <2>1 DEF StepOf
<1>4. ASSUME NEW s \in Sessions, NEW ids \in (SUBSET Present(db.rows)) \ {{}}, NEW auto \in BOOLEAN,
             BeginProcess(s, ids, auto)
      PROVE  \E o, new : StepOf(s, o, new)
  <2>1. PICK o, new : BeginsProcess(s, ids, auto, o, new)
    BY <1>4, BeginProcessShape
  <2> QED BY <2>1 DEF StepOf
<1>5. ASSUME NEW s \in Sessions, Serve(s) PROVE \E o, new : StepOf(s, o, new)
  BY <1>5, ServeShape
<1> QED BY <1>1, <1>2, <1>3, <1>4, <1>5 DEF Next

\* What every kind of step has in common.
LEMMA StepTurns ==
  ASSUME TypeOK, NEW s \in Sessions, NEW o, NEW new, StepOf(s, o, new)
  PROVE  /\ Turn(s, o, new)
         /\ UNCHANGED <<period, chart>>
         /\ contended \subseteq contended' /\ contended' \subseteq Ids
         /\ raced \subseteq raced' /\ raced' \subseteq Refs
         /\ refused' = refused \/ Refuses(s)
<1>0. contended \subseteq Ids /\ raced \subseteq Refs
  BY DEF TypeOK
<1>1. ASSUME NEW batch, NEW auto, BeginsIngest(s, batch, auto, o, new)
      PROVE  Turn(s, o, new) /\ Same
  BY <1>1 DEF BeginsIngest
<1>2. ASSUME NEW ids, NEW auto, BeginsProcess(s, ids, auto, o, new)
      PROVE  Turn(s, o, new) /\ UNCHANGED <<period, chart, raced, refused>>
             /\ contended \subseteq contended' /\ contended' \subseteq Ids
  BY <1>0, <1>2 DEF BeginsProcess, Contend, Present
<1>3. ASSUME NEW i, LooksUp(s, i, o, new)
      PROVE  Turn(s, o, new) /\ UNCHANGED <<period, chart, refused>>
             /\ contended \subseteq contended' /\ contended' \subseteq Ids
             /\ raced \subseteq raced' /\ raced' \subseteq Refs
  <2>1. CASE i \in Ids /\ op[s].auto
    BY <1>0, <1>3, <2>1 DEF LooksUp, Contend
  <2>2. CASE ~(i \in Ids /\ op[s].auto)
    BY <1>0, <1>3, <2>2 DEF LooksUp
  <2> QED BY <2>1, <2>2
<1>4. ASSUME NEW i \in Ids, Stages(s, i, o, new) PROVE Turn(s, o, new) /\ Same
  BY <1>4 DEF Stages
<1>5. ASSUME NEW i \in Ids, ItemStep(s, i, o, new) PROVE Turn(s, o, new) /\ Same
  <2>1. ASSUME NEW st, NEW row, NEW v, Edits(s, i, st, row, v, o, new) PROVE Turn(s, o, new) /\ Same
    BY <2>1 DEF Edits
  <2>2. ASSUME NEW row, NEW v, Journals(s, i, row, v, o, new) PROVE Turn(s, o, new) /\ Same
    BY <2>2 DEF Journals
  <2>3. CASE Rereads(s, i, o, new) \/ Passes(s, i, o, new) \/ FailsToPost(s, i, o, new)
    BY <2>3 DEF Rereads, Passes, FailsToPost, Rests
  <2> QED BY <1>5, <2>1, <2>2, <2>3 DEF ItemStep
<1>6. CASE Reuses(s, o, new) \/ Proceeds(s, o, new) \/ Completes(s, o, new)
  <2>1. Turn(s, o, new) /\ Same
    BY <1>6 DEF Reuses, Proceeds, Completes, Rests
  <2> QED BY <1>0, <2>1 DEF Same
<1>7. CASE Leaves(s, o, new)
  BY <1>0, <1>7 DEF Leaves
<1> QED BY <1>0, <1>1, <1>2, <1>3, <1>4, <1>5, <1>6, <1>7 DEF StepOf, Same

LEMMA NextType == ASSUME TypeOK, Control, Next PROVE TypeOK'
<1>1. CASE Elsewhere
  BY <1>1 DEF TypeOK, Elsewhere, NoWrite
<1>2. ASSUME NEW s \in Sessions, NEW o, NEW new, StepOf(s, o, new) PROVE TypeOK'
  <2>1. /\ Turn(s, o, new) /\ UNCHANGED <<period, chart>>
        /\ contended' \subseteq Ids /\ raced' \subseteq Refs /\ (refused' = refused \/ Refuses(s))
    BY <1>2, StepTurns
  <2>2. db' \in Database /\ draft' \in Database /\ writer' \in Sessions \cup {NoSession}
    BY <2>1, StartTypes DEF Turn, Moves, TypeOK
  <2>3. op' \in [Sessions -> Op]
    BY <2>1, NowOp DEF Turn
  <2>4. refused' \subseteq AnyPayload \X AnyPayload
    <3>1. CASE Refuses(s)
      <4>1. op[s] \in Op /\ op[s].batch # <<>> /\ op[s].found \in Ids
        BY <3>1 DEF Refuses, TypeOK
      <4>2. Head(op[s].batch).payload \in AnyPayload /\ op[s].view[op[s].found].given \in AnyPayload
        BY <4>1, HeadType DEF Op, Row
      <4> QED BY <3>1, <4>2 DEF Refuses, TypeOK
    <3>2. CASE refused' = refused
      BY <3>2 DEF TypeOK
    <3> QED BY <2>1, <3>1, <3>2
  <2> QED BY <2>1, <2>2, <2>3, <2>4 DEF TypeOK
<1> QED BY <1>1, <1>2, NextShape

LEMMA IdleFits == OpFits(Idle) /\ ~MayWrite(Idle)
  BY DEF OpFits, MayWrite, Idle

LEMMA TakenFits ==
  ASSUME NEW o \in Op, OpFits(o), o.call \in {"process", "failing"}, NEW i, NEW v
  PROVE  /\ OpFits(Taken(o, i, v)) /\ (~o.commit => MayWrite(Taken(o, i, v)))
         /\ Taken(o, i, v).commit = o.commit /\ Taken(o, i, v).auto = o.auto
         /\ Taken(o, i, v).call = "process" /\ Taken(o, i, v).done = o.done
         /\ Taken(o, i, v).found = o.found /\ Taken(o, i, v).expired = o.expired
         /\ Taken(o, i, v).todo = o.todo \ {i} /\ Taken(o, i, v).view = [o.view EXCEPT ![i] = v]
<1> DEFINE q == Taken(o, i, v)
<1>1. /\ q.commit = o.commit /\ q.auto = o.auto /\ q.call = "process" /\ q.done = o.done
      /\ q.found = o.found /\ q.expired = o.expired /\ q.batch = o.batch
      /\ q.todo = o.todo \ {i} /\ q.view = [o.view EXCEPT ![i] = v]
  BY DEF Taken, Op
<1> HIDE DEF q
<1>2. o.found = Unread
  BY DEF OpFits
<1>3. o.auto \in BOOLEAN /\ o.commit \in BOOLEAN
  BY DEF Op
<1>4. OpFits(q)
  BY <1>1, <1>2, <1>3 DEF OpFits
<1>5. ~o.commit => MayWrite(q)
  BY <1>1 DEF MayWrite
<1> QED BY <1>1, <1>4, <1>5 DEF q

LEMMA NextControl == ASSUME TypeOK, Control, Next PROVE Control'
<1>1. CASE Elsewhere
  BY <1>1 DEF Control, Elsewhere, NoWrite
<1>2. ASSUME NEW s \in Sessions, NEW o, NEW new, StepOf(s, o, new) PROVE Control'
  <2>1. Turn(s, o, new)
    BY <1>2, StepTurns
  <2>2. op'[s] = o /\ \A t \in Sessions \ {s} : op'[t] = op[t]
    BY <2>1, NowOp DEF Turn
  <2>3. \A t \in Sessions \ {s} : writer' = t => writer = t
    BY <2>1, NoSessionAssumption DEF Turn, Moves
  <2>4. SUFFICES OpFits(o) /\ (writer' = s => MayWrite(o))
    BY <2>2, <2>3, <2>4 DEF Control
  <2>5. op[s] \in Op /\ OpFits(op[s]) /\ (writer = s => MayWrite(op[s]))
        /\ op[s].auto \in BOOLEAN /\ op[s].commit \in BOOLEAN
    BY DEF TypeOK, Control, Op
  <2>6. ASSUME NEW batch, NEW auto, BeginsIngest(s, batch, auto, o, new)
        PROVE  OpFits(o) /\ (writer' = s => MayWrite(o))
    <3>1. /\ o.call = "ingest" /\ o.auto = auto /\ o.commit = ~auto /\ o.batch = batch
          /\ o.found = Unread /\ o.todo = {} /\ o.done = {} /\ o.expired = {}
      BY <2>6 DEF BeginsIngest, Ingesting, Idle
    <3> QED BY <3>1, <2>6 DEF BeginsIngest, OpFits, MayWrite
  <2>7. ASSUME NEW ids, NEW auto, BeginsProcess(s, ids, auto, o, new)
        PROVE  OpFits(o) /\ (writer' = s => MayWrite(o))
    <3>1. /\ o.call = "process" /\ o.commit /\ o.found = Unread /\ o.done = {} /\ o.expired = {}
      BY <2>7 DEF BeginsProcess, Processing, Idle
    <3>2. writer' # s
      BY <2>5, <2>7, IdleFits DEF BeginsProcess, NoWrite
    <3> QED BY <3>1, <3>2 DEF OpFits
  <2>8. ASSUME NEW i, LooksUp(s, i, o, new) PROVE OpFits(o) /\ (writer' = s => MayWrite(o))
    <3>1. /\ o.call = op[s].call /\ o.auto = op[s].auto /\ o.commit = op[s].commit
          /\ o.batch = op[s].batch /\ o.todo = op[s].todo /\ o.done = op[s].done
          /\ o.expired = op[s].expired
      BY <2>5, <2>8 DEF LooksUp, FoundIn, Op
    <3> QED BY <2>5, <2>8, <3>1 DEF LooksUp, OpFits, MayWrite
  <2>9. ASSUME NEW i \in Ids, Stages(s, i, o, new) PROVE OpFits(o) /\ (writer' = s => MayWrite(o))
    <3>1. /\ o.call = op[s].call /\ o.auto = op[s].auto /\ o.commit = op[s].commit
          /\ o.found = Unread /\ o.todo = op[s].todo /\ o.expired = op[s].expired
      BY <2>5, <2>9 DEF Stages, StagedTo, Op
    <3> QED BY <2>5, <2>9, <3>1 DEF Stages, OpFits, MayWrite
  <2>10. CASE Reuses(s, o, new)
    <3>1. /\ o.call = op[s].call /\ o.auto = op[s].auto /\ o.commit = op[s].commit
          /\ o.found = Unread /\ o.todo = op[s].todo /\ o.expired = op[s].expired
      BY <2>5, <2>10 DEF Reuses, Reused, Op
    <3> QED BY <2>5, <2>10, <3>1 DEF Reuses, OpFits, MayWrite
  <2>11. CASE Proceeds(s, o, new)
    <3>1. /\ o.call = "process" /\ o.auto = op[s].auto /\ o.commit = op[s].commit
          /\ o.found = op[s].found /\ o.todo = op[s].done /\ o.done = op[s].done
          /\ o.expired = op[s].expired
      BY <2>5, <2>11 DEF Proceeds, ToProcess, Op
    <3> QED BY <2>5, <2>11, <3>1 DEF Proceeds, OpFits, MayWrite
  <2>12. CASE Leaves(s, o, new) \/ Completes(s, o, new)
    BY <2>12, IdleFits DEF Leaves, Completes
  <2>13. ASSUME NEW i \in Ids, ItemStep(s, i, o, new) PROVE OpFits(o) /\ (writer' = s => MayWrite(o))
    <3>1. CASE Rereads(s, i, o, new)
      <4>1. /\ o.call = op[s].call /\ o.auto = op[s].auto /\ o.commit = op[s].commit
            /\ o.found = op[s].found /\ o.todo = op[s].todo /\ o.done = op[s].done
            /\ o.expired = op[s].expired \ {i} /\ o.batch = op[s].batch
        BY <2>5, <3>1 DEF Rereads, ReadAgain, Op
      <4>2. writer' = s => writer = s
        BY <3>1 DEF Rereads, Rests, NoWrite
      <4>3. OpFits(o)
        BY <2>5, <3>1, <4>1 DEF Rereads, OpFits
      <4> QED BY <2>5, <4>1, <4>2, <4>3 DEF MayWrite
    <3>2. CASE Passes(s, i, o, new)
      <4>1. op[s].call \in {"process", "failing"} /\ writer' = writer
        BY <3>2 DEF Passes, Rests, NoWrite
      <4>2. PICK v : o = Taken(op[s], i, v)
        BY <3>2 DEF Passes
      <4>3. OpFits(o) /\ (~op[s].commit => MayWrite(o))
        BY <2>5, <4>1, <4>2, TakenFits
      <4>4. writer = s => ~op[s].commit
        BY <2>5, <3>2 DEF MayWrite, Passes
      <4> QED BY <4>1, <4>3, <4>4
    <3>3. CASE FailsToPost(s, i, o, new)
      <4>1. /\ o.call = "failing" /\ o.auto = op[s].auto /\ o.commit
            /\ o.found = op[s].found /\ o.done = op[s].done
        BY <2>5, <3>3 DEF FailsToPost, Failing, Op
      <4> QED BY <2>5, <3>3, <4>1 DEF FailsToPost, OpFits
    <3>4. ASSUME NEW st, NEW row, NEW v, Edits(s, i, st, row, v, o, new)
          PROVE  OpFits(o) /\ (writer' = s => MayWrite(o))
      <4>1. op[s].call \in {"process", "failing"} /\ o = Taken(op[s], i, v) /\ Write(s, new)
        BY <3>4 DEF Edits
      <4>2. OpFits(o) /\ (~op[s].commit => MayWrite(o))
        BY <2>5, <4>1, TakenFits
      <4> QED BY <4>1, <4>2, NoSessionAssumption DEF Write, Commit
    <3>5. ASSUME NEW row, NEW v, Journals(s, i, row, v, o, new)
          PROVE  OpFits(o) /\ (writer' = s => MayWrite(o))
      <4>1. op[s].call \in {"process", "failing"} /\ o = Taken(op[s], i, v) /\ Write(s, new)
        BY <3>5 DEF Journals
      <4>2. OpFits(o) /\ (~op[s].commit => MayWrite(o))
        BY <2>5, <4>1, TakenFits
      <4> QED BY <4>1, <4>2, NoSessionAssumption DEF Write, Commit
    <3> QED BY <2>13, <3>1, <3>2, <3>3, <3>4, <3>5 DEF ItemStep
  <2> QED BY <1>2, <2>6, <2>7, <2>8, <2>9, <2>10, <2>11, <2>12, <2>13 DEF StepOf
<1> QED BY <1>1, <1>2, NextShape

LEMMA InitControl == Init => Control
  BY IdleFits, NoSessionAssumption DEF Init, Control

\* A session that keeps its call and its position keeps every invariant.
LEMMA StutterControl == ASSUME TypeOK, Control, UNCHANGED vars PROVE TypeOK' /\ Control'
  BY DEF TypeOK, Control, vars

(***************************************************************************)
(* TypeOK, for any constants: no step leaves the types, whatever calls are *)
(* under way.                                                              *)
(***************************************************************************)
THEOREM TypesHold == Spec => []TypeOK
<1>1. Init => TypeOK /\ Control
  BY InitType, InitControl
<1>2. TypeOK /\ Control /\ [Next]_vars => (TypeOK /\ Control)'
  BY NextType, NextControl, StutterControl
<1> QED BY <1>1, <1>2, PTL DEF Spec

\* What a call is in the middle of fits what it does next, in every behaviour.
LEMMA ControlHolds == Spec => [](TypeOK /\ Control)
<1>1. Init => TypeOK /\ Control
  BY InitType, InitControl
<1>2. TypeOK /\ Control /\ [Next]_vars => (TypeOK /\ Control)'
  BY NextType, NextControl, StutterControl
<1> QED BY <1>1, <1>2, PTL DEF Spec

-----------------------------------------------------------------------------
(* The ledger of a period that is not open.                                *)

\* Journals nobody else sees yet are in a draft, and while there is a draft
\* the period cannot leave OPEN.
DraftedWhileOpen == \A s \in Sessions : Sees(s).journals # db.journals => period = "OPEN"

LEMMA StepJournals ==
  ASSUME TypeOK, Control, NEW s \in Sessions, NEW o, NEW new, StepOf(s, o, new)
  PROVE  new.journals = Sees(s).journals \/ new = db \/ period = "OPEN"
<1>0. Sees(s) \in Database
  BY SeesType
<1>1. ASSUME NEW batch, NEW auto, BeginsIngest(s, batch, auto, o, new) PROVE new = Sees(s)
  BY <1>1 DEF BeginsIngest
<1>2. ASSUME NEW ids, NEW auto, BeginsProcess(s, ids, auto, o, new) PROVE new = Sees(s)
  BY <1>2 DEF BeginsProcess
<1>3. ASSUME NEW i, LooksUp(s, i, o, new) PROVE new = Sees(s)
  BY <1>3 DEF LooksUp
<1>4. ASSUME NEW i \in Ids, Stages(s, i, o, new) PROVE new.journals = Sees(s).journals
  <2>1. PICK row : row \in Row /\ new = SetRow(Sees(s), i, row)
    BY <1>4 DEF Stages
  <2> QED BY <1>0, <2>1 DEF SetRow, Database
<1>5. ASSUME NEW i \in Ids, ItemStep(s, i, o, new)
      PROVE  new.journals = Sees(s).journals \/ new = db \/ period = "OPEN"
  <2>1. ASSUME NEW st, NEW row, NEW v, Edits(s, i, st, row, v, o, new)
        PROVE  new.journals = Sees(s).journals
    BY <1>0, <2>1, SetRowType DEF Edits, Edited
  <2>2. ASSUME NEW row, NEW v, Journals(s, i, row, v, o, new) PROVE period = "OPEN"
    BY <2>2 DEF Journals
  <2>3. CASE Rereads(s, i, o, new) \/ Passes(s, i, o, new) \/ FailsToPost(s, i, o, new)
    BY <2>3 DEF Rereads, Passes, FailsToPost, Rests
  <2> QED BY <1>5, <2>1, <2>2, <2>3 DEF ItemStep
<1>6. CASE Reuses(s, o, new) \/ Proceeds(s, o, new) \/ Completes(s, o, new) \/ Leaves(s, o, new)
  BY <1>6 DEF Reuses, Proceeds, Completes, Rests, Leaves
<1> QED BY <1>1, <1>2, <1>3, <1>4, <1>5, <1>6 DEF StepOf

LEMMA FrozenStep ==
  ASSUME TypeOK, Control, DraftedWhileOpen, Next
  PROVE  DraftedWhileOpen' /\ (period # "OPEN" => db'.journals = db.journals)
<1>1. CASE Elsewhere
  <2>1. \A s \in Sessions : Sees(s)' = db'
    BY <1>1, NoSessionAssumption DEF Elsewhere, NoWrite, Sees
  <2>2. DraftedWhileOpen'
    BY <2>1 DEF DraftedWhileOpen
  <2> QED BY <1>1, <2>2 DEF Elsewhere, NoWrite
<1>2. ASSUME NEW s \in Sessions, NEW o, NEW new, StepOf(s, o, new)
      PROVE  DraftedWhileOpen' /\ (period # "OPEN" => db'.journals = db.journals)
  <2>1. Turn(s, o, new) /\ period' = period
    BY <1>2, StepTurns
  <2>2. new.journals = Sees(s).journals \/ new = db \/ period = "OPEN"
    BY <1>2, StepJournals
  <2>3. period # "OPEN" => new.journals = db.journals
    BY <2>2 DEF DraftedWhileOpen
  <2>4. Sees(s)' = new /\ (db' = db \/ db' = new)
    BY <2>1 DEF Turn, Moves
  <2>5. ASSUME NEW t \in Sessions, period # "OPEN" PROVE Sees(t)'.journals = db'.journals
    <3>1. CASE t = s
      BY <2>3, <2>4, <2>5, <3>1
    <3>2. CASE t # s
      <4>1. (db' = db /\ Sees(t)' = Sees(t)) \/ Sees(t)' = db'
        BY <2>1, <3>2 DEF Turn, Moves
      <4> QED BY <2>5, <4>1 DEF DraftedWhileOpen
    <3> QED BY <3>1, <3>2
  <2>6. DraftedWhileOpen'
    BY <2>1, <2>5 DEF DraftedWhileOpen
  <2> QED BY <2>3, <2>4, <2>6
<1> QED BY <1>1, <1>2, NextShape

(***************************************************************************)
(* FrozenLedger: whatever transactions were begun before the period became *)
(* ready or was closed, none of them adds a journal to it afterwards.      *)
(***************************************************************************)
THEOREM FrozenLedgerHolds == Spec => FrozenLedger
<1> DEFINE Inv == TypeOK /\ Control /\ DraftedWhileOpen
<1>1. Init => Inv
  <2>1. Init => DraftedWhileOpen
    BY DEF Init, DraftedWhileOpen, Sees
  <2> QED BY <2>1, InitType, InitControl
<1>2. Inv /\ [Next]_vars => Inv' /\ (period # "OPEN" => db'.journals = db.journals)
  <2>1. Inv /\ UNCHANGED vars => DraftedWhileOpen' /\ db' = db
    BY DEF vars, DraftedWhileOpen, Sees
  <2>2. Inv /\ Next => Inv' /\ (period # "OPEN" => db'.journals = db.journals)
    BY FrozenStep, NextType, NextControl
  <2> QED BY <2>1, <2>2, StutterControl
<1>3. Inv /\ [Next]_vars => [period # "OPEN" => db'.journals = db.journals]_vars
  BY <1>2
<1> HIDE DEF Inv
<1> QED BY <1>1, <1>2, <1>3, PTL DEF Spec, FrozenLedger

-----------------------------------------------------------------------------
(* Rows, their journals, and the copies sessions have of them.             *)

GoodRow(row, i, journals) ==
  /\ row.txn # NoTxn => \E j \in journals : j.id = row.txn /\ j.row = i
  /\ row.status = "POSTED" => row.txn # NoTxn
  /\ row.status = "ABSENT" => row.txn = NoTxn
  /\ row.payload \in {row.given, Normalised(row.given)}

\* Journals are numbered, and a row's transaction_id names a journal of that row.
GoodDb(d) ==
  /\ \A j \in d.journals : j.id <= Cardinality(d.journals)
  /\ \A j, k \in d.journals : j.id = k.id => j = k
  /\ \A i \in Ids : GoodRow(d.rows[i], i, d.journals)

\* What can become of a staged row.
Follows(old, row) ==
  /\ row.status # "ABSENT" /\ row.ref = old.ref /\ row.given = old.given
  /\ old.txn # NoTxn => row.txn # NoTxn

Grows(d, e) == \A i \in Ids : d.rows[i].status # "ABSENT" => Follows(d.rows[i], e.rows[i])

\* A session's copy of a row may be old, but it is a copy of that row.
CopyOf(v, row) ==
  /\ row.status # "ABSENT" /\ v.given = row.given
  /\ v.txn # NoTxn => row.txn # NoTxn
  /\ v.payload \in {v.given, Normalised(v.given)}

Claimed(o) == o.todo \cup o.done \cup ({o.found} \cap Ids)
CopiesFit(o, d) == \A i \in Claimed(o) : CopyOf(o.view[i], d.rows[i])

Data ==
  /\ GoodDb(db)
  /\ \A s \in Sessions : GoodDb(Sees(s)) /\ Grows(db, Sees(s)) /\ CopiesFit(op[s], Sees(s))

LEMMA ClaimedIds == ASSUME NEW o \in Op PROVE Claimed(o) \subseteq Ids
  BY DEF Claimed, Op

LEMMA GrowsAlong ==
  /\ \A d : Grows(d, d)
  /\ \A d, e, f : Grows(d, e) /\ Grows(e, f) => Grows(d, f)
  BY DEF Grows, Follows

LEMMA CopiesFollow ==
  ASSUME NEW o \in Op, NEW d, NEW e, CopiesFit(o, d), Grows(d, e)
  PROVE  CopiesFit(o, e)
  BY ClaimedIds DEF CopiesFit, CopyOf, Grows, Follows

LEMMA KeepData ==
  ASSUME TypeOK, Data, NEW s \in Sessions, NEW o, NEW new, Turn(s, o, new),
         GoodDb(new), Grows(db, new), CopiesFit(o, new)
  PROVE  Data'
<1>1. op'[s] = o /\ \A t \in Sessions \ {s} : op'[t] = op[t]
  BY NowOp DEF Turn
<1>2. Sees(s)' = new /\ (db' = db \/ db' = new)
  BY DEF Turn, Moves
<1>3. GoodDb(db') /\ Grows(db', new) /\ Grows(db, db')
  BY <1>2, GrowsAlong DEF Data
<1>4. ASSUME NEW t \in Sessions
      PROVE  GoodDb(Sees(t)') /\ Grows(db', Sees(t)') /\ CopiesFit(op'[t], Sees(t)')
  <2>1. CASE t = s
    BY <1>1, <1>2, <1>3, <2>1
  <2>2. CASE t # s
    <3>1. op'[t] = op[t] /\ op[t] \in Op
      BY <1>1, <2>2 DEF TypeOK
    <3>2. CASE db' = db /\ Sees(t)' = Sees(t)
      BY <3>1, <3>2 DEF Data
    <3>3. CASE Sees(t) = db /\ Sees(t)' = db'
      <4>1. CopiesFit(op[t], db)
        BY <3>3 DEF Data
      <4>2. CopiesFit(op[t], db')
        BY <1>3, <3>1, <4>1, CopiesFollow
      <4> QED BY <1>3, <3>1, <3>3, <4>2, GrowsAlong
    <3> QED BY <2>2, <3>2, <3>3 DEF Turn, Moves
  <2> QED BY <2>1, <2>2
<1> QED BY <1>3, <1>4 DEF Data

\* One row of a good database is changed.
LEMMA GoodRowChange ==
  ASSUME NEW d \in Database, GoodDb(d), NEW i \in Ids, NEW row \in Row,
         GoodRow(row, i, d.journals), d.rows[i].status # "ABSENT" => Follows(d.rows[i], row)
  PROVE  GoodDb(SetRow(d, i, row)) /\ Grows(d, SetRow(d, i, row))
<1>1. /\ \A k \in Ids : SetRow(d, i, row).rows[k] = IF k = i THEN row ELSE d.rows[k]
      /\ SetRow(d, i, row).journals = d.journals
  BY DEF SetRow, Database
<1>2. GoodDb(SetRow(d, i, row))
  BY <1>1 DEF GoodDb
<1>3. Grows(d, SetRow(d, i, row))
  BY <1>1 DEF Grows, Follows
<1> QED BY <1>2, <1>3

\* A journal is added with the next number.
LEMMA GoodPosting ==
  ASSUME NEW d \in Database, GoodDb(d), NEW i \in Ids, NEW row \in Row,
         row.txn = Cardinality(d.journals) + 1, row.txn \in 1..MaxJournals,
         row.status = "POSTED", row.payload \in {row.given, Normalised(row.given)},
         Follows(d.rows[i], row)
  PROVE  GoodDb(WithJournal(d, i, row)) /\ Grows(d, WithJournal(d, i, row))
<1> DEFINE e == WithJournal(d, i, row)
<1> DEFINE j == [id |-> row.txn, row |-> i]
<1>1. /\ \A k \in Ids : e.rows[k] = IF k = i THEN row ELSE d.rows[k]
      /\ e.journals = d.journals \cup {j}
  BY WithJournalType
<1>2. \A k \in d.journals : k.id < row.txn /\ k.id \in Nat
  <2>1. \A k \in d.journals : k.id \in 1..MaxJournals
    BY DEF Database
  <2> QED BY <2>1, NextJournal, MaxJournalsAssumption DEF GoodDb
<1>3. j \notin d.journals
  BY <1>2
<1>4. IsFiniteSet(d.journals) /\ Cardinality(d.journals) \in Nat
  BY NextJournal
<1>5. Cardinality(e.journals) = row.txn
  <2>1. \A S, x : IsFiniteSet(S) /\ x \notin S => Cardinality(S \cup {x}) = Cardinality(S) + 1
    BY FS_AddElement
  <2> HIDE DEF e, j
  <2>2. Cardinality(d.journals \cup {j}) = Cardinality(d.journals) + 1
    BY <1>3, <1>4, <2>1
  <2> QED BY <1>1, <2>2
<1> HIDE DEF e
<1>6. \A k \in e.journals : k.id <= Cardinality(e.journals)
  BY <1>1, <1>2, <1>5
<1>7. \A k, l \in e.journals : k.id = l.id => k = l
  BY <1>1, <1>2 DEF GoodDb
<1>8. ASSUME NEW k \in Ids PROVE GoodRow(e.rows[k], k, e.journals)
  <2>1. CASE k = i
    <3>1. row.txn # NoTxn
      BY MaxJournalsAssumption DEF NoTxn
    <3>2. e.rows[k] = row /\ j \in e.journals /\ j.id = row.txn /\ j.row = k
      BY <1>1, <2>1
    <3> QED BY <3>1, <3>2 DEF GoodRow
  <2>2. CASE k # i
    BY <1>1, <2>2 DEF GoodDb, GoodRow
  <2> QED BY <2>1, <2>2
<1>9. GoodDb(e)
  BY <1>6, <1>7, <1>8 DEF GoodDb
<1>10. Grows(d, e)
  BY <1>1 DEF Grows, Follows
<1> QED BY <1>9, <1>10 DEF e

LEMMA NormalisedTwice == \A p \in AnyPayload : Normalised(Normalised(p)) = Normalised(p)
  BY PayloadTypes

\* A decision on a row keeps it good, and the session's copy a copy.
LEMMA GoodEdit ==
  ASSUME NEW st, NEW old \in Row, NEW read \in Row, NEW row, NEW v, NEW i \in Ids,
         NEW journals \in SUBSET [id : 1..MaxJournals, row : Ids],
         Edited(st, old, read, row, v), CopyOf(read, old), GoodRow(old, i, journals),
         st = "POSTED" => PostedBefore(read, journals)
  PROVE  GoodRow(row, i, journals) /\ Follows(old, row) /\ CopyOf(v, row)
<1>1. st = "POSTED" => read.txn # NoTxn
  <2>1. \A j \in journals : j.id # NoTxn
    BY MaxJournalsAssumption DEF NoTxn
  <2> QED BY <2>1 DEF PostedBefore
<1>2. st = "POSTED" => row.txn # NoTxn
  BY <1>1 DEF Edited, CopyOf
<1>3. row.status # "ABSENT" /\ (row.status = "POSTED" => row.txn # NoTxn)
  BY <1>2 DEF Edited, CopyOf, GoodRow
<1>4. Normalised(read.payload) = Normalised(row.given)
      /\ row.payload \in {row.given, Normalised(row.given)}
      /\ v.payload \in {v.given, Normalised(v.given)}
  <2>1. read.given = old.given /\ old.given = row.given /\ v.given = row.given /\ row.given \in AnyPayload
    BY DEF Edited, CopyOf, Row
  <2>2. read.payload \in {row.given, Normalised(row.given)}
    BY <2>1 DEF CopyOf
  <2>3. Normalised(read.payload) = Normalised(row.given)
    BY <2>1, <2>2, NormalisedTwice
  <2>4. old.payload \in {row.given, Normalised(row.given)}
    BY <2>1 DEF GoodRow
  <2> QED BY <2>1, <2>2, <2>3, <2>4 DEF Edited
<1>5. GoodRow(row, i, journals)
  BY <1>3, <1>4 DEF GoodRow, Edited
<1>6. Follows(old, row)
  BY <1>3 DEF Follows, Edited
<1>7. CopyOf(v, row)
  BY <1>3, <1>4 DEF CopyOf, Edited
<1> QED BY <1>5, <1>6, <1>7

\* A copy is replaced by one that fits, and no more rows are claimed.
LEMMA TakenCopies ==
  ASSUME NEW o \in Op, OpFits(o), o.call \in {"process", "failing"}, NEW i \in Ids, NEW v \in Row,
         NEW d, NEW e, CopiesFit(o, d), Grows(d, e), CopyOf(v, e.rows[i])
  PROVE  CopiesFit(Taken(o, i, v), e)
<1>1. /\ Taken(o, i, v).done = o.done /\ Taken(o, i, v).found = o.found
      /\ Taken(o, i, v).todo = o.todo \ {i} /\ Taken(o, i, v).view = [o.view EXCEPT ![i] = v]
  BY DEF Taken, Op
<1>2. CopiesFit(o, e)
  BY CopiesFollow
<1>3. o.view \in [Ids -> Row] /\ Claimed(o) \subseteq Ids
  BY ClaimedIds DEF Op
<1>4. \A k \in Ids : Taken(o, i, v).view[k] = IF k = i THEN v ELSE o.view[k]
  BY <1>1, <1>3
<1>5. Claimed(Taken(o, i, v)) \subseteq Claimed(o)
  BY <1>1 DEF Claimed
<1> QED BY <1>2, <1>3, <1>4, <1>5 DEF CopiesFit

LEMMA IdleCopies == \A d : CopiesFit(Idle, d)
<1>1. Claimed(Idle) = {}
  BY IdsNumbers DEF Claimed, Idle
<1> QED BY <1>1 DEF CopiesFit

LEMMA StageData ==
  ASSUME TypeOK, Control, Data, NEW s \in Sessions, NEW i \in Ids, NEW o, NEW new, Stages(s, i, o, new)
  PROVE  GoodDb(new) /\ Grows(db, new) /\ CopiesFit(o, new)
<1>1. PICK row : row = StagedRow(Head(op[s].batch)) /\ row \in Row
  BY DEF Stages
<1>2. o = StagedTo(op[s], i, row) /\ new = SetRow(Sees(s), i, row)
  BY <1>1 DEF Stages
<1>3. Sees(s) \in Database /\ op[s] \in Op
  BY SeesType DEF TypeOK
<1>4. Sees(s).rows[i].status = "ABSENT"
  BY DEF Stages, Present
<1>5. GoodRow(row, i, Sees(s).journals) /\ CopyOf(row, row)
  BY <1>1 DEF GoodRow, CopyOf, StagedRow
<1>6. GoodDb(new) /\ Grows(Sees(s), new)
  BY <1>2, <1>1, <1>3, <1>4, <1>5, GoodRowChange DEF Data
<1>7. Grows(db, new)
  BY <1>6, GrowsAlong DEF Data
<1>8. CopiesFit(op[s], new)
  BY <1>3, <1>6, CopiesFollow DEF Data
<1>9. /\ \A k \in Ids : o.view[k] = IF k = i THEN row ELSE op[s].view[k]
      /\ Claimed(o) \subseteq Claimed(op[s]) \cup {i}
  <2>1. /\ o.view = [op[s].view EXCEPT ![i] = row] /\ o.done = op[s].done \cup {i}
        /\ o.found = Unread /\ o.todo = op[s].todo
    BY <1>2, <1>3 DEF StagedTo, Op
  <2>2. Claimed(o) \subseteq Claimed(op[s]) \cup {i}
    BY <2>1, IdsNumbers DEF Claimed
  <2> QED BY <1>3, <2>1, <2>2 DEF Op
<1>10. new.rows[i] = row
  BY <1>2, <1>1, <1>3 DEF SetRow, Database
<1>11. Claimed(op[s]) \subseteq Ids
  BY <1>3, ClaimedIds
<1>12. CopiesFit(o, new)
  BY <1>5, <1>8, <1>9, <1>10, <1>11 DEF CopiesFit
<1> QED BY <1>6, <1>7, <1>12

LEMMA ItemData ==
  ASSUME TypeOK, Control, Data, NEW s \in Sessions, NEW i \in Ids, NEW o, NEW new, ItemStep(s, i, o, new)
  PROVE  GoodDb(new) /\ Grows(db, new) /\ CopiesFit(o, new)
<1>1. /\ Sees(s) \in Database /\ op[s] \in Op /\ OpFits(op[s]) /\ db \in Database
      /\ Sees(s).rows[i] \in Row /\ op[s].view[i] \in Row
      /\ Sees(s).journals \in SUBSET [id : 1..MaxJournals, row : Ids]
  BY SeesType DEF TypeOK, Control, Op, Database
<1>2. /\ GoodDb(Sees(s)) /\ Grows(db, Sees(s)) /\ CopiesFit(op[s], Sees(s)) /\ GoodDb(db)
      /\ GoodRow(Sees(s).rows[i], i, Sees(s).journals)
  BY DEF Data, GoodDb
<1>3. i \in op[s].todo => CopyOf(op[s].view[i], Sees(s).rows[i])
  BY <1>2 DEF CopiesFit, Claimed
<1>4. CASE Rereads(s, i, o, new)
  <2>1. /\ o.view = [op[s].view EXCEPT ![i] = Sees(s).rows[i]] /\ Claimed(o) = Claimed(op[s])
        /\ new = Sees(s) /\ i \in op[s].todo
    BY <1>1, <1>4 DEF Rereads, ReadAgain, Op, Claimed, Rests
  <2>2. CopyOf(Sees(s).rows[i], Sees(s).rows[i])
    BY <1>2, <1>3, <2>1 DEF CopyOf, GoodRow
  <2>3. \A k \in Ids : o.view[k] = IF k = i THEN Sees(s).rows[i] ELSE op[s].view[k]
    BY <1>1, <2>1 DEF Op
  <2>4. CopiesFit(o, new)
    BY <1>1, <1>2, <2>1, <2>2, <2>3, ClaimedIds DEF CopiesFit
  <2> QED BY <1>2, <2>1, <2>4
<1>5. CASE Passes(s, i, o, new)
  <2>1. PICK v : v = op[s].view[i] /\ o = Taken(op[s], i, v) /\ v \in Row
    BY <1>1, <1>5 DEF Passes
  <2>2. new = Sees(s) /\ op[s].call \in {"process", "failing"} /\ i \in op[s].todo
    BY <1>5 DEF Passes, Rests, First
  <2>3. CopyOf(v, new.rows[i]) /\ Grows(Sees(s), new)
    BY <1>3, <2>1, <2>2, GrowsAlong
  <2>4. CopiesFit(o, new)
    BY <1>1, <1>2, <2>1, <2>2, <2>3, TakenCopies
  <2> QED BY <1>2, <2>2, <2>4
<1>6. CASE FailsToPost(s, i, o, new)
  <2>1. /\ o.view = [op[s].view EXCEPT ![i] = db.rows[i]] /\ Claimed(o) = Claimed(op[s])
        /\ new = Sees(s) /\ new = db /\ i \in op[s].todo
    BY <1>1, <1>6 DEF FailsToPost, Failing, Op, Claimed, First
  <2>2. CopyOf(Sees(s).rows[i], Sees(s).rows[i])
    BY <1>2, <1>3, <2>1 DEF CopyOf, GoodRow
  <2>3. \A k \in Ids : o.view[k] = IF k = i THEN Sees(s).rows[i] ELSE op[s].view[k]
    BY <1>1, <2>1 DEF Op
  <2>4. CopiesFit(o, new)
    BY <1>1, <1>2, <2>1, <2>2, <2>3, ClaimedIds DEF CopiesFit
  <2> QED BY <1>2, <2>1, <2>4
<1>7. ASSUME NEW st, NEW row, NEW v, Edits(s, i, st, row, v, o, new)
      PROVE  GoodDb(new) /\ Grows(db, new) /\ CopiesFit(o, new)
  <2>1. /\ op[s].call \in {"process", "failing"} /\ i \in op[s].todo
        /\ Edited(st, Sees(s).rows[i], op[s].view[i], row, v) /\ row \in Row /\ v \in Row
        /\ st = "POSTED" => PostedBefore(op[s].view[i], Sees(s).journals)
        /\ o = Taken(op[s], i, v) /\ new = SetRow(Sees(s), i, row)
    BY <1>7 DEF Edits, First, Edited
  <2>2. CopyOf(op[s].view[i], Sees(s).rows[i])
    BY <1>3, <2>1
  <2>3. GoodRow(row, i, Sees(s).journals) /\ Follows(Sees(s).rows[i], row) /\ CopyOf(v, row)
    BY <1>1, <1>2, <2>1, <2>2, GoodEdit
  <2>4. GoodDb(new) /\ Grows(Sees(s), new)
    BY <1>1, <1>2, <2>1, <2>3, GoodRowChange
  <2>5. new.rows[i] = row
    BY <1>1, <2>1 DEF SetRow, Database
  <2>6. CopiesFit(o, new)
    BY <1>1, <1>2, <2>1, <2>3, <2>4, <2>5, TakenCopies
  <2> QED BY <1>2, <2>4, <2>6, GrowsAlong
<1>8. ASSUME NEW row, NEW v, Journals(s, i, row, v, o, new)
      PROVE  GoodDb(new) /\ Grows(db, new) /\ CopiesFit(o, new)
  <2>1. /\ op[s].call \in {"process", "failing"} /\ i \in op[s].todo /\ row \in Row /\ v \in Row
        /\ o = Taken(op[s], i, v) /\ new = WithJournal(Sees(s), i, row)
        /\ row.txn = Cardinality(Sees(s).journals) + 1 /\ row.txn \in 1..MaxJournals
        /\ row.status = "POSTED" /\ row.payload = Normalised(op[s].view[i].payload)
        /\ row.ref = Sees(s).rows[i].ref /\ row.given = Sees(s).rows[i].given
        /\ v.txn = row.txn /\ v.given = op[s].view[i].given /\ v.payload = row.payload
    BY <1>8 DEF Journals, First
  <2>2. CopyOf(op[s].view[i], Sees(s).rows[i])
    BY <1>3, <2>1
  <2>3. row.payload = Normalised(row.given) /\ v.given = row.given
    <3>1. op[s].view[i].given = row.given /\ row.given \in AnyPayload
      BY <2>1, <2>2 DEF CopyOf, Row
    <3>2. op[s].view[i].payload \in {row.given, Normalised(row.given)}
      BY <2>2, <3>1 DEF CopyOf
    <3>3. Normalised(op[s].view[i].payload) = Normalised(row.given)
      BY <3>1, <3>2, NormalisedTwice
    <3> QED BY <2>1, <3>1, <3>3
  <2>4. row.txn # NoTxn
    BY <2>1, MaxJournalsAssumption DEF NoTxn
  <2>5. Follows(Sees(s).rows[i], row) /\ CopyOf(v, row)
    BY <2>1, <2>3, <2>4 DEF Follows, CopyOf
  <2>6. GoodDb(new) /\ Grows(Sees(s), new)
    BY <1>1, <1>2, <2>1, <2>3, <2>5, GoodPosting
  <2>7. new.rows[i] = row
    BY <1>1, <2>1 DEF WithJournal, Database
  <2>8. CopiesFit(o, new)
    BY <1>1, <1>2, <2>1, <2>5, <2>6, <2>7, TakenCopies
  <2> QED BY <1>2, <2>6, <2>8, GrowsAlong
<1> QED BY <1>4, <1>5, <1>6, <1>7, <1>8 DEF ItemStep

LEMMA IdleSees ==
  ASSUME Control, NEW s \in Sessions, ~MayWrite(op[s]) PROVE Sees(s) = db
  BY DEF Control, Sees

LEMMA LookUpData ==
  ASSUME TypeOK, Control, Data, NEW s \in Sessions, NEW i, NEW o, NEW new, LooksUp(s, i, o, new)
  PROVE  CopiesFit(o, new)
<1>1. /\ Sees(s) \in Database /\ Sees(s).rows \in [Ids -> Row] /\ op[s] \in Op
      /\ CopiesFit(op[s], Sees(s)) /\ GoodDb(Sees(s)) /\ new = Sees(s)
  BY SeesType DEF TypeOK, Database, Data, LooksUp
<1>2. i = NoRow \/ i \in Present(Sees(s).rows)
  BY <1>1, FoundRow DEF LooksUp
<1>3. o = FoundIn(op[s], i, Sees(s).rows)
  BY DEF LooksUp
<1>4. o.todo = op[s].todo /\ o.done = op[s].done /\ o.found = i
  BY <1>1, <1>3 DEF FoundIn, Op
<1>5. o.view = IF i = NoRow \/ i \in op[s].done THEN op[s].view
               ELSE [op[s].view EXCEPT ![i] = Sees(s).rows[i]]
  BY <1>1, <1>3 DEF FoundIn, Op
<1>6. Claimed(o) = op[s].todo \cup op[s].done \cup ({i} \cap Ids)
  BY <1>4 DEF Claimed
<1>7. \A k \in op[s].todo \cup op[s].done : k \in Ids /\ CopyOf(op[s].view[k], Sees(s).rows[k])
  BY <1>1 DEF CopiesFit, Claimed, Op
<1>8. CASE i = NoRow \/ i \in op[s].done
  BY <1>1, <1>5, <1>6, <1>7, <1>8, IdsNumbers DEF CopiesFit
<1>9. CASE ~(i = NoRow \/ i \in op[s].done)
  <2>1. i \in Ids /\ Sees(s).rows[i].status # "ABSENT"
    BY <1>2, <1>9 DEF Present
  <2>2. CopyOf(Sees(s).rows[i], Sees(s).rows[i])
    BY <1>1, <2>1 DEF CopyOf, GoodDb, GoodRow
  <2>3. \A k \in Ids : o.view[k] = IF k = i THEN Sees(s).rows[i] ELSE op[s].view[k]
    BY <1>1, <1>5, <1>9 DEF Op
  <2> QED BY <1>1, <1>6, <1>7, <2>1, <2>2, <2>3 DEF CopiesFit
<1> QED BY <1>8, <1>9

LEMMA StepData ==
  ASSUME TypeOK, Control, Data, NEW s \in Sessions, NEW o, NEW new, StepOf(s, o, new)
  PROVE  GoodDb(new) /\ Grows(db, new) /\ CopiesFit(o, new)
<1>1. /\ op[s] \in Op /\ db \in Database /\ GoodDb(db)
      /\ GoodDb(Sees(s)) /\ Grows(db, Sees(s)) /\ CopiesFit(op[s], Sees(s))
  BY DEF TypeOK, Data
<1>2. ASSUME NEW batch, NEW auto, BeginsIngest(s, batch, auto, o, new)
      PROVE  new = Sees(s) /\ CopiesFit(o, new)
  <2>1. o.todo = {} /\ o.done = {} /\ o.found = Unread
    BY <1>2 DEF BeginsIngest, Ingesting, Idle
  <2>2. Claimed(o) = {}
    BY <2>1, IdsNumbers DEF Claimed
  <2> QED BY <1>2, <2>2 DEF BeginsIngest, CopiesFit
<1>3. ASSUME NEW ids, NEW auto, BeginsProcess(s, ids, auto, o, new)
      PROVE  new = Sees(s) /\ CopiesFit(o, new)
  <2>1. op[s] = Idle /\ new = Sees(s) /\ ids \subseteq Present(db.rows)
    BY <1>3 DEF BeginsProcess
  <2>2. Sees(s) = db
    BY <2>1, IdleFits, IdleSees
  <2>3. /\ o.todo = ids /\ o.done = {} /\ o.found = Unread
        /\ o.view = [i \in Ids |-> IF i \in ids THEN db.rows[i] ELSE NoRowYet]
    BY <1>3 DEF BeginsProcess, Processing, Idle
  <2>4. Claimed(o) = ids
    BY <2>3, IdsNumbers DEF Claimed
  <2>5. \A i \in ids : i \in Ids /\ o.view[i] = db.rows[i] /\ db.rows[i].status # "ABSENT"
    BY <2>1, <2>3 DEF Present
  <2>6. \A i \in ids : CopyOf(db.rows[i], db.rows[i])
    BY <1>1, <2>5 DEF CopyOf, GoodDb, GoodRow
  <2> QED BY <2>1, <2>2, <2>4, <2>5, <2>6 DEF CopiesFit
<1>4. ASSUME NEW i, LooksUp(s, i, o, new) PROVE new = Sees(s) /\ CopiesFit(o, new)
  BY <1>4, LookUpData DEF LooksUp
<1>5. CASE Reuses(s, o, new)
  <2>1. /\ new = Sees(s) /\ o.todo = op[s].todo /\ o.done = op[s].done \cup {op[s].found}
        /\ o.found = Unread /\ o.view = op[s].view /\ op[s].found \in Ids
    BY <1>1, <1>5 DEF Reuses, Reused, Rests, Op
  <2>2. Claimed(o) = Claimed(op[s])
    BY <2>1, IdsNumbers DEF Claimed
  <2> QED BY <1>1, <2>1, <2>2 DEF CopiesFit
<1>6. CASE Proceeds(s, o, new)
  <2>1. /\ new = Sees(s) /\ o.todo = op[s].done /\ o.done = op[s].done
        /\ o.found = op[s].found /\ o.view = op[s].view
    BY <1>1, <1>6 DEF Proceeds, ToProcess, Rests, Op
  <2>2. Claimed(o) \subseteq Claimed(op[s])
    BY <2>1 DEF Claimed
  <2> QED BY <1>1, <2>1, <2>2 DEF CopiesFit
<1>7. CASE Leaves(s, o, new) \/ Completes(s, o, new)
  <2>1. new \in {db, Sees(s)} /\ o = Idle
    BY <1>7 DEF Leaves, Completes
  <2> QED BY <1>1, <2>1, IdleCopies, GrowsAlong
<1>8. ASSUME NEW i \in Ids, Stages(s, i, o, new) \/ ItemStep(s, i, o, new)
      PROVE  GoodDb(new) /\ Grows(db, new) /\ CopiesFit(o, new)
  BY <1>8, StageData, ItemData
<1>9. CASE new = Sees(s) /\ CopiesFit(o, new)
  BY <1>1, <1>9
<1> QED BY <1>2, <1>3, <1>4, <1>5, <1>6, <1>7, <1>8, <1>9 DEF StepOf, Reuses, Proceeds, Rests

LEMMA NextData == ASSUME TypeOK, Control, Data, Next PROVE Data'
<1>1. CASE Elsewhere
  BY <1>1 DEF Data, Elsewhere, NoWrite, Sees
<1>2. ASSUME NEW s \in Sessions, NEW o, NEW new, StepOf(s, o, new) PROVE Data'
  BY <1>2, StepData, StepTurns, KeepData
<1> QED BY <1>1, <1>2, NextShape

LEMMA InitData == Init => Data
<1> SUFFICES ASSUME Init PROVE Data
  OBVIOUS
<1>1. db = Empty /\ \A s \in Sessions : Sees(s) = Empty /\ op[s] = Idle
  BY DEF Init, Sees
<1>2. \A i \in Ids : Empty.rows[i] = NoRowYet
  BY DEF Empty, NothingRead
<1>3. GoodDb(Empty)
  BY <1>2 DEF GoodDb, GoodRow, Empty, NoRowYet
<1> QED BY <1>1, <1>3, GrowsAlong, IdleCopies DEF Data

LEMMA DataHolds == Spec => [](TypeOK /\ Control /\ Data)
<1>1. Init => TypeOK /\ Control /\ Data
  BY InitType, InitControl, InitData
<1>2. TypeOK /\ Control /\ Data /\ [Next]_vars => (TypeOK /\ Control /\ Data)'
  <2>1. Data /\ UNCHANGED vars => Data'
    BY DEF vars, Data, Sees
  <2> QED BY <2>1, NextType, NextControl, NextData, StutterControl
<1> QED BY <1>1, <1>2, PTL DEF Spec

\* A row marked POSTED names a journal of its own.
LEMMA JournalsPresent == Data => PostedHasJournal
<1> SUFFICES ASSUME Data, NEW i \in Ids, db.rows[i].status = "POSTED"
             PROVE  \E j \in JournalsOf(i) : j.id = db.rows[i].txn
  BY DEF PostedHasJournal
<1>1. GoodRow(db.rows[i], i, db.journals)
  BY DEF Data, GoodDb
<1> QED BY <1>1 DEF GoodRow, JournalsOf

-----------------------------------------------------------------------------
(* Refused repeats.                                                        *)

LEMMA ConflictStep == ASSUME TypeOK, Control, Data, ConflictExplained, Next PROVE ConflictExplained'
<1>1. CASE Elsewhere
  BY <1>1 DEF Elsewhere, ConflictExplained
<1>2. ASSUME NEW s \in Sessions, NEW o, NEW new, StepOf(s, o, new) PROVE ConflictExplained'
  <2>1. CASE refused' = refused
    BY <2>1 DEF ConflictExplained
  <2>2. CASE Refuses(s)
    <3> DEFINE read == op[s].view[op[s].found]
    <3> DEFINE sent == Head(op[s].batch).payload
    <3>1. op[s] \in Op /\ op[s].found \in Ids /\ read.payload # sent
          /\ refused' = refused \cup {<<read.given, sent>>}
      BY <2>2 DEF Refuses, TypeOK
    <3>2. read \in Row /\ read.given \in AnyPayload
      BY <3>1 DEF Op, Row
    <3>3. read.payload \in {read.given, Normalised(read.given)}
      BY <3>1 DEF Data, CopiesFit, CopyOf, Claimed
    <3>4. read.given.currency # "omitted" => Normalised(read.given) = read.given
      BY <3>2 DEF AnyPayload, Normalised
    <3>5. read.given # sent \/ read.given.currency = "omitted"
      BY <3>1, <3>3, <3>4
    <3> QED BY <3>1, <3>5 DEF ConflictExplained
  <2> QED BY <1>2, <2>1, <2>2, StepTurns
<1> QED BY <1>1, <1>2, NextShape

LEMMA ConflictHolds == Spec => []ConflictExplained
<1>1. Init => ConflictExplained
  BY DEF Init, ConflictExplained
<1>2. TypeOK /\ Control /\ Data /\ ConflictExplained /\ [Next]_vars => ConflictExplained'
  <2>1. ConflictExplained /\ UNCHANGED vars => ConflictExplained'
    BY DEF vars, ConflictExplained
  <2> QED BY <2>1, ConflictStep
<1> QED BY <1>1, <1>2, DataHolds, PTL DEF Spec

-----------------------------------------------------------------------------
(* Rows nobody contends for.                                               *)

HeldBy(o) == o.todo \cup (IF o.commit THEN {} ELSE o.done \cup ({o.found} \cap Ids))

\* Every journal of a row that is not contended is the one the row names.
OneJournal(d, shared) ==
  \A i \in Ids \ shared : \A j \in d.journals : j.row = i => d.rows[i].txn = j.id

\* The copy of a held row shows its journal.
FreshCopies(o, d, shared) ==
  \A i \in HeldBy(o) \ (shared \cup o.expired) : o.view[i].txn = d.rows[i].txn

\* Rows posted in a draft and not committed are held.
PostedIn(d, e, held) == \A i \in Ids \ held : e.rows[i].txn = d.rows[i].txn

Apart == \A s, t \in Sessions : s # t => HeldBy(op[s]) \cap HeldBy(op[t]) \subseteq contended

Single ==
  /\ OneJournal(db, contended) /\ Apart
  /\ \A s \in Sessions : /\ OneJournal(Sees(s), contended)
                         /\ FreshCopies(op[s], Sees(s), contended)
                         /\ PostedIn(db, Sees(s), HeldBy(op[s]))

LEMMA HeldIsHeldBy == \A s \in Sessions : Held(s) = HeldBy(op[s])
  BY DEF Held, HeldBy

LEMMA HeldClaimed ==
  ASSUME NEW o \in Op PROVE HeldBy(o) \subseteq Claimed(o) /\ HeldBy(o) \subseteq Ids
  BY DEF HeldBy, Claimed, Op

LEMMA KeepSingle ==
  ASSUME TypeOK, Single, NEW s \in Sessions, NEW o, NEW new, Turn(s, o, new),
         contended \subseteq contended', OneJournal(new, contended'),
         FreshCopies(o, new, contended'), PostedIn(db, new, HeldBy(op[s])),
         db' = db => PostedIn(db, new, HeldBy(o)),
         \A t \in Sessions \ {s} : HeldBy(o) \cap HeldBy(op[t]) \subseteq contended'
  PROVE  Single'
<1>1. op'[s] = o /\ \A t \in Sessions \ {s} : op'[t] = op[t] /\ op[t] \in Op
  BY NowOp DEF Turn, TypeOK
<1>2. Sees(s)' = new /\ (db' = db \/ db' = new)
  BY DEF Turn, Moves
<1>3. \A d : OneJournal(d, contended) => OneJournal(d, contended')
  BY DEF OneJournal
<1>4. OneJournal(db', contended')
  BY <1>2, <1>3 DEF Single
<1>5. Apart'
  <2>1. ASSUME NEW t \in Sessions, NEW r \in Sessions, t # r
        PROVE  HeldBy(op'[t]) \cap HeldBy(op'[r]) \subseteq contended'
    <3>1. CASE t = s
      BY <1>1, <2>1, <3>1
    <3>2. CASE r = s
      BY <1>1, <2>1, <3>2
    <3>3. CASE t # s /\ r # s
      BY <1>1, <2>1, <3>3 DEF Single, Apart
    <3> QED BY <3>1, <3>2, <3>3
  <2> QED BY <2>1 DEF Apart
<1>6. ASSUME NEW t \in Sessions
      PROVE  /\ OneJournal(Sees(t)', contended')
             /\ FreshCopies(op'[t], Sees(t)', contended')
             /\ PostedIn(db', Sees(t)', HeldBy(op'[t]))
  <2>1. CASE t = s
    <3>1. PostedIn(db', new, HeldBy(o))
      BY <1>2 DEF PostedIn
    <3> QED BY <1>1, <1>2, <2>1, <3>1
  <2>2. CASE t # s
    <3>1. op'[t] = op[t] /\ op[t] \in Op
      BY <1>1, <2>2
    <3>2. CASE db' = db /\ Sees(t)' = Sees(t)
      <4>1. FreshCopies(op[t], Sees(t), contended')
        BY DEF Single, FreshCopies
      <4> QED BY <1>3, <3>1, <3>2, <4>1 DEF Single
    <3>3. CASE Sees(t) = db /\ Sees(t)' = db'
      <4>1. PostedIn(db', Sees(t)', HeldBy(op'[t]))
        BY <3>3 DEF PostedIn
      <4>2. ASSUME NEW i \in HeldBy(op[t]) \ (contended' \cup op[t].expired)
            PROVE  op[t].view[i].txn = db'.rows[i].txn
        <5>1. op[t].view[i].txn = db.rows[i].txn
          BY <3>3 DEF Single, FreshCopies
        <5>2. i \notin HeldBy(op[s]) /\ i \in Ids
          BY <2>2, <3>1, HeldClaimed DEF Single, Apart
        <5>3. new.rows[i].txn = db.rows[i].txn
          BY <5>2 DEF PostedIn
        <5> QED BY <1>2, <5>1, <5>3
      <4>3. FreshCopies(op[t], db', contended')
        BY <4>2 DEF FreshCopies
      <4> QED BY <1>4, <3>1, <3>3, <4>1, <4>3
    <3> QED BY <2>2, <3>2, <3>3 DEF Turn, Moves
  <2> QED BY <2>1, <2>2
<1> QED BY <1>4, <1>5, <1>6 DEF Single

\* A call that keeps no draft sees what is committed.
LEMMA CommittedView ==
  ASSUME TypeOK, Control', NEW s \in Sessions, NEW o, NEW new, Turn(s, o, new), ~MayWrite(o)
  PROVE  new = db'
<1>1. op'[s] = o /\ Sees(s)' = new
  BY NowOp DEF Turn, Moves
<1>2. writer' # s
  BY <1>1 DEF Control
<1> QED BY <1>1, <1>2 DEF Sees

LEMMA TakenHeld ==
  ASSUME NEW o \in Op, OpFits(o), o.call \in {"process", "failing"}, NEW i \in Ids, i \in o.todo, NEW v \in Row
  PROVE  /\ HeldBy(Taken(o, i, v)) \subseteq HeldBy(o)
         /\ ~o.commit => HeldBy(Taken(o, i, v)) = HeldBy(o)
         /\ o.commit => ~MayWrite(Taken(o, i, v))
         /\ \A k \in Ids : Taken(o, i, v).view[k] = IF k = i THEN v ELSE o.view[k]
         /\ Taken(o, i, v).expired = o.expired
<1> DEFINE q == Taken(o, i, v)
<1>1. /\ q.commit = o.commit /\ q.call = "process" /\ q.done = o.done /\ q.found = o.found
      /\ q.expired = o.expired /\ q.todo = o.todo \ {i} /\ q.view = [o.view EXCEPT ![i] = v]
  BY DEF Taken, Op
<1>2. ~o.commit => o.todo \subseteq o.done
  BY DEF OpFits
<1>3. o.view \in [Ids -> Row]
  BY DEF Op
<1> HIDE DEF q
<1>4. HeldBy(q) \subseteq HeldBy(o) /\ (~o.commit => HeldBy(q) = HeldBy(o))
  BY <1>1, <1>2 DEF HeldBy
<1>5. o.commit => ~MayWrite(q)
  BY <1>1 DEF MayWrite
<1>6. \A k \in Ids : q.view[k] = IF k = i THEN v ELSE o.view[k]
  BY <1>1, <1>3
<1> QED BY <1>1, <1>4, <1>5, <1>6 DEF q

\* What KeepSingle asks of a step.
KeepsSingle(s, o, new) ==
  /\ OneJournal(new, contended') /\ FreshCopies(o, new, contended')
  /\ PostedIn(db, new, HeldBy(op[s]))
  /\ db' = db => PostedIn(db, new, HeldBy(o))
  /\ \A t \in Sessions \ {s} : HeldBy(o) \cap HeldBy(op[t]) \subseteq contended'

\* A step that posts nothing, with copies that stay as fresh, holding no more rows.
LEMMA NothingPosted ==
  ASSUME TypeOK, Control', Single, NEW s \in Sessions, NEW o \in Op, NEW new, Turn(s, o, new),
         contended \subseteq contended',
         new.journals = Sees(s).journals,
         \A k \in Ids : new.rows[k].txn = Sees(s).rows[k].txn,
         \A k \in HeldBy(o) : \/ k \in o.expired
                              \/ o.view[k].txn = new.rows[k].txn
                              \/ /\ k \in HeldBy(op[s]) \ op[s].expired
                                 /\ o.view[k].txn = op[s].view[k].txn,
         \A t \in Sessions \ {s} : HeldBy(o) \cap HeldBy(op[t]) \subseteq contended',
         MayWrite(o) => HeldBy(op[s]) \subseteq HeldBy(o)
  PROVE  KeepsSingle(s, o, new)
<1>1. OneJournal(Sees(s), contended) /\ FreshCopies(op[s], Sees(s), contended)
      /\ PostedIn(db, Sees(s), HeldBy(op[s]))
  BY DEF Single
<1>2. OneJournal(new, contended')
  BY <1>1 DEF OneJournal
<1>3. PostedIn(db, new, HeldBy(op[s]))
  BY <1>1 DEF PostedIn
<1>4. ASSUME NEW k \in HeldBy(o) \ (contended' \cup o.expired)
      PROVE  o.view[k].txn = new.rows[k].txn
  <2>1. k \in Ids
    BY HeldClaimed
  <2>2. CASE k \in HeldBy(op[s]) \ op[s].expired
    <3>1. op[s].view[k].txn = Sees(s).rows[k].txn
      BY <1>1, <2>2 DEF FreshCopies
    <3> QED BY <2>1, <2>2, <3>1
  <2>3. CASE k \notin HeldBy(op[s]) \ op[s].expired
    BY <2>3
  <2> QED BY <2>2, <2>3
<1>5. FreshCopies(o, new, contended')
  BY <1>4 DEF FreshCopies
<1>6. ASSUME db' = db PROVE PostedIn(db, new, HeldBy(o))
  <2>1. CASE MayWrite(o)
    BY <1>3, <2>1 DEF PostedIn
  <2>2. CASE ~MayWrite(o)
    <3>1. new = db
      BY <1>6, <2>2, CommittedView
    <3> QED BY <3>1 DEF PostedIn
  <2> QED BY <2>1, <2>2
<1> QED BY <1>2, <1>3, <1>5, <1>6 DEF KeepsSingle

\* Rows one call alone holds stay its own.
LEMMA StillApart ==
  ASSUME Single, NEW s \in Sessions, NEW o, HeldBy(o) \subseteq HeldBy(op[s]), contended \subseteq contended'
  PROVE  \A t \in Sessions \ {s} : HeldBy(o) \cap HeldBy(op[t]) \subseteq contended'
  BY DEF Single, Apart

LEMMA BeginSingle ==
  ASSUME TypeOK, Control, Control', Single, NEW s \in Sessions, NEW o, NEW new,
         \/ \E batch, auto : BeginsIngest(s, batch, auto, o, new)
         \/ \E ids, auto : BeginsProcess(s, ids, auto, o, new)
  PROVE  KeepsSingle(s, o, new)
<1>1. ASSUME NEW batch, NEW auto, BeginsIngest(s, batch, auto, o, new) PROVE KeepsSingle(s, o, new)
  <2>1. o.todo = {} /\ o.done = {} /\ o.found = Unread /\ new = Sees(s)
        /\ Turn(s, o, new) /\ o \in Op /\ contended' = contended
    BY <1>1 DEF BeginsIngest, Ingesting, Idle, Same, Turn
  <2>2. HeldBy(o) = {} /\ HeldBy(op[s]) = {}
    BY <1>1, <2>1, IdsNumbers DEF HeldBy, BeginsIngest, Idle
  <2> QED BY <2>1, <2>2, NothingPosted
<1>2. ASSUME NEW ids, NEW auto, BeginsProcess(s, ids, auto, o, new) PROVE KeepsSingle(s, o, new)
  <2>1. /\ new = Sees(s) /\ Turn(s, o, new) /\ o \in Op /\ Contend(s, ids) /\ ids \subseteq Ids
        /\ op[s] = Idle
    BY <1>2 DEF BeginsProcess, Turn, Present
  <2>2. /\ o.todo = ids /\ o.commit /\ o.call = "process"
        /\ o.view = [i \in Ids |-> IF i \in ids THEN db.rows[i] ELSE NoRowYet]
    BY <1>2 DEF BeginsProcess, Processing, Idle
  <2>3. new = db
    BY <2>1, IdleFits, IdleSees
  <2>4. HeldBy(o) = ids /\ ~MayWrite(o)
    BY <2>2 DEF HeldBy, MayWrite
  <2>5. contended \subseteq contended'
        /\ \A t \in Sessions \ {s} : HeldBy(o) \cap HeldBy(op[t]) \subseteq contended'
    BY <2>1, <2>4, HeldIsHeldBy DEF Contend
  <2>6. \A k \in HeldBy(o) : o.view[k].txn = new.rows[k].txn
    BY <2>1, <2>2, <2>3, <2>4
  <2> QED BY <2>1, <2>4, <2>5, <2>6, NothingPosted
<1> QED BY <1>1, <1>2

LEMMA LookUpSingle ==
  ASSUME TypeOK, Control, Control', Single, NEW s \in Sessions, NEW i, NEW o, NEW new, LooksUp(s, i, o, new)
  PROVE  KeepsSingle(s, o, new)
<1>1. /\ op[s] \in Op /\ OpFits(op[s]) /\ op[s].call = "ingest" /\ op[s].found = Unread
      /\ new = Sees(s) /\ Turn(s, o, new) /\ o \in Op
      /\ o = FoundIn(op[s], i, Sees(s).rows) /\ i \in Ids \cup {NoRow}
      /\ i \in Ids /\ op[s].auto => Contend(s, {i})
      /\ i = NoRow \/ ~op[s].auto => contended' = contended
  BY DEF LooksUp, Turn, TypeOK, Control
<1>2. /\ o.todo = {} /\ o.done = op[s].done /\ o.found = i /\ o.commit = op[s].commit
      /\ o.expired = op[s].expired /\ op[s].expired = {} /\ op[s].todo = {}
      /\ (op[s].commit <=> ~op[s].auto)
  BY <1>1 DEF FoundIn, Op, OpFits
<1>3. o.view = IF i = NoRow \/ i \in op[s].done THEN op[s].view
               ELSE [op[s].view EXCEPT ![i] = Sees(s).rows[i]]
  BY <1>1 DEF FoundIn, Op
<1>4. contended \subseteq contended'
  BY <1>1 DEF Contend
<1>5. CASE op[s].commit
  <2>1. HeldBy(o) = {} /\ HeldBy(op[s]) = {}
    BY <1>2, <1>5 DEF HeldBy
  <2> QED BY <1>1, <1>4, <2>1, NothingPosted
<1>6. CASE ~op[s].commit
  <2>1. HeldBy(op[s]) = op[s].done /\ HeldBy(o) = op[s].done \cup ({i} \cap Ids)
    BY <1>1, <1>2, <1>6, IdsNumbers DEF HeldBy
  <2>2. ASSUME NEW k \in HeldBy(o)
        PROVE  \/ o.view[k].txn = new.rows[k].txn
               \/ k \in HeldBy(op[s]) \ op[s].expired /\ o.view[k].txn = op[s].view[k].txn
    <3>1. k \in Ids /\ op[s].view \in [Ids -> Row]
      BY <1>1, HeldClaimed DEF Op
    <3>2. CASE k \in op[s].done
      BY <1>2, <1>3, <2>1, <3>1, <3>2
    <3>3. CASE k \notin op[s].done
      BY <1>1, <1>3, <2>1, <3>1, <3>3, IdsNumbers
    <3> QED BY <3>2, <3>3
  <2>3. ASSUME NEW t \in Sessions \ {s} PROVE HeldBy(o) \cap HeldBy(op[t]) \subseteq contended'
    <3>1. HeldBy(op[s]) \cap HeldBy(op[t]) \subseteq contended
      BY DEF Single, Apart
    <3>2. i \in Ids /\ i \in HeldBy(op[t]) => i \in contended'
      BY <1>1, <1>2, <1>6, HeldIsHeldBy DEF Contend
    <3> QED BY <1>4, <2>1, <3>1, <3>2
  <2> QED BY <1>1, <1>4, <2>1, <2>2, <2>3, NothingPosted
<1> QED BY <1>5, <1>6

LEMMA StageSingle ==
  ASSUME TypeOK, Control, Control', Data, Single, NEW s \in Sessions, NEW i \in Ids, NEW o, NEW new,
         Stages(s, i, o, new)
  PROVE  KeepsSingle(s, o, new)
<1>1. PICK row : row = StagedRow(Head(op[s].batch)) /\ row \in Row
                 /\ o = StagedTo(op[s], i, row) /\ new = SetRow(Sees(s), i, row)
  BY DEF Stages
<1>2. /\ Sees(s) \in Database /\ op[s] \in Op /\ OpFits(op[s]) /\ op[s].call = "ingest"
      /\ op[s].found = NoRow /\ Turn(s, o, new) /\ o \in Op /\ contended' = contended
  BY SeesType DEF TypeOK, Stages, Turn, Same, Control
<1>3. Sees(s).rows[i].status = "ABSENT" /\ Sees(s).rows[i].txn = NoTxn
  BY DEF Stages, Present, Data, GoodDb, GoodRow
<1>4. row.txn = NoTxn
  BY <1>1 DEF StagedRow
<1>5. /\ new.journals = Sees(s).journals /\ new.rows[i] = row
      /\ \A k \in Ids : new.rows[k].txn = Sees(s).rows[k].txn
  BY <1>1, <1>2, <1>3, <1>4 DEF SetRow, Database
<1>6. /\ o.todo = {} /\ op[s].todo = {} /\ o.done = op[s].done \cup {i} /\ o.found = Unread
      /\ o.commit = op[s].commit /\ op[s].expired = {}
      /\ \A k \in Ids : o.view[k] = IF k = i THEN row ELSE op[s].view[k]
  BY <1>1, <1>2 DEF StagedTo, Op, OpFits
<1>7. HeldBy(op[s]) \subseteq HeldBy(o) /\ HeldBy(o) \subseteq HeldBy(op[s]) \cup {i}
  BY <1>2, <1>6, IdsNumbers DEF HeldBy
<1>8. ASSUME NEW k \in HeldBy(o)
      PROVE  \/ o.view[k].txn = new.rows[k].txn
             \/ k \in HeldBy(op[s]) \ op[s].expired /\ o.view[k].txn = op[s].view[k].txn
  <2>1. k \in Ids
    BY <1>2, HeldClaimed
  <2> QED BY <1>5, <1>6, <1>7, <2>1
<1>9. ASSUME NEW t \in Sessions \ {s} PROVE HeldBy(o) \cap HeldBy(op[t]) \subseteq contended'
  <2>1. Sees(t) = db
    BY NoSessionAssumption DEF Stages, Flush, CanWrite, Sees
  <2>2. db.rows[i].status = "ABSENT"
    BY <1>3 DEF Data, Grows, Follows
  <2>3. i \notin HeldBy(op[t])
    BY <2>1, <2>2, HeldClaimed DEF Data, CopiesFit, CopyOf, TypeOK
  <2>4. HeldBy(op[s]) \cap HeldBy(op[t]) \subseteq contended
    BY DEF Single, Apart
  <2> QED BY <1>2, <1>7, <2>3, <2>4
<1> QED BY <1>2, <1>5, <1>7, <1>8, <1>9, NothingPosted

LEMMA RestSingle ==
  ASSUME TypeOK, Control, Control', Single, NEW s \in Sessions, NEW o, NEW new,
         Reuses(s, o, new) \/ Proceeds(s, o, new) \/ Leaves(s, o, new) \/ Completes(s, o, new)
  PROVE  KeepsSingle(s, o, new)
<1>1. op[s] \in Op /\ OpFits(op[s])
  BY DEF TypeOK, Control
<1>2. CASE Reuses(s, o, new) \/ Proceeds(s, o, new)
  <2>1. /\ new = Sees(s) /\ Turn(s, o, new) /\ o \in Op /\ contended' = contended
    BY <1>2 DEF Reuses, Proceeds, Rests, Turn, Same
  <2>2. /\ HeldBy(o) = HeldBy(op[s]) /\ o.view = op[s].view /\ op[s].expired = {}
    <3>1. CASE Reuses(s, o, new)
      <4>1. /\ o.todo = {} /\ op[s].todo = {} /\ o.done = op[s].done \cup {op[s].found}
            /\ o.found = Unread /\ op[s].found \in Ids /\ o.commit = op[s].commit
            /\ o.view = op[s].view /\ op[s].expired = {}
        BY <1>1, <3>1 DEF Reuses, Reused, Op, OpFits
      <4> QED BY <4>1, IdsNumbers DEF HeldBy
    <3>2. CASE Proceeds(s, o, new)
      <4>1. /\ op[s].todo = {} /\ o.todo = op[s].done /\ o.done = op[s].done
            /\ o.found = op[s].found /\ op[s].found = Unread /\ o.commit = op[s].commit
            /\ o.view = op[s].view /\ op[s].expired = {} /\ ~op[s].commit
        BY <1>1, <3>2 DEF Proceeds, ToProcess, Op, OpFits
      <4> QED BY <4>1, IdsNumbers DEF HeldBy
    <3> QED BY <1>2, <3>1, <3>2
  <2>3. \A t \in Sessions \ {s} : HeldBy(o) \cap HeldBy(op[t]) \subseteq contended'
    BY <2>1, <2>2, StillApart
  <2> QED BY <2>1, <2>2, <2>3, NothingPosted
<1>3. CASE Leaves(s, o, new)
  <2>1. o = Idle /\ new = db /\ contended' = contended
    BY <1>3 DEF Leaves
  <2>2. HeldBy(o) = {}
    BY <2>1 DEF HeldBy, Idle
  <2> QED BY <2>1, <2>2 DEF KeepsSingle, Single, FreshCopies, PostedIn
<1>4. CASE Completes(s, o, new)
  <2>1. o = Idle /\ new = Sees(s) /\ Turn(s, o, new) /\ o \in Op /\ contended' = contended
    BY <1>4 DEF Completes, Same, Turn
  <2>2. HeldBy(o) = {} /\ ~MayWrite(o)
    BY <2>1, IdleFits DEF HeldBy, Idle
  <2> QED BY <2>1, <2>2, NothingPosted
<1> QED BY <1>2, <1>3, <1>4

LEMMA PostingSingle ==
  ASSUME TypeOK, Control, Control', Data, Single, NEW s \in Sessions, NEW i \in Ids, NEW o, NEW new,
         NEW row, NEW v, Journals(s, i, row, v, o, new)
  PROVE  KeepsSingle(s, o, new)
<1>1. /\ op[s].call \in {"process", "failing"} /\ i \in op[s].todo /\ i \notin op[s].expired
      /\ row \in Row /\ v \in Row /\ row.txn \in 1..MaxJournals /\ v.txn = row.txn
      /\ o = Taken(op[s], i, v) /\ new = WithJournal(Sees(s), i, row)
      /\ ~PostedBefore(op[s].view[i], Sees(s).journals)
      /\ Turn(s, o, new) /\ o \in Op /\ contended' = contended
  BY DEF Journals, First, Turn, Same
<1>2. op[s] \in Op /\ OpFits(op[s]) /\ Sees(s) \in Database
  BY SeesType DEF TypeOK, Control
<1>3. /\ \A k \in Ids : new.rows[k] = IF k = i THEN row ELSE Sees(s).rows[k]
      /\ new.journals = Sees(s).journals \cup {[id |-> row.txn, row |-> i]}
  BY <1>1, <1>2, WithJournalType
<1>4. /\ HeldBy(o) \subseteq HeldBy(op[s]) /\ (~op[s].commit => HeldBy(o) = HeldBy(op[s]))
      /\ op[s].commit => ~MayWrite(o)
      /\ \A k \in Ids : o.view[k] = IF k = i THEN v ELSE op[s].view[k]
      /\ o.expired = op[s].expired
  BY <1>1, <1>2, TakenHeld
<1>5. OneJournal(Sees(s), contended) /\ FreshCopies(op[s], Sees(s), contended)
      /\ PostedIn(db, Sees(s), HeldBy(op[s]))
  BY DEF Single
<1>6. i \in HeldBy(op[s])
  BY <1>1 DEF HeldBy
<1>7. i \notin contended => \A j \in Sees(s).journals : j.row # i
  <2> SUFFICES ASSUME i \notin contended, NEW j \in Sees(s).journals, j.row = i PROVE FALSE
    OBVIOUS
  <2>1. op[s].view[i].txn = Sees(s).rows[i].txn
    BY <1>1, <1>5, <1>6 DEF FreshCopies
  <2>2. Sees(s).rows[i].txn = j.id
    BY <1>5 DEF OneJournal
  <2> QED BY <1>1, <2>1, <2>2 DEF PostedBefore
<1>8. OneJournal(new, contended')
  BY <1>1, <1>3, <1>5, <1>7 DEF OneJournal
<1>9. FreshCopies(o, new, contended')
  <2>1. ASSUME NEW k \in HeldBy(o) \ (contended' \cup o.expired) PROVE o.view[k].txn = new.rows[k].txn
    <3>1. k \in HeldBy(op[s]) \ (contended \cup op[s].expired) /\ k \in Ids
      BY <1>1, <1>2, <1>4, HeldClaimed
    <3>2. CASE k = i
      BY <1>1, <1>3, <1>4, <3>1, <3>2
    <3>3. CASE k # i
      BY <1>3, <1>4, <1>5, <3>1, <3>3 DEF FreshCopies
    <3> QED BY <3>2, <3>3
  <2> QED BY <2>1 DEF FreshCopies
<1>10. PostedIn(db, new, HeldBy(op[s]))
  BY <1>3, <1>5, <1>6 DEF PostedIn
<1>11. db' = db => PostedIn(db, new, HeldBy(o))
  <2>1. CASE op[s].commit
    BY <1>1, <1>4, <2>1, CommittedView DEF PostedIn
  <2>2. CASE ~op[s].commit
    BY <1>4, <1>10, <2>2
  <2> QED BY <2>1, <2>2
<1>12. \A t \in Sessions \ {s} : HeldBy(o) \cap HeldBy(op[t]) \subseteq contended'
  BY <1>1, <1>4, StillApart
<1> QED BY <1>8, <1>9, <1>10, <1>11, <1>12 DEF KeepsSingle

LEMMA ItemSingle ==
  ASSUME TypeOK, Control, Control', Data, Single, NEW s \in Sessions, NEW i \in Ids, NEW o, NEW new,
         ItemStep(s, i, o, new)
  PROVE  KeepsSingle(s, o, new)
<1>1. op[s] \in Op /\ OpFits(op[s]) /\ Sees(s) \in Database /\ op[s].view \in [Ids -> Row]
  BY SeesType DEF TypeOK, Control, Op
<1>2. CASE Rereads(s, i, o, new)
  <2>1. /\ new = Sees(s) /\ Turn(s, o, new) /\ o \in Op /\ contended' = contended
        /\ HeldBy(o) = HeldBy(op[s]) /\ o.expired = op[s].expired \ {i}
        /\ o.view = [op[s].view EXCEPT ![i] = Sees(s).rows[i]]
    BY <1>1, <1>2 DEF Rereads, ReadAgain, Rests, Turn, Same, HeldBy, Op
  <2>2. ASSUME NEW k \in HeldBy(o)
        PROVE  \/ k \in o.expired
               \/ o.view[k].txn = new.rows[k].txn
               \/ k \in HeldBy(op[s]) \ op[s].expired /\ o.view[k].txn = op[s].view[k].txn
    <3>1. k \in Ids
      BY <2>1, HeldClaimed
    <3> QED BY <1>1, <2>1, <3>1
  <2>3. \A t \in Sessions \ {s} : HeldBy(o) \cap HeldBy(op[t]) \subseteq contended'
    BY <2>1, StillApart
  <2> QED BY <2>1, <2>2, <2>3, NothingPosted
<1>3. CASE FailsToPost(s, i, o, new)
  <2>1. /\ new = Sees(s) /\ Turn(s, o, new) /\ o \in Op /\ contended' = contended
        /\ HeldBy(o) = op[s].todo /\ HeldBy(op[s]) = op[s].todo /\ o.expired = op[s].todo \ {i}
        /\ o.view = [op[s].view EXCEPT ![i] = Sees(s).rows[i]]
    BY <1>1, <1>3 DEF FailsToPost, Failing, Turn, Same, HeldBy, Op
  <2>2. ASSUME NEW k \in HeldBy(o) PROVE k \in o.expired \/ o.view[k].txn = new.rows[k].txn
    <3>1. k \in Ids
      BY <2>1, HeldClaimed
    <3> QED BY <1>1, <2>1, <3>1
  <2>3. \A t \in Sessions \ {s} : HeldBy(o) \cap HeldBy(op[t]) \subseteq contended'
    BY <2>1, StillApart
  <2> QED BY <2>1, <2>2, <2>3, NothingPosted
<1>4. CASE Passes(s, i, o, new)
  <2>1. PICK v : v = op[s].view[i] /\ o = Taken(op[s], i, v) /\ v \in Row
    BY <1>1, <1>4 DEF Passes
  <2>2. /\ new = Sees(s) /\ Turn(s, o, new) /\ o \in Op /\ contended' = contended
        /\ op[s].call \in {"process", "failing"} /\ i \in op[s].todo
    BY <1>4 DEF Passes, Rests, First, Turn, Same
  <2>3. /\ HeldBy(o) \subseteq HeldBy(op[s]) /\ (~op[s].commit => HeldBy(o) = HeldBy(op[s]))
        /\ op[s].commit => ~MayWrite(o)
        /\ \A k \in Ids : o.view[k] = op[s].view[k]
        /\ o.expired = op[s].expired
    BY <1>1, <2>1, <2>2, TakenHeld
  <2>4. \A k \in HeldBy(o) : o.view[k].txn = op[s].view[k].txn /\ k \in HeldBy(op[s])
    BY <2>2, <2>3, HeldClaimed
  <2>5. \A t \in Sessions \ {s} : HeldBy(o) \cap HeldBy(op[t]) \subseteq contended'
    BY <2>2, <2>3, StillApart
  <2> QED BY <2>2, <2>3, <2>4, <2>5, NothingPosted
<1>5. ASSUME NEW st, NEW row, NEW v, Edits(s, i, st, row, v, o, new) PROVE KeepsSingle(s, o, new)
  <2>1. /\ op[s].call \in {"process", "failing"} /\ i \in op[s].todo
        /\ row \in Row /\ v \in Row /\ row.txn = Sees(s).rows[i].txn /\ v.txn = op[s].view[i].txn
        /\ o = Taken(op[s], i, v) /\ new = SetRow(Sees(s), i, row)
        /\ Turn(s, o, new) /\ o \in Op /\ contended' = contended
    BY <1>5 DEF Edits, Edited, First, Turn, Same
  <2>2. /\ HeldBy(o) \subseteq HeldBy(op[s]) /\ (~op[s].commit => HeldBy(o) = HeldBy(op[s]))
        /\ op[s].commit => ~MayWrite(o)
        /\ \A k \in Ids : o.view[k] = IF k = i THEN v ELSE op[s].view[k]
        /\ o.expired = op[s].expired
    BY <1>1, <2>1, TakenHeld
  <2>3. \A k \in HeldBy(o) : o.view[k].txn = op[s].view[k].txn /\ k \in HeldBy(op[s])
    BY <2>1, <2>2, HeldClaimed
  <2>4. \A t \in Sessions \ {s} : HeldBy(o) \cap HeldBy(op[t]) \subseteq contended'
    BY <2>1, <2>2, StillApart
  <2>5. new.journals = Sees(s).journals /\ \A k \in Ids : new.rows[k].txn = Sees(s).rows[k].txn
    BY <1>1, <2>1 DEF SetRow, Database
  <2> QED BY <2>1, <2>2, <2>3, <2>4, <2>5, NothingPosted
<1>6. ASSUME NEW row, NEW v, Journals(s, i, row, v, o, new) PROVE KeepsSingle(s, o, new)
  BY <1>6, PostingSingle
<1> QED BY <1>2, <1>3, <1>4, <1>5, <1>6 DEF ItemStep

LEMMA NextSingle == ASSUME TypeOK, Control, Control', Data, Single, Next PROVE Single'
<1>1. CASE Elsewhere
  BY <1>1 DEF Single, Elsewhere, NoWrite, Sees, Apart
<1>2. ASSUME NEW s \in Sessions, NEW o, NEW new, StepOf(s, o, new) PROVE Single'
  <2>1. KeepsSingle(s, o, new)
    BY <1>2, BeginSingle, LookUpSingle, StageSingle, ItemSingle, RestSingle DEF StepOf
  <2>2. Turn(s, o, new) /\ contended \subseteq contended'
    BY <1>2, StepTurns
  <2> QED BY <2>1, <2>2, KeepSingle DEF KeepsSingle
<1> QED BY <1>1, <1>2, NextShape

LEMMA InitSingle == Init => Single
<1> SUFFICES ASSUME Init PROVE Single
  OBVIOUS
<1>1. db = Empty /\ \A s \in Sessions : Sees(s) = Empty /\ op[s] = Idle
  BY DEF Init, Sees
<1>2. HeldBy(Idle) = {}
  BY DEF HeldBy, Idle
<1>3. Empty.journals = {}
  BY DEF Empty
<1> QED BY <1>1, <1>2, <1>3 DEF Single, Apart, OneJournal, FreshCopies, PostedIn

LEMMA SingleHolds == Spec => [](TypeOK /\ Control /\ Data /\ Single)
<1> DEFINE Inv == TypeOK /\ Control /\ Data /\ Single
<1>1. Init => Inv
  BY InitType, InitControl, InitData, InitSingle
<1>2. Inv /\ [Next]_vars => Inv'
  <2>1. Data /\ UNCHANGED vars => Data'
    BY DEF vars, Data, Sees
  <2>2. Single /\ UNCHANGED vars => Single'
    BY DEF vars, Single, Sees, Apart
  <2> QED BY <2>1, <2>2, NextType, NextControl, NextData, NextSingle, StutterControl
<1> QED BY <1>1, <1>2, PTL DEF Spec

\* Journals of a row that all name the same transaction are one journal.
LEMMA OneOrNone ==
  ASSUME NEW S, \A j, k \in S : j = k
  PROVE  IsFiniteSet(S) /\ Cardinality(S) <= 1
<1>1. CASE S = {}
  BY <1>1, FS_EmptySet
<1>2. CASE S # {}
  <2>1. PICK j \in S : S = {j}
    BY <1>2
  <2> QED BY <2>1, FS_Singleton
<1> QED BY <1>1, <1>2

(***************************************************************************)
(* RowsHaveTheirJournal: a row that no two calls held at the same time has *)
(* at most one journal, the one its transaction_id names, after any        *)
(* sequence of validations, postings, failures, retries and rollbacks; and *)
(* a POSTED row always has its journal.                                    *)
(***************************************************************************)
THEOREM RowsKeepOneJournal == Spec => []RowsHaveTheirJournal
<1>1. Data /\ Single => PostedOnce
  <2> SUFFICES ASSUME Data, Single, NEW i \in Ids \ contended
               PROVE  /\ Cardinality(JournalsOf(i)) <= 1
                      /\ \A j \in JournalsOf(i) : db.rows[i].txn = j.id
    BY DEF PostedOnce
  <2>1. \A j \in JournalsOf(i) : db.rows[i].txn = j.id
    BY DEF JournalsOf, Single, OneJournal
  <2>2. \A j, k \in JournalsOf(i) : j = k
    BY <2>1 DEF JournalsOf, Data, GoodDb
  <2> QED BY <2>1, <2>2, OneOrNone
<1> QED BY <1>1, JournalsPresent, SingleHolds, PTL DEF RowsHaveTheirJournal

-----------------------------------------------------------------------------
(* Rows a draft adds.                                                      *)

\* A row nobody else sees yet is one the call has staged; once it is processed it
\* is posted or failed, and the session's copy has its status.
DraftFits(o, d, e) ==
  \A i \in Ids : d.rows[i].status = "ABSENT" /\ e.rows[i].status # "ABSENT" =>
    /\ i \in o.done /\ o.view[i].status = e.rows[i].status
    /\ o.call = "process" => i \in o.todo \/ e.rows[i].status \in {"FAILED", "POSTED"}

DraftsFit == \A s \in Sessions : DraftFits(op[s], db, Sees(s))

LEMMA NothingDrafted == \A o, d : DraftFits(o, d, d)
  BY DEF DraftFits

LEMMA KeepDrafts ==
  ASSUME TypeOK, DraftsFit, NEW s \in Sessions, NEW o, NEW new, Turn(s, o, new),
         db' = db => DraftFits(o, db, new)
  PROVE  DraftsFit'
<1>1. op'[s] = o /\ \A t \in Sessions \ {s} : op'[t] = op[t]
  BY NowOp DEF Turn
<1>2. Sees(s)' = new /\ (db' = db \/ db' = new)
  BY DEF Turn, Moves
<1>3. ASSUME NEW t \in Sessions PROVE DraftFits(op'[t], db', Sees(t)')
  <2>1. CASE t = s
    BY <1>1, <1>2, <2>1, NothingDrafted
  <2>2. CASE t # s
    <3>1. (db' = db /\ Sees(t)' = Sees(t)) \/ Sees(t)' = db'
      BY <2>2 DEF Turn, Moves
    <3> QED BY <1>1, <2>2, <3>1, NothingDrafted DEF DraftsFit
  <2> QED BY <2>1, <2>2
<1> QED BY <1>3 DEF DraftsFit

LEMMA ItemDrafts ==
  ASSUME TypeOK, Control, Control', Data, DraftsFit, NEW s \in Sessions, NEW i \in Ids, NEW o, NEW new,
         ItemStep(s, i, o, new), db' = db
  PROVE  DraftFits(o, db, new)
<1>1. /\ op[s] \in Op /\ OpFits(op[s]) /\ Sees(s) \in Database /\ op[s].view \in [Ids -> Row]
      /\ DraftFits(op[s], db, Sees(s))
  BY SeesType DEF TypeOK, Control, Op, DraftsFit
<1>2. ~MayWrite(op[s]) => Sees(s) = db
  BY IdleSees
<1>3. CASE Rereads(s, i, o, new)
  <2>1. new = db
    BY <1>1, <1>2, <1>3 DEF Rereads, Rests, OpFits, MayWrite
  <2> QED BY <2>1, NothingDrafted
<1>4. CASE FailsToPost(s, i, o, new)
  BY <1>4, NothingDrafted DEF FailsToPost
<1>5. ASSUME NEW v \in Row, op[s].call \in {"process", "failing"}, i \in op[s].todo,
             o = Taken(op[s], i, v), Turn(s, o, new), ~op[s].commit =>
               /\ \A k \in Ids \ {i} : new.rows[k] = Sees(s).rows[k]
               /\ Sees(s).rows[i].status = "ABSENT" => new.rows[i].status = "ABSENT"
               /\ op[s].view[i].status = Sees(s).rows[i].status =>
                    v.status = new.rows[i].status /\ new.rows[i].status \in {"FAILED", "POSTED"}
      PROVE  DraftFits(o, db, new)
  <2>1. /\ \A k \in Ids : o.view[k] = IF k = i THEN v ELSE op[s].view[k]
        /\ o.done = op[s].done /\ o.todo = op[s].todo \ {i} /\ o.call = "process"
        /\ op[s].commit => ~MayWrite(o)
    BY <1>1, <1>5 DEF Taken, Op, MayWrite
  <2>2. CASE op[s].commit
    <3>1. new = db
      BY <1>5, <2>1, <2>2, CommittedView
    <3> QED BY <3>1, NothingDrafted
  <2>3. CASE ~op[s].commit
    <3>1. op[s].call = "process"
      BY <1>1, <1>5, <2>3 DEF OpFits
    <3>2. ASSUME NEW k \in Ids, db.rows[k].status = "ABSENT", new.rows[k].status # "ABSENT"
          PROVE  /\ k \in o.done /\ o.view[k].status = new.rows[k].status
                 /\ k \in o.todo \/ new.rows[k].status \in {"FAILED", "POSTED"}
      <4>1. Sees(s).rows[k].status # "ABSENT"
        BY <1>5, <2>3, <3>2
      <4>2. /\ k \in op[s].done /\ op[s].view[k].status = Sees(s).rows[k].status
            /\ k \in op[s].todo \/ Sees(s).rows[k].status \in {"FAILED", "POSTED"}
        BY <1>1, <3>1, <3>2, <4>1 DEF DraftFits
      <4>3. CASE k = i
        BY <1>5, <2>1, <2>3, <4>2, <4>3
      <4>4. CASE k # i
        BY <1>5, <2>1, <2>3, <4>2, <4>4
      <4> QED BY <4>3, <4>4
    <3> QED BY <3>2 DEF DraftFits
  <2> QED BY <2>2, <2>3
<1>6. CASE Passes(s, i, o, new)
  <2>1. PICK v : v = op[s].view[i] /\ o = Taken(op[s], i, v) /\ v \in Row
    BY <1>1, <1>6 DEF Passes
  <2>2. /\ new = Sees(s) /\ Turn(s, o, new) /\ op[s].call \in {"process", "failing"}
        /\ i \in op[s].todo /\ v.status = "POSTED"
    BY <1>6, <2>1 DEF Passes, Rests, First, Skips
  <2> QED BY <1>5, <2>1, <2>2
<1>7. ASSUME NEW st, NEW row, NEW v, Edits(s, i, st, row, v, o, new) PROVE DraftFits(o, db, new)
  <2>1. /\ op[s].call \in {"process", "failing"} /\ i \in op[s].todo
        /\ row \in Row /\ v \in Row /\ v.status = st /\ st \in {"FAILED", "VALIDATED", "POSTED"}
        /\ row.status = (IF op[s].view[i].status = st THEN Sees(s).rows[i].status ELSE st)
        /\ st = "VALIDATED" => ~op[s].auto
        /\ o = Taken(op[s], i, v) /\ new = SetRow(Sees(s), i, row) /\ Turn(s, o, new)
    BY <1>7 DEF Edits, Edited, First
  <2>2. \A k \in Ids : new.rows[k] = IF k = i THEN row ELSE Sees(s).rows[k]
    BY <1>1, <2>1 DEF SetRow, Database
  <2>3. ~op[s].commit => st \in {"FAILED", "POSTED"}
    BY <1>1, <2>1 DEF OpFits
  <2>4. Sees(s).rows[i].status # "ABSENT"
    BY <2>1 DEF Data, CopiesFit, CopyOf, Claimed
  <2> QED BY <1>5, <2>1, <2>2, <2>3, <2>4
<1>8. ASSUME NEW row, NEW v, Journals(s, i, row, v, o, new) PROVE DraftFits(o, db, new)
  <2>1. /\ op[s].call \in {"process", "failing"} /\ i \in op[s].todo
        /\ row \in Row /\ v \in Row /\ v.status = "POSTED" /\ row.status = "POSTED"
        /\ row.txn \in 1..MaxJournals
        /\ o = Taken(op[s], i, v) /\ new = WithJournal(Sees(s), i, row) /\ Turn(s, o, new)
    BY <1>8 DEF Journals, First
  <2>2. \A k \in Ids : new.rows[k] = IF k = i THEN row ELSE Sees(s).rows[k]
    BY <1>1, <2>1, WithJournalType
  <2>3. Sees(s).rows[i].status # "ABSENT"
    BY <2>1 DEF Data, CopiesFit, CopyOf, Claimed
  <2> QED BY <1>5, <2>1, <2>2, <2>3
<1> QED BY <1>3, <1>4, <1>6, <1>7, <1>8 DEF ItemStep

LEMMA StepDrafts ==
  ASSUME TypeOK, Control, Control', Data, DraftsFit, NEW s \in Sessions, NEW o, NEW new,
         StepOf(s, o, new), db' = db
  PROVE  DraftFits(o, db, new)
<1>1. /\ op[s] \in Op /\ OpFits(op[s]) /\ Sees(s) \in Database /\ op[s].view \in [Ids -> Row]
      /\ DraftFits(op[s], db, Sees(s)) /\ Turn(s, o, new)
  BY SeesType, StepTurns DEF TypeOK, Control, Op, DraftsFit
<1>2. ~MayWrite(op[s]) => Sees(s) = db
  BY IdleSees
<1>3. ASSUME \/ \E batch, auto : BeginsIngest(s, batch, auto, o, new)
             \/ \E ids, auto : BeginsProcess(s, ids, auto, o, new)
      PROVE  DraftFits(o, db, new)
  <2>1. new = db
    BY <1>2, <1>3, IdleFits DEF BeginsIngest, BeginsProcess
  <2> QED BY <2>1, NothingDrafted
<1>4. ASSUME NEW i, LooksUp(s, i, o, new) PROVE DraftFits(o, db, new)
  <2>1. /\ new = Sees(s) /\ i \in Ids \cup {NoRow} /\ op[s].call = "ingest"
        /\ o.done = op[s].done /\ o.call = op[s].call
        /\ \A k \in op[s].done : o.view[k] = op[s].view[k]
    <3>1. o = FoundIn(op[s], i, Sees(s).rows)
      BY <1>4 DEF LooksUp
    <3>2. o.view = IF i = NoRow \/ i \in op[s].done THEN op[s].view
                   ELSE [op[s].view EXCEPT ![i] = Sees(s).rows[i]]
      BY <1>1, <3>1 DEF FoundIn, Op
    <3>3. \A k \in op[s].done : k \in Ids
      BY <1>1 DEF Op
    <3>4. \A k \in op[s].done : o.view[k] = op[s].view[k]
      BY <1>1, <3>2, <3>3
    <3> QED BY <1>1, <1>4, <3>1, <3>4 DEF LooksUp, FoundIn, Op
  <2> QED BY <1>1, <2>1 DEF DraftFits
<1>5. ASSUME NEW i \in Ids, Stages(s, i, o, new) PROVE DraftFits(o, db, new)
  <2>1. PICK row : row = StagedRow(Head(op[s].batch)) /\ row \in Row
                   /\ o = StagedTo(op[s], i, row) /\ new = SetRow(Sees(s), i, row)
    BY <1>5 DEF Stages
  <2>2. \A k \in Ids : new.rows[k] = IF k = i THEN row ELSE Sees(s).rows[k]
    BY <1>1, <2>1 DEF SetRow, Database
  <2>3. /\ o.done = op[s].done \cup {i} /\ o.call = "ingest"
        /\ \A k \in Ids : o.view[k] = IF k = i THEN row ELSE op[s].view[k]
    BY <1>1, <1>5, <2>1 DEF Stages, StagedTo, Op
  <2>4. ASSUME NEW k \in Ids, db.rows[k].status = "ABSENT", new.rows[k].status # "ABSENT"
        PROVE  k \in o.done /\ o.view[k].status = new.rows[k].status
    <3>1. CASE k = i
      BY <2>2, <2>3, <3>1
    <3>2. CASE k # i
      BY <1>1, <2>2, <2>3, <2>4, <3>2 DEF DraftFits
    <3> QED BY <3>1, <3>2
  <2> QED BY <2>3, <2>4 DEF DraftFits
<1>6. CASE Reuses(s, o, new)
  <2>1. /\ new = Sees(s) /\ o.done = op[s].done \cup {op[s].found} /\ o.view = op[s].view
        /\ o.call = "ingest"
    BY <1>1, <1>6 DEF Reuses, Reused, Rests, Op
  <2> QED BY <1>1, <2>1 DEF DraftFits
<1>7. CASE Proceeds(s, o, new)
  <2>1. /\ new = Sees(s) /\ o.done = op[s].done /\ o.todo = op[s].done /\ o.view = op[s].view
    BY <1>1, <1>7 DEF Proceeds, ToProcess, Rests, Op
  <2> QED BY <1>1, <2>1 DEF DraftFits
<1>8. CASE Leaves(s, o, new)
  BY <1>8, NothingDrafted DEF Leaves
<1>9. CASE Completes(s, o, new)
  <2>1. new = db
    BY <1>1, <1>9, IdleFits, CommittedView DEF Completes
  <2> QED BY <2>1, NothingDrafted
<1>10. ASSUME NEW i \in Ids, ItemStep(s, i, o, new) PROVE DraftFits(o, db, new)
  BY <1>10, ItemDrafts
<1> QED BY <1>3, <1>4, <1>5, <1>6, <1>7, <1>8, <1>9, <1>10 DEF StepOf

LEMMA NextDrafts == ASSUME TypeOK, Control, Control', Data, DraftsFit, Next PROVE DraftsFit'
<1>1. CASE Elsewhere
  BY <1>1 DEF DraftsFit, Elsewhere, NoWrite, Sees
<1>2. ASSUME NEW s \in Sessions, NEW o, NEW new, StepOf(s, o, new) PROVE DraftsFit'
  <2>1. Turn(s, o, new)
    BY <1>2, StepTurns
  <2>2. db' = db => DraftFits(o, db, new)
    BY <1>2, StepDrafts
  <2> QED BY <2>1, <2>2, KeepDrafts
<1> QED BY <1>1, <1>2, NextShape

\* A call that defers its commit commits when it has processed what it staged.
LEMMA DeferredCommit ==
  ASSUME TypeOK, Control, DraftsFit, NEW s \in Sessions, NEW o, NEW new, StepOf(s, o, new),
         writer = s, op[s].auto, db' # db
  PROVE  new = Sees(s) /\ op[s].call = "process" /\ op[s].todo = {}
<1>1. OpFits(op[s]) /\ MayWrite(op[s]) /\ op[s].auto \in BOOLEAN /\ op[s].commit \in BOOLEAN
  BY DEF Control, TypeOK, Op
<1>2. ~op[s].commit
  BY <1>1 DEF OpFits, MayWrite
<1>3. op[s] # Idle
  BY <1>1, IdleFits
<1>4. ASSUME NEW i \in Ids, ItemStep(s, i, o, new) PROVE FALSE
  <2>1. ASSUME NEW st, NEW row, NEW v, Edits(s, i, st, row, v, o, new) PROVE FALSE
    BY <1>2, <2>1 DEF Edits, Write, Flush
  <2>2. ASSUME NEW row, NEW v, Journals(s, i, row, v, o, new) PROVE FALSE
    BY <1>2, <2>2 DEF Journals, Write, Flush
  <2>3. CASE Rereads(s, i, o, new) \/ Passes(s, i, o, new) \/ FailsToPost(s, i, o, new)
    BY <1>2, <2>3 DEF Rereads, Passes, FailsToPost, Rests, NoWrite
  <2> QED BY <1>4, <2>1, <2>2, <2>3 DEF ItemStep
<1>5. ASSUME NEW i \in Ids, Stages(s, i, o, new) PROVE FALSE
  BY <1>5 DEF Stages, Flush
<1>6. ASSUME NEW i, LooksUp(s, i, o, new) PROVE FALSE
  BY <1>6 DEF LooksUp, NoWrite
<1>7. CASE Reuses(s, o, new) \/ Proceeds(s, o, new)
  BY <1>7 DEF Reuses, Proceeds, Rests, NoWrite
<1>8. CASE Leaves(s, o, new)
  BY <1>8 DEF Leaves, Turn, Moves
<1>9. CASE Completes(s, o, new)
  BY <1>2, <1>9 DEF Completes
<1> QED BY <1>3, <1>4, <1>5, <1>6, <1>7, <1>8, <1>9 DEF StepOf, BeginsIngest, BeginsProcess

DeferredRows ==
  \A s \in Sessions : writer = s /\ op[s].auto /\ db' # db =>
    \A i \in Present(db'.rows) \ Present(db.rows) : db'.rows[i].status \in {"FAILED", "POSTED"}

LEMMA DeferredStep == ASSUME TypeOK, Control, DraftsFit, Next PROVE DeferredRows
<1> SUFFICES ASSUME NEW s \in Sessions, writer = s, op[s].auto, db' # db,
                    NEW i \in Present(db'.rows) \ Present(db.rows)
             PROVE  db'.rows[i].status \in {"FAILED", "POSTED"}
  BY DEF DeferredRows
<1>1. ~Elsewhere
  BY DEF Elsewhere, NoWrite
<1>2. PICK r \in Sessions : \E o, new : StepOf(r, o, new)
  BY <1>1, NextShape
<1>3. PICK o, new : StepOf(r, o, new)
  BY <1>2
<1>4. Turn(r, o, new)
  BY <1>3, StepTurns
<1>5. db' = new /\ r = s
  BY <1>4, NoSessionAssumption DEF Turn, Moves, CanWrite
<1>6. new = Sees(s) /\ op[s].call = "process" /\ op[s].todo = {}
  BY <1>3, <1>5, DeferredCommit
<1>7. i \in Ids /\ db.rows[i].status = "ABSENT" /\ Sees(s).rows[i].status # "ABSENT"
  BY <1>5, <1>6 DEF Present
<1> QED BY <1>5, <1>6, <1>7 DEF DraftsFit, DraftFits

(***************************************************************************)
(* AutoProcessIsAtomic: a row that an ingest with auto_process creates is  *)
(* first seen by others posted or failed, never waiting to be processed.   *)
(***************************************************************************)
THEOREM AutoProcessHolds == Spec => AutoProcessIsAtomic
<1> DEFINE Inv == TypeOK /\ Control /\ Data /\ DraftsFit
<1>1. Init => Inv
  <2>1. Init => DraftsFit
    BY NothingDrafted DEF Init, DraftsFit, Sees
  <2> QED BY <2>1, InitType, InitControl, InitData
<1>2. Inv /\ [Next]_vars => Inv'
  <2>1. Data /\ UNCHANGED vars => Data'
    BY DEF vars, Data, Sees
  <2>2. DraftsFit /\ UNCHANGED vars => DraftsFit'
    BY DEF vars, DraftsFit, Sees
  <2> QED BY <2>1, <2>2, NextType, NextControl, NextData, NextDrafts, StutterControl
<1>3. Inv /\ [Next]_vars => [DeferredRows]_vars
  BY DeferredStep
<1> HIDE DEF Inv
<1>4. Spec => [][DeferredRows]_vars
  BY <1>1, <1>2, <1>3, PTL DEF Spec
<1> QED BY <1>4 DEF AutoProcessIsAtomic, DeferredRows

-----------------------------------------------------------------------------
(* References.                                                             *)

UniqueRefs(d, twice) ==
  \A i, k \in Ids :
    d.rows[i].status # "ABSENT" /\ d.rows[k].status # "ABSENT" /\ d.rows[i].ref = d.rows[k].ref /\ i # k
      => d.rows[i].ref \in twice \cup {NoRef}

\* The reference a call has looked up and not found, and is about to stage.
Wanted(o) == IF o.found = NoRow THEN {Head(o.batch).ref} \ {NoRef} ELSE {}

\* References of the rows a draft adds.
AddedRefs(d, e) ==
  {e.rows[i].ref : i \in {k \in Ids : d.rows[k].status = "ABSENT" /\ e.rows[k].status # "ABSENT"}}

NotThere(refs, d) == \A i \in Ids : d.rows[i].status # "ABSENT" => d.rows[i].ref \notin refs

References ==
  /\ UniqueRefs(db, raced)
  /\ \A s \in Sessions :
       /\ UniqueRefs(Sees(s), raced) /\ NotThere(Wanted(op[s]) \ raced, Sees(s))
       /\ \A t \in Sessions \ {s} : /\ Wanted(op[s]) \cap Wanted(op[t]) \subseteq raced
                                    /\ Wanted(op[s]) \cap AddedRefs(db, Sees(t)) \subseteq raced

LEMMA NothingAdded == \A d : AddedRefs(d, d) = {}
  BY DEF AddedRefs

\* What KeepReferences asks of a step.
KeepsReferences(s, o, new) ==
  /\ UniqueRefs(new, raced') /\ NotThere(Wanted(o) \ raced', new)
  /\ \A t \in Sessions \ {s} :
       /\ Wanted(o) \cap Wanted(op[t]) \subseteq raced'
       /\ Wanted(o) \cap AddedRefs(db, Sees(t)) \subseteq raced'
       /\ Wanted(op[t]) \cap AddedRefs(db, new) \subseteq raced'

LEMMA KeepReferences ==
  ASSUME TypeOK, References, NEW s \in Sessions, NEW o, NEW new, Turn(s, o, new), Grows(db, new),
         raced \subseteq raced', KeepsReferences(s, o, new)
  PROVE  References'
<1>1. op'[s] = o /\ \A t \in Sessions \ {s} : op'[t] = op[t]
  BY NowOp DEF Turn
<1>2. Sees(s)' = new /\ (db' = db \/ db' = new)
  BY DEF Turn, Moves
<1>3. \A t \in Sessions \ {s} :
        (db' = db /\ Sees(t)' = Sees(t)) \/ (Sees(t) = db /\ Sees(t)' = db')
  BY DEF Turn, Moves
<1>4. \A d : UniqueRefs(d, raced) => UniqueRefs(d, raced')
  BY DEF UniqueRefs
<1>5. UniqueRefs(db', raced')
  BY <1>2, <1>4 DEF References, KeepsReferences
<1>6. ASSUME NEW t \in Sessions \ {s}
      PROVE  UniqueRefs(Sees(t)', raced') /\ NotThere(Wanted(op[t]) \ raced', Sees(t)')
  <2>1. NotThere(Wanted(op[t]) \ raced', Sees(t))
    BY DEF References, NotThere
  <2>2. CASE db' = db /\ Sees(t)' = Sees(t)
    BY <1>4, <2>1, <2>2 DEF References
  <2>3. CASE Sees(t) = db /\ Sees(t)' = db'
    <3>1. ASSUME NEW i \in Ids, new.rows[i].status # "ABSENT", new.rows[i].ref \in Wanted(op[t]) \ raced'
          PROVE  FALSE
      <4>1. CASE db.rows[i].status = "ABSENT"
        BY <3>1, <4>1 DEF KeepsReferences, AddedRefs
      <4>2. CASE db.rows[i].status # "ABSENT"
        BY <2>1, <2>3, <3>1, <4>2 DEF Grows, Follows, NotThere
      <4> QED BY <4>1, <4>2
    <3>2. NotThere(Wanted(op[t]) \ raced', new)
      BY <3>1 DEF NotThere
    <3> QED BY <1>2, <1>5, <2>1, <2>3, <3>2
  <2> QED BY <1>3, <2>2, <2>3
<1>7. ASSUME NEW t \in Sessions, NEW r \in Sessions \ {t}
      PROVE  /\ Wanted(op'[t]) \cap Wanted(op'[r]) \subseteq raced'
             /\ Wanted(op'[t]) \cap AddedRefs(db', Sees(r)') \subseteq raced'
  <2>1. CASE t = s
    <3>1. Wanted(op'[t]) \cap Wanted(op'[r]) \subseteq raced'
      BY <1>1, <2>1 DEF KeepsReferences
    <3>2. AddedRefs(db', Sees(r)') = {} \/ (db' = db /\ Sees(r)' = Sees(r))
      BY <1>3, <2>1, NothingAdded
    <3> QED BY <1>1, <2>1, <3>1, <3>2 DEF KeepsReferences
  <2>2. CASE t # s /\ r = s
    <3>1. Wanted(op'[t]) \cap Wanted(op'[r]) \subseteq raced'
      BY <1>1, <2>2 DEF KeepsReferences
    <3>2. AddedRefs(db', Sees(r)') = {} \/ AddedRefs(db', Sees(r)') = AddedRefs(db, new)
      BY <1>2, <2>2, NothingAdded
    <3> QED BY <1>1, <2>2, <3>1, <3>2 DEF KeepsReferences
  <2>3. CASE t # s /\ r # s
    <3>1. Wanted(op'[t]) \cap Wanted(op'[r]) \subseteq raced'
      BY <1>1, <2>3 DEF References
    <3>2. AddedRefs(db', Sees(r)') = {} \/ AddedRefs(db', Sees(r)') = AddedRefs(db, Sees(r))
      BY <1>3, <2>3, NothingAdded
    <3> QED BY <1>1, <2>3, <3>1, <3>2 DEF References
  <2> QED BY <2>1, <2>2, <2>3
<1>8. ASSUME NEW t \in Sessions
      PROVE  UniqueRefs(Sees(t)', raced') /\ NotThere(Wanted(op'[t]) \ raced', Sees(t)')
  <2>1. CASE t = s
    BY <1>1, <1>2, <2>1 DEF KeepsReferences
  <2>2. CASE t # s
    BY <1>1, <1>6, <2>2
  <2> QED BY <2>1, <2>2
<1> QED BY <1>5, <1>7, <1>8 DEF References

\* A step that stages nothing and has found no reference free.
LEMMA NothingStaged ==
  ASSUME References, NEW s \in Sessions, NEW o, NEW new, raced \subseteq raced', Wanted(o) = {},
         new = db \/ \A k \in Ids : /\ new.rows[k].status = "ABSENT" <=> Sees(s).rows[k].status = "ABSENT"
                                    /\ new.rows[k].ref = Sees(s).rows[k].ref
  PROVE  KeepsReferences(s, o, new)
<1>1. CASE new = db
  <2>1. UniqueRefs(new, raced')
    BY <1>1 DEF References, UniqueRefs
  <2> QED BY <1>1, <2>1, NothingAdded DEF KeepsReferences, NotThere
<1>2. CASE \A k \in Ids : /\ new.rows[k].status = "ABSENT" <=> Sees(s).rows[k].status = "ABSENT"
                          /\ new.rows[k].ref = Sees(s).rows[k].ref
  <2>1. UniqueRefs(new, raced')
    BY <1>2 DEF References, UniqueRefs
  <2>2. AddedRefs(db, new) \subseteq AddedRefs(db, Sees(s))
    BY <1>2 DEF AddedRefs
  <2>3. \A t \in Sessions \ {s} : Wanted(op[t]) \cap AddedRefs(db, Sees(s)) \subseteq raced
    BY DEF References
  <2> QED BY <2>1, <2>2, <2>3 DEF KeepsReferences, NotThere
<1> QED BY <1>1, <1>2

\* Whoever wants or has drafted a reference is staging it.
LEMMA WantedIsStaging ==
  ASSUME TypeOK, Control, DraftsFit, NEW t \in Sessions,
         NEW r \in Wanted(op[t]) \cup (AddedRefs(db, Sees(t)) \ {NoRef})
  PROVE  r \in Staging(t) \ {NoRef}
<1>1. op[t] \in Op /\ OpFits(op[t])
  BY DEF TypeOK, Control
<1>2. CASE r \in Wanted(op[t])
  <2>1. op[t].found = NoRow /\ r = Head(op[t].batch).ref /\ r # NoRef
    BY <1>2 DEF Wanted
  <2>2. op[t].call = "ingest" /\ op[t].batch # <<>>
    BY <1>1, <2>1, IdsNumbers DEF OpFits
  <2>3. PICK b : b = op[t].batch /\ b \in Seq(Incoming)
    BY <1>1 DEF Op
  <2>4. 1 \in DOMAIN b /\ Head(b) = b[1]
    BY <2>2, <2>3
  <2>5. r \in {op[t].batch[k].ref : k \in DOMAIN op[t].batch}
    BY <2>1, <2>3, <2>4
  <2> QED BY <2>1, <2>2, <2>5 DEF Staging
<1>3. CASE r \in AddedRefs(db, Sees(t)) /\ r # NoRef
  <2>1. PICK i \in Ids : db.rows[i].status = "ABSENT" /\ Sees(t).rows[i].status # "ABSENT" /\ r = Sees(t).rows[i].ref
    BY <1>3 DEF AddedRefs
  <2>2. writer = t /\ Sees(t) = draft
    BY <2>1 DEF Sees
  <2>3. i \in op[t].done
    BY <2>1 DEF DraftsFit, DraftFits
  <2> QED BY <1>3, <2>1, <2>2, <2>3 DEF Staging
<1> QED BY <1>2, <1>3

LEMMA LookUpReferences ==
  ASSUME TypeOK, Control, DraftsFit, References, NEW s \in Sessions, NEW i, NEW o, NEW new,
         LooksUp(s, i, o, new)
  PROVE  KeepsReferences(s, o, new)
<1>1. /\ op[s] \in Op /\ Sees(s) \in Database /\ new = Sees(s) /\ raced \subseteq raced'
      /\ i \in Ids \cup {NoRow} /\ i = FindBySourceReference(Sees(s).rows, Head(op[s].batch).ref)
  BY SeesType DEF LooksUp, TypeOK
<1>2. o.found = i /\ o.batch = op[s].batch
  BY <1>1 DEF LooksUp, FoundIn, Op
<1>3. CASE i # NoRow
  <2>1. Wanted(o) = {}
    BY <1>2, <1>3 DEF Wanted
  <2> QED BY <1>1, <2>1, NothingStaged
<1>4. CASE i = NoRow
  <2> DEFINE ref == Head(op[s].batch).ref
  <2>1. Wanted(o) = {ref} \ {NoRef}
    BY <1>2, <1>4 DEF Wanted
  <2>2. Sees(s).rows \in [Ids -> Row]
    BY <1>1 DEF Database
  <2>3. \A k \in Present(Sees(s).rows) : ref = NoRef \/ Sees(s).rows[k].ref # ref
    <3>1. NoRow \notin Present(Sees(s).rows)
      BY IdsNumbers DEF Present
    <3> QED BY <1>1, <1>4, <2>2, <3>1, FoundRow
  <2>4. NotThere(Wanted(o) \ raced', new)
    BY <1>1, <2>1, <2>3 DEF NotThere, Present
  <2>5. UniqueRefs(new, raced')
    BY <1>1 DEF References, UniqueRefs
  <2>6. ASSUME NEW t \in Sessions \ {s}
        PROVE  /\ Wanted(o) \cap Wanted(op[t]) \subseteq raced'
               /\ Wanted(o) \cap AddedRefs(db, Sees(t)) \subseteq raced'
               /\ Wanted(op[t]) \cap AddedRefs(db, new) \subseteq raced'
    <3>1. ref \in Staging(t) \ {NoRef} => ref \in raced'
      BY DEF LooksUp
    <3>2. ref \in Wanted(op[t]) \cup (AddedRefs(db, Sees(t)) \ {NoRef}) => ref \in raced'
      BY <3>1, WantedIsStaging
    <3>3. Wanted(op[t]) \cap AddedRefs(db, Sees(s)) \subseteq raced
      BY DEF References
    <3> HIDE DEF ref
    <3> QED BY <1>1, <2>1, <3>2, <3>3
  <2> QED BY <2>4, <2>5, <2>6 DEF KeepsReferences
<1> QED BY <1>3, <1>4

LEMMA StageReferences ==
  ASSUME TypeOK, Control, References, NEW s \in Sessions, NEW i \in Ids, NEW o, NEW new, Stages(s, i, o, new)
  PROVE  KeepsReferences(s, o, new)
<1>1. op[s] \in Op /\ Sees(s) \in Database /\ raced' = raced
  BY SeesType DEF Stages, Same, TypeOK
<1>2. PICK row : row = StagedRow(Head(op[s].batch)) /\ row \in Row
                 /\ o = StagedTo(op[s], i, row) /\ new = SetRow(Sees(s), i, row)
  BY DEF Stages
<1>3. Wanted(o) = {}
  <2>1. o.found = Unread
    BY <1>1, <1>2 DEF StagedTo, Op
  <2> QED BY <2>1, IdsNumbers DEF Wanted
<1>4. \A k \in Ids : new.rows[k] = IF k = i THEN row ELSE Sees(s).rows[k]
  BY <1>1, <1>2 DEF SetRow, Database
<1>5. row.ref \in Wanted(op[s]) \cup {NoRef} /\ Sees(s).rows[i].status = "ABSENT"
  <2>1. row.ref = Head(op[s].batch).ref /\ op[s].found = NoRow
    BY <1>2 DEF StagedRow, Stages
  <2>2. Sees(s).rows[i].status = "ABSENT"
    BY DEF Stages, Present
  <2> QED BY <2>1, <2>2 DEF Wanted
<1>6. \A k \in Ids : Sees(s).rows[k].status # "ABSENT" /\ Sees(s).rows[k].ref = row.ref => row.ref \in raced \cup {NoRef}
  BY <1>5 DEF References, NotThere
<1>7. UniqueRefs(new, raced')
  <2> SUFFICES ASSUME NEW j \in Ids, NEW k \in Ids, new.rows[j].status # "ABSENT", new.rows[k].status # "ABSENT",
                      new.rows[j].ref = new.rows[k].ref, j # k
               PROVE  new.rows[j].ref \in raced \cup {NoRef}
    BY <1>1 DEF UniqueRefs
  <2>1. CASE j = i
    BY <1>4, <1>6, <2>1
  <2>2. CASE k = i
    BY <1>4, <1>6, <2>2
  <2>3. CASE j # i /\ k # i
    BY <1>4, <2>3 DEF References, UniqueRefs
  <2> QED BY <2>1, <2>2, <2>3
<1>8. ASSUME NEW t \in Sessions \ {s} PROVE Wanted(op[t]) \cap AddedRefs(db, new) \subseteq raced'
  <2>1. AddedRefs(db, new) \subseteq AddedRefs(db, Sees(s)) \cup {row.ref}
    <3> SUFFICES ASSUME NEW k \in Ids, db.rows[k].status = "ABSENT", new.rows[k].status # "ABSENT"
                 PROVE  new.rows[k].ref \in AddedRefs(db, Sees(s)) \cup {row.ref}
      BY DEF AddedRefs
    <3>1. CASE k = i
      BY <1>4, <3>1
    <3>2. CASE k # i
      BY <1>4, <3>2 DEF AddedRefs
    <3> QED BY <3>1, <3>2
  <2>2. Wanted(op[t]) \cap AddedRefs(db, Sees(s)) \subseteq raced /\ Wanted(op[s]) \cap Wanted(op[t]) \subseteq raced
    BY DEF References
  <2>3. NoRef \notin Wanted(op[t])
    BY DEF Wanted
  <2> QED BY <1>1, <1>5, <2>1, <2>2, <2>3
<1> QED BY <1>3, <1>7, <1>8 DEF KeepsReferences, NotThere

LEMMA ItemReferences ==
  ASSUME TypeOK, Control, Data, References, NEW s \in Sessions, NEW i \in Ids, NEW o, NEW new,
         ItemStep(s, i, o, new)
  PROVE  KeepsReferences(s, o, new) /\ raced' = raced
<1>1. /\ op[s] \in Op /\ OpFits(op[s]) /\ Sees(s) \in Database /\ op[s].view \in [Ids -> Row]
      /\ CopiesFit(op[s], Sees(s))
  BY SeesType DEF TypeOK, Control, Op, Data
<1>2. raced' = raced
  BY DEF ItemStep, Rereads, Passes, FailsToPost, Edits, Journals, Rests, Same
<1>3. o.found = op[s].found /\ op[s].call \in {"process", "failing"}
  <2>1. \A v : Taken(op[s], i, v).found = op[s].found
    BY <1>1 DEF Taken, Op
  <2>2. \A rows : ReadAgain(op[s], i, rows).found = op[s].found /\ Failing(op[s], i, rows).found = op[s].found
    BY <1>1 DEF ReadAgain, Failing, Op
  <2> QED BY <2>1, <2>2 DEF ItemStep, Rereads, Passes, FailsToPost, Edits, Journals
<1>4. Wanted(o) = {}
  BY <1>1, <1>3, IdsNumbers DEF OpFits, Wanted
<1>5. i \in op[s].todo => Sees(s).rows[i].status # "ABSENT"
  BY <1>1 DEF CopiesFit, CopyOf, Claimed
<1>6. CASE Rereads(s, i, o, new) \/ Passes(s, i, o, new) \/ FailsToPost(s, i, o, new)
  BY <1>2, <1>4, <1>6, NothingStaged DEF Rereads, Passes, FailsToPost, Rests
<1>7. ASSUME NEW st, NEW row, NEW v, Edits(s, i, st, row, v, o, new) PROVE KeepsReferences(s, o, new)
  <2>1. /\ row.ref = Sees(s).rows[i].ref /\ row.status # "ABSENT" /\ Sees(s).rows[i].status # "ABSENT"
        /\ new = SetRow(Sees(s), i, row)
    BY <1>5, <1>7 DEF Edits, Edited, First
  <2>2. \A k \in Ids : new.rows[k] = IF k = i THEN row ELSE Sees(s).rows[k]
    BY <1>1, <2>1 DEF SetRow, Database
  <2> QED BY <1>2, <1>4, <2>1, <2>2, NothingStaged
<1>8. ASSUME NEW row, NEW v, Journals(s, i, row, v, o, new) PROVE KeepsReferences(s, o, new)
  <2>1. /\ row.ref = Sees(s).rows[i].ref /\ row.status # "ABSENT" /\ Sees(s).rows[i].status # "ABSENT"
        /\ new = WithJournal(Sees(s), i, row) /\ row \in Row /\ row.txn \in 1..MaxJournals
    BY <1>5, <1>8 DEF Journals, First
  <2>2. \A k \in Ids : new.rows[k] = IF k = i THEN row ELSE Sees(s).rows[k]
    BY <1>1, <2>1, WithJournalType
  <2> QED BY <1>2, <1>4, <2>1, <2>2, NothingStaged
<1> QED BY <1>2, <1>6, <1>7, <1>8 DEF ItemStep

LEMMA StepReferences ==
  ASSUME TypeOK, Control, Data, DraftsFit, References, NEW s \in Sessions, NEW o, NEW new, StepOf(s, o, new)
  PROVE  KeepsReferences(s, o, new) /\ raced \subseteq raced'
<1>1. op[s] \in Op /\ OpFits(op[s])
  BY DEF TypeOK, Control
<1>2. Wanted(Idle) = {}
  BY IdsNumbers DEF Idle, Wanted
<1>3. ASSUME NEW i, LooksUp(s, i, o, new) PROVE KeepsReferences(s, o, new) /\ raced \subseteq raced'
  BY <1>3, LookUpReferences DEF LooksUp
<1>4. ASSUME NEW i \in Ids, Stages(s, i, o, new) PROVE KeepsReferences(s, o, new) /\ raced \subseteq raced'
  BY <1>4, StageReferences DEF Stages, Same
<1>5. ASSUME NEW i \in Ids, ItemStep(s, i, o, new) PROVE KeepsReferences(s, o, new) /\ raced \subseteq raced'
  BY <1>5, ItemReferences
<1>6. ASSUME raced' = raced, Wanted(o) = {}, new = Sees(s) \/ new = db
      PROVE  KeepsReferences(s, o, new) /\ raced \subseteq raced'
  BY <1>6, NothingStaged
<1>7. ASSUME NEW batch, NEW auto, BeginsIngest(s, batch, auto, o, new) PROVE Wanted(o) = {}
  BY <1>7, IdsNumbers DEF BeginsIngest, Ingesting, Idle, Wanted
<1>8. ASSUME NEW ids, NEW auto, BeginsProcess(s, ids, auto, o, new) PROVE Wanted(o) = {}
  BY <1>8, IdsNumbers DEF BeginsProcess, Processing, Idle, Wanted
<1>9. Reuses(s, o, new) => Wanted(o) = {}
  <2>1. Reused(op[s]).found = Unread
    BY <1>1 DEF Reused, Op
  <2> QED BY <2>1, IdsNumbers DEF Reuses, Wanted
<1>10. Proceeds(s, o, new) => Wanted(o) = {}
  <2>1. ToProcess(op[s]).found = op[s].found
    BY <1>1 DEF ToProcess, Op
  <2> QED BY <1>1, <2>1, IdsNumbers DEF Proceeds, OpFits, Wanted
<1>11. CASE Reuses(s, o, new) \/ Proceeds(s, o, new)
  BY <1>6, <1>9, <1>10, <1>11 DEF Reuses, Proceeds, Rests, Same
<1>12. CASE Leaves(s, o, new) \/ Completes(s, o, new)
  BY <1>2, <1>6, <1>12 DEF Leaves, Completes, Same
<1>13. ASSUME NEW batch, NEW auto, BeginsIngest(s, batch, auto, o, new)
       PROVE  KeepsReferences(s, o, new) /\ raced \subseteq raced'
  BY <1>6, <1>7, <1>13 DEF BeginsIngest, Same
<1>14. ASSUME NEW ids, NEW auto, BeginsProcess(s, ids, auto, o, new)
       PROVE  KeepsReferences(s, o, new) /\ raced \subseteq raced'
  BY <1>6, <1>8, <1>14 DEF BeginsProcess
<1> QED BY <1>3, <1>4, <1>5, <1>11, <1>12, <1>13, <1>14 DEF StepOf

LEMMA NextReferences == ASSUME TypeOK, Control, Data, DraftsFit, References, Next PROVE References'
<1>1. CASE Elsewhere
  BY <1>1 DEF References, Elsewhere, NoWrite, Sees
<1>2. ASSUME NEW s \in Sessions, NEW o, NEW new, StepOf(s, o, new) PROVE References'
  <2>1. Turn(s, o, new) /\ Grows(db, new)
    BY <1>2, StepTurns, StepData
  <2>2. KeepsReferences(s, o, new) /\ raced \subseteq raced'
    BY <1>2, StepReferences
  <2> QED BY <2>1, <2>2, KeepReferences
<1> QED BY <1>1, <1>2, NextShape

LEMMA InitReferences == Init => References
<1> SUFFICES ASSUME Init PROVE References
  OBVIOUS
<1>1. db = Empty /\ \A s \in Sessions : Sees(s) = Empty /\ op[s] = Idle
  BY DEF Init, Sees
<1>2. \A i \in Ids : Empty.rows[i].status = "ABSENT"
  BY DEF Empty, NothingRead, NoRowYet
<1>3. Wanted(Idle) = {}
  BY IdsNumbers DEF Idle, Wanted
<1> QED BY <1>1, <1>2, <1>3 DEF References, UniqueRefs, NotThere

LEMMA ReferencesUnique == References => ReferenceOnce
  BY DEF References, UniqueRefs, ReferenceOnce, Present

(***************************************************************************)
(* RepeatsExplained: a source reference names one row unless two calls     *)
(* were staging it at once, and a repeated ingest is refused only for a    *)
(* payload that differs or a currency that was left out.                   *)
(***************************************************************************)
THEOREM RepeatsHold == Spec => []RepeatsExplained
<1> DEFINE Inv == TypeOK /\ Control /\ Data /\ DraftsFit /\ References
<1>1. Init => Inv
  <2>1. Init => DraftsFit
    BY NothingDrafted DEF Init, DraftsFit, Sees
  <2> QED BY <2>1, InitType, InitControl, InitData, InitReferences
<1>2. Inv /\ [Next]_vars => Inv'
  <2>1. Data /\ UNCHANGED vars => Data'
    BY DEF vars, Data, Sees
  <2>2. DraftsFit /\ UNCHANGED vars => DraftsFit'
    BY DEF vars, DraftsFit, Sees
  <2>3. References /\ UNCHANGED vars => References'
    BY DEF vars, References, Sees
  <2> QED BY <2>1, <2>2, <2>3, NextType, NextControl, NextData, NextDrafts, NextReferences, StutterControl
<1>3. Inv => ReferenceOnce
  BY ReferencesUnique
<1>4. ReferenceOnce /\ ConflictExplained => RepeatsExplained
  BY DEF RepeatsExplained
<1> HIDE DEF Inv
<1> QED BY <1>1, <1>2, <1>3, <1>4, ConflictHolds, PTL DEF Spec

=============================================================================
