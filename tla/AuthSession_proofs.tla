------------------------- MODULE AuthSession_proofs -------------------------
(***************************************************************************)
(* Proofs about AuthSession, for any number of callers, sessions, tokens,  *)
(* any lifetime and any cleanup limit.                                     *)
(*                                                                         *)
(* What a refresh read of its session may be stale, but two things about   *)
(* it are not: the session it names was created, and its expiry, which     *)
(* nothing changes, is later than the time the call took (CallsWellFormed).*)
(***************************************************************************)
EXTENDS AuthSession, FiniteSetTheorems, TLAPS

Created(s) == digest[s] # NoJti
Exchanged(s) == {j \in Jtis : issued[j] = s /\ consumed[j] = 1}

CallsWellFormed ==
    \A c \in Threads : op[c].stage \in {"matched", "lost", "reuse"} =>
        op[c].sid \in Sids /\ Created(op[c].sid) /\ expires[op[c].sid] > op[c].at

\* Nothing is known of an identifier before its login.
NothingBeforeLogin ==
    /\ \A s \in present : Created(s)
    /\ \A s \in Sids : ~Created(s) => ~revoked[s] /\ counter[s] = 0 /\ \A j \in Jtis : issued[j] # s
    /\ \A j \in Jtis : Unissued(j) => consumed[j] = 0

RevocationsRecorded == \A s \in Sids : audits[s] = IF revoked[s] THEN 1 ELSE 0

ReusedAreDead == \A s \in reused : Created(s) /\ (s \notin present \/ revoked[s])

CountsExact ==
    \A s \in Sids : IsFiniteSet(Exchanged(s)) /\ counter[s] = Cardinality(Exchanged(s))

IInv == TypeOK /\ CallsWellFormed /\ NothingBeforeLogin /\ ConsumedOnce
          /\ RevocationsRecorded /\ ReusedAreDead /\ CountsExact

-----------------------------------------------------------------------------
LEMMA IdleType == Idle \in Op /\ Idle.stage = "none"
  BY MaxTimeAssumption DEF Idle, Op, Calls, Stages, Times

LEMMA InitIInv == Init => IInv
<1> SUFFICES ASSUME Init PROVE IInv
  OBVIOUS
<1>1. TypeOK
  <2>1. 0 \in Times
    BY MaxTimeAssumption DEF Times
  <2> QED BY <2>1, IdleType DEF Init, TypeOK
<1>2. CallsWellFormed
  BY IdleType DEF Init, CallsWellFormed
<1>3. NothingBeforeLogin /\ ConsumedOnce
  BY NoSidAssumption DEF Init, NothingBeforeLogin, ConsumedOnce, Created, Unissued
<1>4. RevocationsRecorded /\ ReusedAreDead
  BY DEF Init, RevocationsRecorded, ReusedAreDead
<1>5. CountsExact
  <2>1. \A s \in Sids : Exchanged(s) = {}
    BY NoSidAssumption DEF Init, Exchanged
  <2> QED BY <2>1, FS_EmptySet DEF Init, CountsExact
<1> QED BY <1>1, <1>2, <1>3, <1>4, <1>5 DEF IInv

-----------------------------------------------------------------------------
(* A step that only reads: the clock, the start of a call, a failure.       *)

LEMMA ReadPreserves ==
  ASSUME IInv, UNCHANGED <<rows, history>>, now' \in Times, op' \in [Threads -> Op],
         \A c \in Threads : \/ op'[c].stage \notin {"matched", "lost", "reuse"}
                            \/ /\ op'[c].sid \in Sids
                               /\ Created(op'[c].sid)
                               /\ expires[op'[c].sid] > op'[c].at
  PROVE  IInv'
<1>1. TypeOK'
  BY DEF IInv, TypeOK, rows, history
<1>2. CallsWellFormed'
  BY DEF CallsWellFormed, Created, rows, history
<1>3. NothingBeforeLogin' /\ ConsumedOnce' /\ RevocationsRecorded' /\ ReusedAreDead'
  BY DEF IInv, NothingBeforeLogin, ConsumedOnce, RevocationsRecorded, ReusedAreDead, Created,
         Unissued, rows, history
<1>4. CountsExact'
  <2>1. \A s : Exchanged(s)' = Exchanged(s)
    BY DEF Exchanged, history
  <2> QED BY <2>1 DEF IInv, CountsExact, rows
<1> QED BY <1>1, <1>2, <1>3, <1>4 DEF IInv

\* The form most of those steps have: one call gets a new record.
LEMMA CallPreserves ==
  ASSUME IInv, UNCHANGED <<now, rows, history>>, NEW c \in Threads, NEW o \in Op,
         op' = [op EXCEPT ![c] = o],
         o.stage \in {"matched", "lost", "reuse"} =>
           o.sid \in Sids /\ Created(o.sid) /\ expires[o.sid] > o.at
  PROVE  IInv'
<1>1. now' \in Times /\ op' \in [Threads -> Op]
  BY DEF IInv, TypeOK
<1>2. \A b \in Threads : op'[b] = IF b = c THEN o ELSE op[b]
  BY DEF IInv, TypeOK
<1>3. \A b \in Threads : \/ op'[b].stage \notin {"matched", "lost", "reuse"}
                         \/ /\ op'[b].sid \in Sids
                            /\ Created(op'[b].sid)
                            /\ expires[op'[b].sid] > op'[b].at
  BY <1>2 DEF IInv, CallsWellFormed
<1>4. UNCHANGED <<rows, history>>
  OBVIOUS
<1> QED BY <1>1, <1>3, <1>4, ReadPreserves

\* A finished call, and what of the other calls a write must leave true.
LEMMA EndKeepsCalls ==
  ASSUME IInv, NEW c \in Threads, EndCall(c), expires' \in [Sids -> Nat],
         \A s \in Sids : Created(s) => Created(s)' /\ expires'[s] = expires[s]
  PROVE  CallsWellFormed' /\ op' \in [Threads -> Op]
<1>1. \A b \in Threads : op'[b] = IF b = c THEN Idle ELSE op[b]
  BY DEF IInv, TypeOK, EndCall
<1>2. op' \in [Threads -> Op]
  BY IdleType DEF IInv, TypeOK, EndCall
<1> QED BY <1>1, <1>2, IdleType DEF IInv, CallsWellFormed, Created

-----------------------------------------------------------------------------
LEMMA BeginCleanupPreserves ==
  ASSUME IInv, NEW c \in Threads, NEW call \in {"login", "refresh", "cleanup"},
         NEW j \in Jtis \cup {NoJti}, BeginCleanup(c, call, j)
  PROVE  IInv'
<1>1. PICK d \in SUBSET present :
        op' = [op EXCEPT ![c] = [call |-> call, stage |-> "cleaning", sid |-> NoSid,
                                 jti |-> j, at |-> now, doomed |-> d]]
  BY DEF BeginCleanup
<1> DEFINE o == [call |-> call, stage |-> "cleaning", sid |-> NoSid, jti |-> j, at |-> now, doomed |-> d]
<1>2. o \in Op
  BY DEF IInv, TypeOK, Op, Calls, Stages
<1>3. o.stage = "cleaning" /\ op' = [op EXCEPT ![c] = o]
  BY <1>1
<1>4. UNCHANGED <<now, rows, history>>
  BY DEF BeginCleanup
<1> HIDE DEF o
<1> QED BY <1>2, <1>3, <1>4, CallPreserves

LEMMA DeletePreserves == ASSUME IInv, NEW c \in Threads, DeleteExpired(c) PROVE IInv'
<1>1. present' \subseteq present
  BY DEF DeleteExpired
<1>2. UNCHANGED <<now, digest, expires, revoked, counter, history>>
  BY DEF DeleteExpired
<1>3. PICK o \in Op : op' = [op EXCEPT ![c] = o] /\ o.stage \in {"none", "ready"}
  <2>1. CASE op[c].call = "cleanup"
    BY <2>1, IdleType DEF DeleteExpired, EndCall
  <2>2. CASE op[c].call # "cleanup"
    <3> DEFINE o == [op[c] EXCEPT !.stage = "ready", !.doomed = {}]
    <3>1. o \in Op /\ o.stage = "ready"
      BY DEF IInv, TypeOK, Op, Stages
    <3>2. op' = [op EXCEPT ![c] = o]
      BY <2>2 DEF DeleteExpired
    <3> QED BY <3>1, <3>2
  <2> QED BY <2>1, <2>2
<1>4. \A b \in Threads : op'[b] = IF b = c THEN o ELSE op[b]
  BY <1>3 DEF IInv, TypeOK
<1>5. TypeOK'
  BY <1>1, <1>2, <1>3 DEF IInv, TypeOK, history
<1>6. CallsWellFormed'
  BY <1>2, <1>3, <1>4 DEF IInv, CallsWellFormed, Created
<1>7. NothingBeforeLogin' /\ ConsumedOnce' /\ RevocationsRecorded' /\ ReusedAreDead'
  BY <1>1, <1>2 DEF IInv, NothingBeforeLogin, ConsumedOnce, RevocationsRecorded, ReusedAreDead,
                    Created, Unissued, history
<1>8. CountsExact'
  <2>1. \A s : Exchanged(s)' = Exchanged(s)
    BY <1>2 DEF Exchanged, history
  <2> QED BY <2>1, <1>2 DEF IInv, CountsExact
<1> QED BY <1>5, <1>6, <1>7, <1>8 DEF IInv

LEMMA CreatePreserves == ASSUME IInv, NEW c \in Callers, CreateSession(c) PROVE IInv'
<1>1. PICK s \in Sids, j \in Jtis :
        /\ NeverUsed(s)
        /\ Unissued(j)
        /\ present' = present \cup {s}
        /\ digest' = [digest EXCEPT ![s] = j]
        /\ expires' = [expires EXCEPT ![s] = op[c].at + Lifetime]
        /\ issued' = [issued EXCEPT ![j] = s]
  BY DEF CreateSession
<1>2. UNCHANGED <<now, revoked, counter, consumed, reused, audits>> /\ EndCall(c) /\ c \in Threads
  BY DEF CreateSession, Threads
<1>3. op[c].at \in Nat
  BY <1>2, MaxTimeAssumption DEF IInv, TypeOK, Op, Times
<1>4. expires' \in [Sids -> Nat] /\ \A r \in Sids : r # s => expires'[r] = expires[r]
  BY <1>1, <1>3, LifetimeAssumption DEF IInv, TypeOK
<1>5. \A r \in Sids : digest'[r] = IF r = s THEN j ELSE digest[r]
  BY <1>1 DEF IInv, TypeOK
<1>6. \A k \in Jtis : issued'[k] = IF k = j THEN s ELSE issued[k]
  BY <1>1 DEF IInv, TypeOK
<1>7. ~Created(s) /\ Created(s)' /\ s \notin present /\ j # NoJti /\ consumed[j] = 0
  BY <1>1, <1>5, NoJtiAssumption DEF NeverUsed, Created, IInv, NothingBeforeLogin
<1>8. CallsWellFormed' /\ op' \in [Threads -> Op]
  <2>1. \A r \in Sids : Created(r) => Created(r)' /\ expires'[r] = expires[r]
    BY <1>4, <1>5, <1>7 DEF Created
  <2> QED BY <1>2, <1>4, <2>1, EndKeepsCalls
<1>9. TypeOK'
  BY <1>1, <1>2, <1>4, <1>8 DEF IInv, TypeOK
<1>10. NothingBeforeLogin'
  BY <1>1, <1>2, <1>5, <1>6, <1>7, NoSidAssumption DEF IInv, NothingBeforeLogin, Created, Unissued, TypeOK
<1>11. ConsumedOnce'
  <2>1. \A r \in present : r # s /\ digest'[r] = digest[r] /\ digest[r] \in Jtis /\ digest[r] # j
    BY <1>1, <1>5, <1>7, NoSidAssumption
       DEF IInv, TypeOK, ConsumedOnce, NothingBeforeLogin, Created, Unissued
  <2> QED BY <1>1, <1>2, <1>5, <1>6, <1>7, <2>1 DEF IInv, ConsumedOnce
<1>12. RevocationsRecorded' /\ ReusedAreDead'
  BY <1>1, <1>2, <1>5, <1>7 DEF IInv, TypeOK, RevocationsRecorded, ReusedAreDead, Created
<1>13. CountsExact'
  <2>1. \A r \in Sids : Exchanged(r)' = Exchanged(r)
    BY <1>1, <1>2, <1>6, <1>7, NoSidAssumption DEF Exchanged, Unissued
  <2> QED BY <1>2, <2>1 DEF IInv, CountsExact
<1> QED BY <1>8, <1>9, <1>10, <1>11, <1>12, <1>13 DEF IInv

LEMMA RotatePreserves == ASSUME IInv, NEW c \in Callers, Rotate(c) PROVE IInv'
<1>0. PICK s, t : s = op[c].sid /\ t = op[c].jti
  OBVIOUS
<1>1. PICK j \in Jtis : /\ Unissued(j)
                        /\ digest' = [digest EXCEPT ![s] = j]
                        /\ issued' = [issued EXCEPT ![j] = s]
  BY <1>0 DEF Rotate
<1>2. /\ s \in Sids /\ s \in present /\ digest[s] = t
      /\ t \in Jtis /\ issued[t] = s /\ consumed[t] = 0 /\ Created(s) /\ ~revoked[s]
  BY <1>0, NoJtiAssumption DEF Rotate, Swaps, Live, IInv, TypeOK, ConsumedOnce, NothingBeforeLogin, Created
<1>3. /\ UNCHANGED <<now, present, expires, revoked, reused, audits>> /\ EndCall(c) /\ c \in Threads
      /\ counter' = [counter EXCEPT ![s] = @ + 1]
      /\ consumed' = [consumed EXCEPT ![t] = @ + 1]
  BY <1>0 DEF Rotate, Threads
<1>4. \A r \in Sids : digest'[r] = IF r = s THEN j ELSE digest[r]
  BY <1>1 DEF IInv, TypeOK
<1>5. \A k \in Jtis : issued'[k] = IF k = j THEN s ELSE issued[k]
  BY <1>1 DEF IInv, TypeOK
<1>6. \A k \in Jtis : consumed'[k] = IF k = t THEN 1 ELSE consumed[k]
  BY <1>2, <1>3 DEF IInv, TypeOK
<1>7. j # NoJti /\ j # t /\ consumed[j] = 0 /\ s # NoSid
  BY <1>1, <1>2, NoJtiAssumption, NoSidAssumption DEF Unissued, IInv, NothingBeforeLogin
<1>8. CallsWellFormed' /\ op' \in [Threads -> Op]
  <2>1. \A r \in Sids : Created(r) => Created(r)' /\ expires'[r] = expires[r]
    BY <1>3, <1>4, <1>7 DEF Created
  <2>2. expires' \in [Sids -> Nat]
    BY <1>3 DEF IInv, TypeOK
  <2> QED BY <1>3, <2>1, <2>2, EndKeepsCalls
<1>9. TypeOK'
  BY <1>1, <1>2, <1>3, <1>8 DEF IInv, TypeOK
<1>10. NothingBeforeLogin'
  <2>1. \A r \in Sids : r # s => counter'[r] = counter[r]
    BY <1>3 DEF IInv, TypeOK
  <2>2. \A r \in Sids : ~Created(r)' => r # s /\ ~Created(r)
    BY <1>4, <1>7 DEF Created
  <2>3. \A r \in present' : Created(r)'
    BY <1>3, <1>4, <1>7 DEF IInv, TypeOK, NothingBeforeLogin, Created
  <2>4. \A r \in Sids : ~Created(r)' => ~revoked'[r] /\ counter'[r] = 0 /\ \A k \in Jtis : issued'[k] # r
    BY <1>3, <1>5, <2>1, <2>2 DEF IInv, NothingBeforeLogin
  <2>5. \A k \in Jtis : Unissued(k)' => consumed'[k] = 0
    BY <1>2, <1>5, <1>6, <1>7 DEF IInv, NothingBeforeLogin, Unissued
  <2> QED BY <2>3, <2>4, <2>5 DEF NothingBeforeLogin
<1>11. ConsumedOnce'
  <2>1. \A r \in present : r # s =>
          /\ digest'[r] = digest[r] /\ digest[r] \in Jtis /\ digest[r] # j /\ digest[r] # t
          /\ issued[digest[r]] = r /\ consumed[digest[r]] = 0
    BY <1>1, <1>2, <1>4, NoSidAssumption
       DEF IInv, TypeOK, ConsumedOnce, NothingBeforeLogin, Created, Unissued
  <2>2. \A k \in Jtis : consumed'[k] <= 1
    BY <1>6 DEF IInv, ConsumedOnce
  <2>3. \A r \in present : issued'[digest'[r]] = r /\ consumed'[digest'[r]] = 0
    BY <1>2, <1>4, <1>5, <1>6, <1>7, <2>1 DEF IInv, TypeOK
  <2> QED BY <1>3, <2>2, <2>3 DEF ConsumedOnce
<1>12. RevocationsRecorded' /\ ReusedAreDead'
  BY <1>3, <1>4, <1>7 DEF IInv, TypeOK, RevocationsRecorded, ReusedAreDead, Created
<1>13. CountsExact'
  <2>1. \A r \in Sids : r # s => Exchanged(r)' = Exchanged(r) /\ counter'[r] = counter[r]
    BY <1>1, <1>2, <1>3, <1>5, <1>6, <1>7, NoSidAssumption DEF Exchanged, Unissued, IInv, TypeOK
  <2>2. Exchanged(s)' = Exchanged(s) \cup {t}
    BY <1>1, <1>2, <1>5, <1>6, <1>7 DEF Exchanged
  <2>3. t \notin Exchanged(s)
    BY <1>2 DEF Exchanged
  <2>4. IsFiniteSet(Exchanged(s)) /\ counter[s] = Cardinality(Exchanged(s))
    BY <1>2 DEF IInv, CountsExact
  <2>5. IsFiniteSet(Exchanged(s) \cup {t}) /\ Cardinality(Exchanged(s) \cup {t}) = Cardinality(Exchanged(s)) + 1
    BY <2>3, <2>4, FS_AddElement
  <2>6. counter'[s] = counter[s] + 1
    BY <1>2, <1>3 DEF IInv, TypeOK
  <2>7. \A r \in Sids : r # s => IsFiniteSet(Exchanged(r)') /\ counter'[r] = Cardinality(Exchanged(r)')
    BY <2>1 DEF IInv, CountsExact
  <2>8. IsFiniteSet(Exchanged(s)') /\ counter'[s] = Cardinality(Exchanged(s)')
    BY <2>2, <2>4, <2>5, <2>6
  <2> QED BY <2>7, <2>8 DEF CountsExact
<1> QED BY <1>8, <1>9, <1>10, <1>11, <1>12, <1>13 DEF IInv

\* The two revocations: at most one live session dies, and is recorded as it does.
LEMMA RevocationPreserves ==
  ASSUME IInv, NEW c \in Threads, NEW s, EndCall(c),
         UNCHANGED <<now, present, digest, expires, counter, issued, consumed>>,
         \/ /\ s \in present /\ ~revoked[s]
            /\ revoked' = [revoked EXCEPT ![s] = TRUE]
            /\ audits' = [audits EXCEPT ![s] = @ + 1]
         \/ UNCHANGED <<revoked, audits>>,
         reused' \subseteq Sids,
         \A r \in reused' \ reused : Created(r) /\ (r \notin present \/ revoked'[r])
  PROVE  IInv'
<1>1. revoked' \in [Sids -> BOOLEAN] /\ audits' \in [Sids -> Nat]
      /\ \A r \in Sids : revoked[r] => revoked'[r]
  <2>1. CASE UNCHANGED <<revoked, audits>>
    BY <2>1 DEF IInv, TypeOK
  <2>2. CASE /\ s \in present
             /\ revoked' = [revoked EXCEPT ![s] = TRUE]
             /\ audits' = [audits EXCEPT ![s] = @ + 1]
    BY <2>2 DEF IInv, TypeOK
  <2> QED BY <2>1, <2>2
<1>2. CallsWellFormed' /\ op' \in [Threads -> Op]
  <2>1. expires' \in [Sids -> Nat] /\ \A r \in Sids : Created(r) => Created(r)' /\ expires'[r] = expires[r]
    BY DEF IInv, TypeOK, Created
  <2> QED BY <2>1, EndKeepsCalls
<1>3. TypeOK'
  BY <1>1, <1>2 DEF IInv, TypeOK
<1>4. NothingBeforeLogin'
  BY DEF IInv, TypeOK, NothingBeforeLogin, Created, Unissued
<1>5. ConsumedOnce'
  BY DEF IInv, ConsumedOnce
<1>6. RevocationsRecorded'
  BY DEF IInv, TypeOK, RevocationsRecorded
<1>7. ReusedAreDead'
  BY <1>1 DEF IInv, TypeOK, ReusedAreDead, Created
<1>8. CountsExact'
  <2>1. \A r : Exchanged(r)' = Exchanged(r)
    BY DEF Exchanged
  <2> QED BY <2>1 DEF IInv, CountsExact
<1> QED BY <1>2, <1>3, <1>4, <1>5, <1>6, <1>7, <1>8 DEF IInv

-----------------------------------------------------------------------------
LEMMA NextIInv == IInv /\ [Next]_vars => IInv'
<1> SUFFICES ASSUME IInv, [Next]_vars PROVE IInv'
  OBVIOUS
<1>0. \A c \in Callers : c \in Threads
  BY DEF Threads
<1>1. CASE Tick
  <2>1. now' \in Times
    BY <1>1, MaxTimeAssumption DEF Tick, IInv, TypeOK, Times
  <2> QED BY <1>1, <2>1, ReadPreserves DEF Tick, IInv, TypeOK, CallsWellFormed
<1>2. CASE BeginJob
  BY <1>2, BeginCleanupPreserves DEF BeginJob, Threads
<1>3. ASSUME NEW c \in Callers, BeginLogin(c) PROVE IInv'
  BY <1>0, <1>3, BeginCleanupPreserves DEF BeginLogin
<1>4. ASSUME NEW c \in Callers, NEW j \in Jtis, BeginRefresh(c, j) PROVE IInv'
  BY <1>0, <1>4, BeginCleanupPreserves DEF BeginRefresh
<1>5. ASSUME NEW c \in Callers, SkipCleanup(c) PROVE IInv'
  <2> DEFINE o == [op[c] EXCEPT !.stage = "ready", !.doomed = {}]
  <2>1. o \in Op /\ o.stage = "ready"
    BY <1>0 DEF IInv, TypeOK, Op, Stages
  <2>2. op' = [op EXCEPT ![c] = o] /\ UNCHANGED <<now, rows, history>>
    BY <1>5 DEF SkipCleanup
  <2> HIDE DEF o
  <2> QED BY <1>0, <2>1, <2>2, CallPreserves
<1>6. ASSUME NEW c \in Callers, ReadSession(c) PROVE IInv'
  <2> DEFINE s == issued[op[c].jti]
             o == IF ~Live(s, now) THEN Idle
                  ELSE [op[c] EXCEPT !.sid = s, !.at = now,
                                     !.stage = IF digest[s] = op[c].jti THEN "matched" ELSE "reuse"]
  <2>1. op' = [op EXCEPT ![c] = o] /\ UNCHANGED <<now, rows, history>>
    BY <1>0, <1>6 DEF ReadSession, IInv, TypeOK
  <2>2. o \in Op /\ (o.stage \in {"matched", "lost", "reuse"} =>
                       o.sid \in Sids /\ Created(o.sid) /\ expires[o.sid] > o.at)
    <3>1. CASE ~Live(s, now)
      BY <3>1, IdleType
    <3>2. CASE Live(s, now)
      <4>1. s \in Sids /\ Created(s) /\ expires[s] > now /\ now \in Times
        BY <3>2 DEF Live, IInv, TypeOK, NothingBeforeLogin
      <4>2. op[c] \in Op
        BY <1>0 DEF IInv, TypeOK
      <4>3. o = [op[c] EXCEPT !.sid = s, !.at = now,
                              !.stage = IF digest[s] = op[c].jti THEN "matched" ELSE "reuse"]
        BY <3>2
      <4> HIDE DEF s
      <4>4. o.sid = s /\ o.at = now
        BY <4>2, <4>3 DEF Op
      <4>5. o \in Op
        BY <4>1, <4>2, <4>3 DEF Op, Stages
      <4> QED BY <4>1, <4>4, <4>5
    <3> QED BY <3>1, <3>2
  <2> HIDE DEF o
  <2> QED BY <1>0, <2>1, <2>2, CallPreserves
<1>7. ASSUME NEW c \in Callers, LoseRotation(c) \/ ReadAfterLoss(c) PROVE IInv'
  <2>1. /\ op[c].stage \in {"matched", "lost"} /\ UNCHANGED <<now, rows, history>>
        /\ EndCall(c) \/ Goto(c, "lost") \/ Goto(c, "reuse")
    BY <1>7 DEF LoseRotation, ReadAfterLoss, At
  <2>2. op[c] \in Op /\ op[c].sid \in Sids /\ Created(op[c].sid) /\ expires[op[c].sid] > op[c].at
    BY <1>0, <2>1 DEF IInv, TypeOK, CallsWellFormed
  <2>3. CASE EndCall(c)
    BY <1>0, <2>1, <2>3, IdleType, CallPreserves DEF EndCall
  <2>4. ASSUME NEW st \in {"lost", "reuse"}, Goto(c, st) PROVE IInv'
    <3> DEFINE o == [op[c] EXCEPT !.stage = st]
    <3>1. o \in Op /\ o.sid = op[c].sid /\ o.at = op[c].at
      BY <2>2 DEF Op, Stages
    <3>2. op' = [op EXCEPT ![c] = o]
      BY <2>4 DEF Goto
    <3> HIDE DEF o
    <3> QED BY <1>0, <2>1, <2>2, <3>1, <3>2, CallPreserves
  <2> QED BY <2>1, <2>3, <2>4
<1>8. ASSUME NEW c \in Callers, NEW s \in Sids, BeginLogout(c, s) \/ BeginRevoke(c, s) PROVE IInv'
  <2>1. PICK call \in {"logout", "revoke"} :
          op' = [op EXCEPT ![c] = [Idle EXCEPT !.call = call, !.stage = "revoking", !.sid = s, !.at = now]]
    BY <1>8 DEF BeginLogout, BeginRevoke
  <2> DEFINE o == [Idle EXCEPT !.call = call, !.stage = "revoking", !.sid = s, !.at = now]
  <2>2. o \in Op /\ o.stage = "revoking"
    BY IdleType DEF Idle, Op, Calls, Stages, IInv, TypeOK
  <2>3. op' = [op EXCEPT ![c] = o] /\ UNCHANGED <<now, rows, history>>
    BY <1>8, <2>1 DEF BeginLogout, BeginRevoke
  <2> HIDE DEF o
  <2> QED BY <1>0, <2>2, <2>3, CallPreserves
<1>9. ASSUME NEW c \in Callers, RevokeForReuse(c) PROVE IInv'
  <2> DEFINE s == op[c].sid
  <2>1. s \in Sids /\ Created(s) /\ expires[s] > op[c].at
    BY <1>0, <1>9 DEF RevokeForReuse, At, IInv, CallsWellFormed
  <2>2. /\ EndCall(c) /\ reused' = reused \cup {s}
        /\ UNCHANGED <<now, present, digest, expires, counter, issued, consumed>>
        /\ \/ /\ Live(s, op[c].at)
              /\ revoked' = [revoked EXCEPT ![s] = TRUE]
              /\ audits' = [audits EXCEPT ![s] = @ + 1]
           \/ ~Live(s, op[c].at) /\ UNCHANGED <<revoked, audits>>
    BY <1>9 DEF RevokeForReuse
  <2>3. s \notin present \/ revoked'[s]
    BY <2>1, <2>2 DEF Live, IInv, TypeOK
  <2>4. \/ /\ s \in present /\ ~revoked[s]
           /\ revoked' = [revoked EXCEPT ![s] = TRUE]
           /\ audits' = [audits EXCEPT ![s] = @ + 1]
        \/ UNCHANGED <<revoked, audits>>
    BY <2>2 DEF Live
  <2>5. reused' \subseteq Sids /\ \A r \in reused' \ reused : Created(r) /\ (r \notin present \/ revoked'[r])
    BY <2>1, <2>2, <2>3 DEF IInv, TypeOK
  <2> HIDE DEF s
  <2> QED BY <1>0, <2>2, <2>4, <2>5, RevocationPreserves
<1>10. ASSUME NEW c \in Callers, RevokeSession(c) PROVE IInv'
  <2>1. \/ /\ op[c].sid \in present /\ ~revoked[op[c].sid]
           /\ revoked' = [revoked EXCEPT ![op[c].sid] = TRUE]
           /\ audits' = [audits EXCEPT ![op[c].sid] = @ + 1]
        \/ UNCHANGED <<revoked, audits>>
    BY <1>10 DEF RevokeSession, Revocable
  <2>2. /\ EndCall(c) /\ UNCHANGED <<now, present, digest, expires, counter, issued, consumed>>
        /\ reused' \subseteq Sids /\ reused' \ reused = {}
    BY <1>10 DEF RevokeSession, IInv, TypeOK
  <2> QED BY <1>0, <2>1, <2>2, RevocationPreserves
<1>11. ASSUME NEW c \in Threads, Abort(c) PROVE IInv'
  BY <1>11, IdleType, CallPreserves DEF Abort, EndCall
<1>12. CASE UNCHANGED vars
  BY <1>12, ReadPreserves DEF vars, rows, history, IInv, TypeOK, CallsWellFormed
<1> QED
  BY <1>1, <1>2, <1>3, <1>4, <1>5, <1>6, <1>7, <1>8, <1>9, <1>10, <1>11, <1>12,
     DeletePreserves, CreatePreserves, RotatePreserves DEF Next

LEMMA Invariance == Spec => []IInv
<1> QED BY InitIInv, NextIInv, PTL DEF Spec

-----------------------------------------------------------------------------
\* Every variable keeps its type: the rows auth_session_service.py writes.
THEOREM TypesHold == Spec => []TypeOK
<1>1. IInv => TypeOK
  BY DEF IInv
<1> QED BY <1>1, Invariance, PTL

\* However many refreshes race, a refresh token is exchanged at most once, and the
\* token a session accepts next was never exchanged (rotate_refresh_token).
THEOREM TokensAreConsumedOnce == Spec => []ConsumedOnce
<1>1. IInv => ConsumedOnce
  BY DEF IInv
<1> QED BY <1>1, Invariance, PTL

\* rotation_counter counts exactly the tokens that were exchanged.
THEOREM CountersAddUp == Spec => []RotationsAddUp
<1>1. IInv => RotationsAddUp
  BY DEF IInv, TypeOK, CountsExact, RotationsAddUp, Exchanged
<1> QED BY <1>1, Invariance, PTL

\* A session in which a stale token was refused is revoked or gone (_revoke_for_reuse).
THEOREM ReuseKillsTheSession == Spec => []ReuseIsFatal
<1>1. IInv => ReuseIsFatal
  BY DEF IInv, ReusedAreDead, ReuseIsFatal
<1> QED BY <1>1, Invariance, PTL

\* A revocation leaves exactly one record, whoever races for it (revoke_session).
THEOREM RevocationIsRecordedOnce == Spec => []RevocationAuditedOnce
<1>1. IInv => RevocationAuditedOnce
  BY DEF IInv, TypeOK, RevocationsRecorded, RevocationAuditedOnce
<1> QED BY <1>1, Invariance, PTL

\* Tokens are exchanged once and counted, reuse ends the session, and its end is
\* recorded once: what a session promises, for any number of racing callers.
THEOREM SessionsStaySound == Spec => []SessionsAreSound
<1>1. ConsumedOnce /\ RotationsAddUp /\ ReuseIsFatal /\ RevocationAuditedOnce
      => SessionsAreSound
  BY DEF SessionsAreSound
<1> QED
  BY <1>1, TokensAreConsumedOnce, CountersAddUp, ReuseKillsTheSession,
     RevocationIsRecordedOnce, PTL

\* Nothing takes a revocation back, rotates a revoked session or lengthens its life.
THEOREM RevocationIsFinal == Spec => RevokedIsFinal
<1> DEFINE Final == \A s \in present :
              /\ s \in present' => expires'[s] = expires[s]
              /\ revoked[s] => /\ {j \in Jtis : issued'[j] = s} = {j \in Jtis : issued[j] = s}
                               /\ s \in present' => revoked'[s]
<1>1. IInv /\ [Next]_vars => [Final]_vars
  <2> SUFFICES ASSUME IInv, Next, NEW s \in present
               PROVE  /\ s \in present' => expires'[s] = expires[s]
                      /\ revoked[s] => /\ {j \in Jtis : issued'[j] = s} = {j \in Jtis : issued[j] = s}
                                       /\ s \in present' => revoked'[s]
    OBVIOUS
  <2>1. ASSUME NEW c \in Callers, CreateSession(c)
        PROVE  expires'[s] = expires[s] /\ {j \in Jtis : issued'[j] = s} = {j \in Jtis : issued[j] = s}
               /\ revoked' = revoked
    <3>1. PICK r \in Sids, j \in Jtis :
            /\ NeverUsed(r) /\ Unissued(j)
            /\ expires' = [expires EXCEPT ![r] = op[c].at + Lifetime]
            /\ issued' = [issued EXCEPT ![j] = r]
      BY <2>1 DEF CreateSession
    <3>2. r # s /\ s \in Sids /\ s # NoSid /\ s # r
      BY <3>1, NoSidAssumption DEF NeverUsed, IInv, TypeOK
    <3> QED BY <2>1, <3>1, <3>2 DEF CreateSession, Unissued, IInv, TypeOK
  <2>2. ASSUME NEW c \in Callers, Rotate(c)
        PROVE  /\ expires' = expires /\ revoked' = revoked
               /\ revoked[s] => {j \in Jtis : issued'[j] = s} = {j \in Jtis : issued[j] = s}
    <3>1. PICK j \in Jtis : Unissued(j) /\ issued' = [issued EXCEPT ![j] = op[c].sid]
      BY <2>2 DEF Rotate
    <3>2. ~revoked[op[c].sid] /\ s # NoSid
      BY <2>2, NoSidAssumption DEF Rotate, Swaps, Live, IInv, TypeOK
    <3> QED BY <2>2, <3>1, <3>2 DEF Rotate, Unissued, IInv, TypeOK
  <2>3. ASSUME NEW c \in Callers, RevokeForReuse(c) \/ RevokeSession(c)
        PROVE  expires' = expires /\ issued' = issued /\ (revoked[s] => revoked'[s])
    BY <2>3 DEF RevokeForReuse, RevokeSession, IInv, TypeOK
  <2>4. ASSUME NEW c \in Threads, DeleteExpired(c) \/ Abort(c)
        PROVE  expires' = expires /\ issued' = issued /\ revoked' = revoked
    BY <2>4 DEF DeleteExpired, Abort, rows, history
  <2>5. CASE Tick \/ BeginJob
    BY <2>5 DEF Tick, BeginJob, BeginCleanup, rows, history
  <2>6. ASSUME NEW c \in Callers,
               \/ BeginLogin(c) \/ SkipCleanup(c) \/ ReadSession(c) \/ LoseRotation(c) \/ ReadAfterLoss(c)
               \/ \E j \in Jtis : BeginRefresh(c, j)
               \/ \E r \in Sids : BeginLogout(c, r) \/ BeginRevoke(c, r)
        PROVE  expires' = expires /\ issued' = issued /\ revoked' = revoked
    BY <2>6 DEF BeginLogin, SkipCleanup, ReadSession, LoseRotation, ReadAfterLoss, BeginRefresh,
                BeginLogout, BeginRevoke, BeginCleanup, rows, history
  <2> QED BY <2>1, <2>2, <2>3, <2>4, <2>5, <2>6 DEF Next
<1> QED BY <1>1, Invariance, PTL DEF Spec, RevokedIsFinal


-----------------------------------------------------------------------------
(* The rows a call is about to delete were expired when it selected them,   *)
(* and neither the clock nor an expiry goes back.                           *)

DoomedExpired ==
    \A c \in Threads : \A s \in op[c].doomed : s \in Sids /\ Created(s) /\ expires[s] <= now

LEMMA ExpiryStays ==
  ASSUME IInv, Next
  PROVE  now <= now' /\ \A s \in Sids : Created(s) => Created(s)' /\ expires'[s] = expires[s]
<1>1. now \in Nat
  BY MaxTimeAssumption DEF IInv, TypeOK, Times
<1>2. ASSUME NEW c \in Callers, CreateSession(c)
      PROVE  now' = now /\ \A s \in Sids : Created(s) => Created(s)' /\ expires'[s] = expires[s]
  <2>1. PICK r \in Sids, j \in Jtis :
          /\ NeverUsed(r)
          /\ digest' = [digest EXCEPT ![r] = j]
          /\ expires' = [expires EXCEPT ![r] = op[c].at + Lifetime]
    BY <1>2 DEF CreateSession
  <2> QED BY <1>2, <2>1 DEF CreateSession, NeverUsed, Created, IInv, TypeOK
<1>3. ASSUME NEW c \in Callers, Rotate(c)
      PROVE  now' = now /\ \A s \in Sids : Created(s) => Created(s)' /\ expires'[s] = expires[s]
  <2>1. PICK j \in Jtis : digest' = [digest EXCEPT ![op[c].sid] = j]
    BY <1>3 DEF Rotate
  <2> QED BY <1>3, <2>1, NoJtiAssumption DEF Rotate, Created, IInv, TypeOK
<1>4. ASSUME NEW c \in Callers, RevokeForReuse(c) \/ RevokeSession(c)
      PROVE  now' = now /\ digest' = digest /\ expires' = expires
  BY <1>4 DEF RevokeForReuse, RevokeSession
<1>5. ASSUME NEW c \in Threads, DeleteExpired(c) \/ Abort(c)
      PROVE  now' = now /\ digest' = digest /\ expires' = expires
  BY <1>5 DEF DeleteExpired, Abort, rows
<1>6. CASE Tick
  BY <1>1, <1>6 DEF Tick, rows, Created
<1>7. CASE BeginJob
  BY <1>1, <1>7 DEF BeginJob, BeginCleanup, rows, Created
<1>8. ASSUME NEW c \in Callers,
             \/ BeginLogin(c) \/ SkipCleanup(c) \/ ReadSession(c) \/ LoseRotation(c) \/ ReadAfterLoss(c)
             \/ \E j \in Jtis : BeginRefresh(c, j)
             \/ \E r \in Sids : BeginLogout(c, r) \/ BeginRevoke(c, r)
      PROVE  now' = now /\ digest' = digest /\ expires' = expires
  BY <1>8 DEF BeginLogin, SkipCleanup, ReadSession, LoseRotation, ReadAfterLoss, BeginRefresh,
              BeginLogout, BeginRevoke, BeginCleanup, rows
<1> QED BY <1>1, <1>2, <1>3, <1>4, <1>5, <1>6, <1>7, <1>8 DEF Next, Created

LEMMA SelectionExpired ==
  ASSUME IInv, NEW c \in Threads, NEW call, NEW j, BeginCleanup(c, call, j), NEW b \in Threads
  PROVE  op'[b].doomed = op[b].doomed \/ op'[b].doomed \subseteq Expired(now)
<1>1. PICK d \in SUBSET present :
        /\ Selected(d, now)
        /\ op' = [op EXCEPT ![c] = [call |-> call, stage |-> "cleaning", sid |-> NoSid,
                                    jti |-> j, at |-> now, doomed |-> d]]
  BY DEF BeginCleanup
<1>2. d \subseteq Expired(now)
  BY <1>1 DEF Selected
<1> QED BY <1>1, <1>2 DEF IInv, TypeOK

LEMMA DoomedWereExpired ==
  ASSUME IInv, Next, NEW b \in Threads
  PROVE  op'[b].doomed \subseteq op[b].doomed \/ op'[b].doomed \subseteq Expired(now)
<1> DEFINE Fewer == op'[b].doomed \subseteq op[b].doomed
<1>0. Idle.doomed = {} /\ \A s \in Sids : [Idle EXCEPT !.call = "logout", !.stage = "revoking", !.sid = s, !.at = now].doomed = {}
                       /\ [Idle EXCEPT !.call = "revoke", !.stage = "revoking", !.sid = s, !.at = now].doomed = {}
  BY DEF Idle
<1>1. ASSUME NEW c \in Threads, EndCall(c) PROVE Fewer
  BY <1>0, <1>1 DEF EndCall, IInv, TypeOK
<1>2. ASSUME NEW c \in Threads, NEW stage, Goto(c, stage) PROVE Fewer
  BY <1>2 DEF Goto, IInv, TypeOK, Op
<1>3. ASSUME NEW c \in Threads, op' = [op EXCEPT ![c].stage = "ready", ![c].doomed = {}] PROVE Fewer
  BY <1>3 DEF IInv, TypeOK, Op
<1>4. CASE Tick
  BY <1>4 DEF Tick
<1>5. CASE BeginJob
  BY <1>5, SelectionExpired DEF BeginJob, Threads
<1>6. ASSUME NEW c \in Callers, BeginLogin(c) \/ \E j \in Jtis : BeginRefresh(c, j)
      PROVE  Fewer \/ op'[b].doomed \subseteq Expired(now)
  BY <1>6, SelectionExpired DEF BeginLogin, BeginRefresh, Threads
<1>7. ASSUME NEW c \in Callers,
             CreateSession(c) \/ Rotate(c) \/ RevokeForReuse(c) \/ RevokeSession(c)
      PROVE  Fewer
  BY <1>1, <1>7 DEF CreateSession, Rotate, RevokeForReuse, RevokeSession, Threads
<1>8. ASSUME NEW c \in Callers, SkipCleanup(c) \/ LoseRotation(c) \/ ReadAfterLoss(c) PROVE Fewer
  BY <1>1, <1>2, <1>3, <1>8 DEF SkipCleanup, LoseRotation, ReadAfterLoss, Threads
<1>9. ASSUME NEW c \in Callers, ReadSession(c) PROVE Fewer
  <2>1. c \in Threads
    BY DEF Threads
  <2>2. CASE ~Live(issued[op[c].jti], now)
    BY <1>0, <1>9, <2>1, <2>2 DEF ReadSession, IInv, TypeOK
  <2>3. CASE Live(issued[op[c].jti], now)
    BY <1>9, <2>1, <2>3 DEF ReadSession, IInv, TypeOK, Op
  <2> QED BY <2>2, <2>3
<1>10. ASSUME NEW c \in Callers, NEW s \in Sids, BeginLogout(c, s) \/ BeginRevoke(c, s) PROVE Fewer
  <2>1. c \in Threads
    BY DEF Threads
  <2> QED BY <1>0, <1>10, <2>1 DEF BeginLogout, BeginRevoke, IInv, TypeOK
<1>11. ASSUME NEW c \in Threads, DeleteExpired(c) \/ Abort(c) PROVE Fewer
  BY <1>1, <1>3, <1>11 DEF DeleteExpired, Abort
<1> HIDE DEF Fewer
<1>12. Fewer \/ op'[b].doomed \subseteq Expired(now)
  BY <1>4, <1>5, <1>6, <1>7, <1>8, <1>9, <1>10, <1>11 DEF Next, Fewer
<1> QED BY <1>12 DEF Fewer

LEMMA NextDoomed == IInv /\ DoomedExpired /\ [Next]_vars => DoomedExpired'
<1> SUFFICES ASSUME IInv, DoomedExpired, [Next]_vars PROVE DoomedExpired'
  OBVIOUS
<1>1. CASE Next
  <2> SUFFICES ASSUME NEW b \in Threads, NEW s \in op'[b].doomed
               PROVE  s \in Sids /\ Created(s)' /\ expires'[s] <= now'
    BY DEF DoomedExpired
  <2>1. s \in Sids /\ Created(s) /\ expires[s] <= now
    BY <1>1, DoomedWereExpired DEF DoomedExpired, Expired, IInv, TypeOK, NothingBeforeLogin
  <2>2. now \in Nat /\ now' \in Nat /\ expires[s] \in Nat
    BY <2>1, <1>1, NextIInv, MaxTimeAssumption DEF IInv, TypeOK, Times
  <2> QED BY <1>1, <2>1, <2>2, ExpiryStays
<1>2. CASE UNCHANGED vars
  BY <1>2 DEF DoomedExpired, Created, vars, rows
<1> QED BY <1>1, <1>2

\* cleanup_expired deletes by identifier what it selected earlier: it still removes no
\* session that has not run out, revoked or not, however late the DELETE comes.
THEOREM CleanupIsNotEarly == Spec => KeptUntilExpiry
<1> DEFINE Kept == \A s \in present \ present' : expires[s] <= now
<1>1. Init => DoomedExpired
  BY DEF Init, DoomedExpired, Idle
<1>2. Spec => []DoomedExpired
  BY <1>1, NextDoomed, Invariance, PTL DEF Spec
<1>3. DoomedExpired /\ [Next]_vars => [Kept]_vars
  <2> SUFFICES ASSUME DoomedExpired, Next, NEW s \in present \ present' PROVE expires[s] <= now
    OBVIOUS
  <2>1. PICK c \in Threads : DeleteExpired(c)
    BY DEF Next, Tick, BeginJob, BeginLogin, SkipCleanup, CreateSession, ReadSession, Rotate,
           LoseRotation, ReadAfterLoss, RevokeForReuse, RevokeSession, BeginRefresh, BeginLogout,
           BeginRevoke, BeginCleanup, Abort, rows
  <2> QED BY <2>1 DEF DeleteExpired, DoomedExpired
<1> QED BY <1>2, <1>3, PTL DEF Spec, KeptUntilExpiry

=============================================================================
