----------------------------- MODULE AuthSession -----------------------------
(***************************************************************************)
(* Authentication sessions: login, refresh-token rotation, logout,         *)
(* administrator revocation and the removal of expired rows                *)
(* (auth_session_service.py, routers/auth.py, scheduler.py).               *)
(*                                                                         *)
(* Each call takes the time once and reads rows without a lock.  Every     *)
(* write is one conditional UPDATE, INSERT or DELETE that commits by       *)
(* itself, so a step here is a read or a committed write.                  *)
(***************************************************************************)
EXTENDS Integers, FiniteSets

CONSTANTS
    Callers,       \* request threads
    Job,           \* the hourly auth-session-cleanup job
    Sids,          \* session identifiers, fresh for every login
    Jtis,          \* refresh-token identifiers, fresh for every token
    Lifetime,      \* REFRESH_SESSION_MINUTES in ticks
    MaxTime,       \* bound: the clock
    CleanupLimit,  \* DEFAULT_CLEANUP_LIMIT
    NoSid,
    NoJti

ASSUME JobAssumption == Job \notin Callers
ASSUME LifetimeAssumption == Lifetime \in Nat /\ Lifetime > 0
ASSUME MaxTimeAssumption == MaxTime \in Nat
ASSUME CleanupLimitAssumption == CleanupLimit \in Nat /\ CleanupLimit > 0
ASSUME NoSidAssumption == NoSid \notin Sids
ASSUME NoJtiAssumption == NoJti \notin Jtis

VARIABLES
    now,       \* the clock
    present,   \* sessions with an AuthSession row
    digest,    \* current_refresh_jti_digest: the token the next rotation must present
    expires,   \* expires_at
    revoked,   \* revoked_at is set
    counter,   \* rotation_counter
    issued,    \* history: the session each refresh token belongs to, NoSid before it exists
    consumed,  \* history: how many rotations a refresh token was exchanged in
    reused,    \* history: sessions a refresh was refused in for a stale token
    audits,    \* history: revocation records in the audit log, per session
    op         \* what each call has read and still has to do

rows == <<present, digest, expires, revoked, counter>>
history == <<issued, consumed, reused, audits>>
vars == <<now, present, digest, expires, revoked, counter, issued, consumed, reused, audits, op>>

Threads == Callers \cup {Job}
Times == 0..MaxTime
Calls == {"none", "login", "refresh", "logout", "revoke", "cleanup"}
Stages == {"none", "cleaning", "ready", "matched", "lost", "reuse", "revoking"}
Op == [call : Calls, stage : Stages, sid : Sids \cup {NoSid}, jti : Jtis \cup {NoJti},
       at : Times, doomed : SUBSET Sids]
Idle == [call |-> "none", stage |-> "none", sid |-> NoSid, jti |-> NoJti, at |-> 0, doomed |-> {}]

TypeOK ==
    /\ now \in Times
    /\ present \subseteq Sids
    /\ digest \in [Sids -> Jtis \cup {NoJti}]
    /\ expires \in [Sids -> Nat]
    /\ revoked \in [Sids -> BOOLEAN]
    /\ counter \in [Sids -> Nat]
    /\ issued \in [Jtis -> Sids \cup {NoSid}]
    /\ consumed \in [Jtis -> Nat]
    /\ reused \subseteq Sids
    /\ audits \in [Sids -> Nat]
    /\ op \in [Threads -> Op]

Init ==
    /\ now = 0
    /\ present = {}
    /\ digest = [s \in Sids |-> NoJti]
    /\ expires = [s \in Sids |-> 0]
    /\ revoked = [s \in Sids |-> FALSE]
    /\ counter = [s \in Sids |-> 0]
    /\ issued = [j \in Jtis |-> NoSid]
    /\ consumed = [j \in Jtis |-> 0]
    /\ reused = {}
    /\ audits = [s \in Sids |-> 0]
    /\ op = [c \in Threads |-> Idle]

-----------------------------------------------------------------------------
Unissued(j) == issued[j] = NoSid
NeverUsed(s) == s \notin present /\ digest[s] = NoJti  \* a deleted row's identifier is not drawn again
\* A mutant: a revoked session is as good as a live one.
LiveUnlessExpired(s, t) == s \in present /\ expires[s] > t
Live(s, t) == s \in present /\ ~revoked[s] /\ expires[s] > t

At(c, call, stage) == op[c].call = call /\ op[c].stage = stage
\* A mutant: a call moves to a stage no handler knows.
GotoUnknown(c, stage) == op' = [op EXCEPT ![c].stage = "refused"]
Goto(c, stage) == op' = [op EXCEPT ![c].stage = stage]
EndCall(c) == op' = [op EXCEPT ![c] = Idle]

\* The request fails or its thread dies: nothing uncommitted is left behind.
Abort(c) ==
    /\ op[c] # Idle
    /\ EndCall(c)
    /\ UNCHANGED <<now, rows, history>>

Tick ==
    /\ now < MaxTime
    /\ now' = now + 1
    /\ UNCHANGED <<rows, history, op>>

-----------------------------------------------------------------------------
(* cleanup_expired, run by the job and first thing by login and refresh.   *)

\* A mutant: revoked rows are kept for evidence.
ExpiredUnrevoked(t) == {s \in present : expires[s] <= t /\ ~revoked[s]}
\* A mutant: off by one tick.
ExpiredSoon(t) == {s \in present : expires[s] <= t + 1}
Expired(t) == {s \in present : expires[s] <= t}

\* The oldest CleanupLimit rows.
Selected(d, t) ==
    /\ d \subseteq Expired(t)
    /\ Cardinality(d) <= CleanupLimit
    /\ d # Expired(t) => Cardinality(d) = CleanupLimit
    /\ \A s \in d, r \in Expired(t) \ d : expires[s] <= expires[r]

BeginCleanup(c, call, j) ==
    /\ op[c] = Idle
    /\ \E d \in SUBSET present :
        /\ Selected(d, now)
        /\ op' = [op EXCEPT ![c] = [call |-> call, stage |-> "cleaning", sid |-> NoSid,
                                    jti |-> j, at |-> now, doomed |-> d]]
    /\ UNCHANGED <<now, rows, history>>

BeginLogin(c) == BeginCleanup(c, "login", NoJti)
BeginRefresh(c, j) == ~Unissued(j) /\ BeginCleanup(c, "refresh", j)
BeginJob == Expired(now) # {} /\ BeginCleanup(Job, "cleanup", NoJti)

\* The rows are deleted by identifier, whatever happened to them since.
DeleteExpired(c) ==
    /\ op[c].stage = "cleaning"
    /\ present' = present \ op[c].doomed
    /\ IF op[c].call = "cleanup" THEN EndCall(c)
       ELSE op' = [op EXCEPT ![c].stage = "ready", ![c].doomed = {}]
    /\ UNCHANGED <<now, digest, expires, revoked, counter, history>>

\* Without it login and refresh go on: cleanup is opportunistic.
SkipCleanup(c) ==
    /\ op[c].stage = "cleaning"
    /\ op[c].call # "cleanup"
    /\ op' = [op EXCEPT ![c].stage = "ready", ![c].doomed = {}]
    /\ UNCHANGED <<now, rows, history>>

-----------------------------------------------------------------------------
\* create_session: the row and the first refresh token.
CreateSession(c) ==
    /\ At(c, "login", "ready")
    /\ \E s \in Sids, j \in Jtis :
        /\ NeverUsed(s)
        /\ Unissued(j)
        /\ present' = present \cup {s}
        /\ digest' = [digest EXCEPT ![s] = j]
        /\ expires' = [expires EXCEPT ![s] = op[c].at + Lifetime]
        /\ issued' = [issued EXCEPT ![j] = s]
    /\ EndCall(c)
    /\ UNCHANGED <<now, revoked, counter, consumed, reused, audits>>

-----------------------------------------------------------------------------
(* rotate_refresh_token.                                                    *)

\* The session is read and the submitted digest compared with the one read.
ReadSession(c) ==
    /\ At(c, "refresh", "ready")
    /\ LET s == issued[op[c].jti] IN
       op' = [op EXCEPT ![c] = IF ~Live(s, now) THEN Idle
                               ELSE [@ EXCEPT !.sid = s, !.at = now,
                                       !.stage = IF digest[s] = op[c].jti THEN "matched" ELSE "reuse"]]
    /\ UNCHANGED <<now, rows, history>>

\* A mutant: the UPDATE does not compare the digest again.
SwapsUncompared(c) == Live(op[c].sid, op[c].at)
\* The WHERE clause of the conditional UPDATE.
Swaps(c) == Live(op[c].sid, op[c].at) /\ digest[op[c].sid] = op[c].jti

Rotate(c) ==
    /\ At(c, "refresh", "matched")
    /\ Swaps(c)
    /\ \E j \in Jtis :
        /\ Unissued(j)
        /\ digest' = [digest EXCEPT ![op[c].sid] = j]
        /\ issued' = [issued EXCEPT ![j] = op[c].sid]
    /\ counter' = [counter EXCEPT ![op[c].sid] = @ + 1]
    /\ consumed' = [consumed EXCEPT ![op[c].jti] = @ + 1]
    /\ EndCall(c)
    /\ UNCHANGED <<now, present, expires, revoked, reused, audits>>

LoseRotation(c) ==
    /\ At(c, "refresh", "matched")
    /\ ~Swaps(c)
    /\ Goto(c, "lost")
    /\ UNCHANGED <<now, rows, history>>

\* Roll back and read again: a session still alive was rotated by somebody else.
ReadAfterLoss(c) ==
    /\ At(c, "refresh", "lost")
    /\ IF Live(op[c].sid, op[c].at) THEN Goto(c, "reuse") ELSE EndCall(c)
    /\ UNCHANGED <<now, rows, history>>

\* A mutant: the token is refused and the session kept.
RefuseReuse(c) ==
    /\ At(c, "refresh", "reuse")
    /\ reused' = reused \cup {op[c].sid}
    /\ EndCall(c)
    /\ UNCHANGED <<now, rows, issued, consumed, audits>>

RevokeForReuse(c) ==
    /\ At(c, "refresh", "reuse")
    /\ LET s == op[c].sid IN
       /\ \/ /\ Live(s, op[c].at)
             /\ revoked' = [revoked EXCEPT ![s] = TRUE]
             /\ audits' = [audits EXCEPT ![s] = @ + 1]
          \/ /\ ~Live(s, op[c].at)
             /\ UNCHANGED <<revoked, audits>>
       /\ reused' = reused \cup {s}
    /\ EndCall(c)
    /\ UNCHANGED <<now, present, digest, expires, counter, issued, consumed>>

-----------------------------------------------------------------------------
(* revoke_session, for the session's own logout or an administrator.       *)

BeginLogout(c, s) ==
    /\ op[c] = Idle
    /\ Live(s, now)
    /\ op' = [op EXCEPT ![c] = [Idle EXCEPT !.call = "logout", !.stage = "revoking", !.sid = s, !.at = now]]
    /\ UNCHANGED <<now, rows, history>>

BeginRevoke(c, s) ==
    /\ op[c] = Idle
    /\ s \in present
    /\ op' = [op EXCEPT ![c] = [Idle EXCEPT !.call = "revoke", !.stage = "revoking", !.sid = s, !.at = now]]
    /\ UNCHANGED <<now, rows, history>>

\* A mutant: a session revoked in the meantime is revoked and recorded again.
RevocableAgain(s) == s \in present
Revocable(s) == s \in present /\ ~revoked[s]

RevokeSession(c) ==
    /\ op[c].stage = "revoking"
    /\ LET s == op[c].sid IN
       \/ /\ Revocable(s)
          /\ revoked' = [revoked EXCEPT ![s] = TRUE]
          /\ audits' = [audits EXCEPT ![s] = @ + 1]
       \/ /\ ~Revocable(s)
          /\ UNCHANGED <<revoked, audits>>
    /\ EndCall(c)
    /\ UNCHANGED <<now, present, digest, expires, counter, issued, consumed, reused>>

-----------------------------------------------------------------------------
Next ==
    \/ Tick
    \/ BeginJob
    \/ \E c \in Callers :
        \/ BeginLogin(c) \/ SkipCleanup(c) \/ CreateSession(c)
        \/ ReadSession(c) \/ Rotate(c) \/ LoseRotation(c) \/ ReadAfterLoss(c)
        \/ RevokeForReuse(c) \/ RevokeSession(c)
        \/ \E j \in Jtis : BeginRefresh(c, j)
        \/ \E s \in Sids : BeginLogout(c, s) \/ BeginRevoke(c, s)
    \/ \E c \in Threads : DeleteExpired(c) \/ Abort(c)

Spec == Init /\ [][Next]_vars

\* The scheduler keeps starting the job, and not every run of it fails.
LiveSpec == Spec /\ WF_vars(BeginJob) /\ SF_vars(DeleteExpired(Job))

-----------------------------------------------------------------------------
(* Properties.                                                              *)

\* A refresh token is exchanged at most once, also by two refreshes that both read
\* it as current, and the one a session accepts next was never exchanged.
ConsumedOnce ==
    /\ \A j \in Jtis : consumed[j] <= 1
    /\ \A s \in present : issued[digest[s]] = s /\ consumed[digest[s]] = 0

\* Every token but the current one was exchanged: no rotation is lost or counted twice.
RotationsAddUp ==
    \A s \in present : counter[s] = Cardinality({j \in Jtis : issued[j] = s /\ consumed[j] = 1})

\* A session in which a stale token was refused is dead by the time the refusal is
\* answered, whichever rotation, logout or cleanup ran between the read and the revocation.
ReuseIsFatal == \A s \in reused : s \notin present \/ revoked[s]

\* A revocation is recorded exactly once, however many logouts, administrators and
\* reuse detections race for it.
RevocationAuditedOnce ==
    \A s \in Sids : audits[s] <= 1 /\ (s \in present => (revoked[s] <=> audits[s] = 1))

\* The promises about the tokens and the record of a session, together.
SessionsAreSound == ConsumedOnce /\ RotationsAddUp /\ ReuseIsFatal /\ RevocationAuditedOnce

\* No rotation commits in a session already revoked, nothing takes a revocation back,
\* and no step lengthens a session's life.
RevokedIsFinal ==
    [][\A s \in present : /\ s \in present' => expires'[s] = expires[s]
                          /\ revoked[s] => /\ {j \in Jtis : issued'[j] = s} = {j \in Jtis : issued[j] = s}
                                           /\ s \in present' => revoked'[s]]_vars

\* Cleanup removes no row before its expiry, revoked or not.
KeptUntilExpiry == [][\A s \in present \ present' : expires[s] <= now]_vars

\* Every expired row is removed in the end, whatever other calls do.
ExpiredAreRemoved == \A s \in Sids : (s \in present /\ expires[s] <= now) ~> s \notin present
==============================================================================
