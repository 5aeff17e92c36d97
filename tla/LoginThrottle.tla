---------------------------- MODULE LoginThrottle ----------------------------
(***************************************************************************)
(* The failed logins of one identifier, as routers/auth.py counts them.    *)
(* The lock is held while the lockout is looked at and while a failure or  *)
(* a success is registered, and let go while the password is verified.     *)
(* A request keeps the time at which it began.                             *)
(***************************************************************************)
EXTENDS Naturals, Sequences, FiniteSets

CONSTANTS
    Logins,           \* requests at work
    LoginAttempts,    \* _MAX_ATTEMPTS
    LoginWindow,      \* _WINDOW
    LockoutDuration,  \* _LOCKOUT_DURATION
    LtMaxTime         \* bound: the clock

ASSUME ThrottleAssumption ==
    /\ LoginAttempts \in Nat \ {0} /\ LoginWindow \in Nat /\ LockoutDuration \in Nat \ {0}
    /\ LtMaxTime \in Nat \ {0}

VARIABLES
    ltClock,
    ltAttempts,   \* _failed_attempts: times, in the order they were registered
    ltLockout,    \* _lockouts: the time it ends, 0 if there is none
    ltCalls,      \* what each request does, and when it began
    ltFailed,     \* witness: failures since the last success, up to the limit
    ltAfter       \* witness: the failures registered during the lockout

ltVars == <<ltClock, ltAttempts, ltLockout, ltCalls, ltFailed, ltAfter>>

LtRests == [step |-> "idle", now |-> 0]

LtInit ==
    /\ ltClock = 1
    /\ ltAttempts = <<>> /\ ltLockout = 0
    /\ ltCalls = [l \in Logins |-> LtRests]
    /\ ltFailed = 0 /\ ltAfter = 0

LtAt(l, step) == ltCalls[l].step = step
LockedAt(time) == ltLockout > time

LtTick ==
    /\ ltClock < LtMaxTime
    /\ ltClock' = ltClock + 1
    /\ ltAfter' = IF LockedAt(ltClock') THEN ltAfter ELSE 0
    /\ UNCHANGED <<ltAttempts, ltLockout, ltCalls, ltFailed>>

\* The time is taken before the expired sessions are cleaned up.
LtAsk(l) ==
    /\ LtAt(l, "idle")
    /\ ltCalls' = [ltCalls EXCEPT ![l] = [step |-> "check", now |-> ltClock]]
    /\ UNCHANGED <<ltClock, ltAttempts, ltLockout, ltFailed, ltAfter>>

\* Attempts are dropped from the front as long as they are too old.
Pruned(attempts, now) ==
    LET old == {i \in DOMAIN attempts : \A j \in 1..i : attempts[j] + LoginWindow < now}
    IN  SubSeq(attempts, Cardinality(old) + 1, Len(attempts))

\* A slip: the lockout is not looked at.
LtCheckNever(l) ==
    /\ LtAt(l, "check")
    /\ ltAttempts' = Pruned(ltAttempts, ltCalls[l].now)
    /\ ltCalls' = [ltCalls EXCEPT ![l].step = "verify"]
    /\ UNCHANGED <<ltClock, ltLockout, ltFailed, ltAfter>>

LtCheck(l) ==
    /\ LtAt(l, "check")
    /\ IF LockedAt(ltCalls[l].now)
       THEN /\ ltCalls' = [ltCalls EXCEPT ![l] = LtRests]
            /\ UNCHANGED ltAttempts
       ELSE /\ ltCalls' = [ltCalls EXCEPT ![l].step = "verify"]
            /\ ltAttempts' = Pruned(ltAttempts, ltCalls[l].now)
    /\ UNCHANGED <<ltClock, ltLockout, ltFailed, ltAfter>>

LtFail(l) ==
    LET attempts == Append(ltAttempts, ltCalls[l].now)
        full == Len(attempts) >= LoginAttempts
    IN  /\ LtAt(l, "verify")
        /\ ltAttempts' = IF full THEN <<>> ELSE attempts
        /\ ltLockout' = IF full THEN ltCalls[l].now + LockoutDuration ELSE ltLockout
        /\ ltCalls' = [ltCalls EXCEPT ![l] = LtRests]
        /\ ltFailed' = IF ltFailed < LoginAttempts THEN ltFailed + 1 ELSE ltFailed
        /\ ltAfter' = IF LockedAt(ltClock) THEN ltAfter + 1 ELSE 0
        /\ UNCHANGED ltClock

\* A slip: the attempts are kept.
LtSucceedKeeping(l) ==
    /\ LtAt(l, "verify")
    /\ ltLockout' = 0
    /\ ltCalls' = [ltCalls EXCEPT ![l] = LtRests]
    /\ ltFailed' = 0 /\ ltAfter' = 0
    /\ UNCHANGED <<ltClock, ltAttempts>>

LtSucceed(l) ==
    /\ LtAt(l, "verify")
    /\ ltAttempts' = <<>> /\ ltLockout' = 0
    /\ ltCalls' = [ltCalls EXCEPT ![l] = LtRests]
    /\ ltFailed' = 0 /\ ltAfter' = 0
    /\ UNCHANGED ltClock

LtNext ==
    \/ LtTick
    \/ \E l \in Logins : LtAsk(l) \/ LtCheck(l) \/ LtFail(l) \/ LtSucceed(l)

LtSpec == LtInit /\ [][LtNext]_ltVars

-----------------------------------------------------------------------------
\* The types of the variables.
LtTypeOK ==
    /\ ltClock \in 1..LtMaxTime
    /\ ltAttempts \in Seq(1..LtMaxTime) /\ Len(ltAttempts) < LoginAttempts
    /\ ltLockout \in 0..(LtMaxTime + LockoutDuration)
    /\ ltCalls \in [Logins -> [step: {"idle", "check", "verify"}, now: 0..LtMaxTime]]
    /\ ltFailed \in 0..LoginAttempts /\ ltAfter \in Nat

\* Whoever is locked out has failed as often as the limit says since the last
\* success, in whatever order failures and successes that overlap are registered.
LockoutIsEarned == LockedAt(ltClock) => ltFailed = LoginAttempts

\* While an identifier is locked out, only requests that passed the check before the
\* lockout still fail, each once: a repeated login waits for its end.
OnlyEarlierFail(others) == ltAfter <= others
=============================================================================
