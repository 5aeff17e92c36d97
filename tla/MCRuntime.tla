------------------------------ MODULE MCRuntime ------------------------------
(***************************************************************************)
(* Instances for TLC of the parts that live by the scheduler, the clock    *)
(* and the network: the two scheduled jobs, the audit thread, the web      *)
(* client's session, startup with the extension registry, and the login    *)
(* throttle.  Each behaviour runs the one "focus" names.                   *)
(***************************************************************************)
EXTENDS AuthSession, ForecastPlan, WebApiSession, AuditWorker, ServiceHealth,
        LoginThrottle

CONSTANT t1

ASSUME ReloadingThread == t1 \in HsThreads

VARIABLE focus

runtimeVars == <<focus, vars, fcVars, webVars, awVars, hsVars, ltVars>>

RuntimeInit ==
    /\ focus \in {"cleanup", "refresh", "web", "audit", "reload", "probe", "login"}
    /\ Init /\ FcInit /\ WebInit /\ AwInit /\ HsInit /\ LtInit

\* Every plan is asked for without a horizon, then the job refreshes them.
RefreshStep ==
    /\ \/ \E c \in FcCallers : FcService(c) \/ FcLoseCommit(c)
       \/ \E c \in Clients, s \in Subjects : FcAsk(c, s, NoHorizon, FALSE)
       \/ \E c \in Clients : FcAnswer(c)
       \/ FcJobStep \/ FcTick \/ FcRestart
    /\ FcRemember

\* Requests reload the extensions against each other, or one against probes.
HealthStep ==
    \/ HsStartupStep \/ HsStartupLoaded \/ HsServe \/ HsShutdown
    \/ focus = "reload" /\ \E t \in Loaders : HsLoad(t)
    \/ focus = "probe" /\ (HsAsk \/ HsEvaluate \/ HsDatabaseTurns \/ \E t \in {Main, t1} : HsLoad(t))

RuntimeNext ==
    /\ UNCHANGED focus
    /\ \/ focus = "cleanup" /\ Next /\ UNCHANGED <<fcVars, webVars, awVars, hsVars, ltVars>>
       \/ focus = "refresh" /\ RefreshStep /\ UNCHANGED <<vars, webVars, awVars, hsVars, ltVars>>
       \/ focus = "web" /\ WebNext /\ UNCHANGED <<vars, fcVars, awVars, hsVars, ltVars>>
       \/ focus = "audit" /\ AwNext /\ UNCHANGED <<vars, fcVars, webVars, hsVars, ltVars>>
       \/ focus \in {"reload", "probe"} /\ HealthStep
             /\ UNCHANGED <<vars, fcVars, webVars, awVars, ltVars>>
       \/ focus = "login" /\ LtNext /\ UNCHANGED <<vars, fcVars, webVars, awVars, hsVars>>

\* The fairness of AuthSession!LiveSpec, of FcLiveSpec and of AwLiveSpec.
RuntimeSpec ==
    /\ RuntimeInit /\ [][RuntimeNext]_runtimeVars
    /\ WF_vars(BeginJob) /\ SF_vars(DeleteExpired(Job))
    /\ WF_fcVars(focus = "refresh" /\ FcJobWork)
    /\ WF_awVars(focus = "audit" /\ AwWork)

-----------------------------------------------------------------------------
\* The types of all variables.
RuntimeTypeOK == FcTypeOK /\ WebTypeOK /\ AwTypeOK /\ HsTypeOK /\ LtTypeOK

\* What the browser shows is its session's and of its upload, and what the job
\* stamps was computed: nothing is kept for what no longer stands behind it.
NothingOutlived == ResultsAreOfSession /\ PreviewIsOfUpload /\ StampedHasOutput

\* A click is carried out once, and a refresh token shown once, through retries; and
\* a login that fails again and again is counted, and waits.
RetriedOnce ==
    /\ NeverReplaysToken /\ AppliedAtMostOnce
    /\ LockoutIsEarned /\ OnlyEarlierFail(Cardinality(Logins) - 1)

\* What is left to a job or a thread gets done: expired sessions are removed, due
\* plans refreshed, and queued audit entries written.
WorkGetsDone == ExpiredAreRemoved /\ DueIsRefreshed /\ FlushReturns
=============================================================================
