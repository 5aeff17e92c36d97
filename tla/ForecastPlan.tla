---------------------------- MODULE ForecastPlan ----------------------------
(***************************************************************************)
(* Forecast plans: the reports that create and use them, the cache of      *)
(* cash-flow answers, and the job that refreshes them.                     *)
(*                                                                         *)
(* A plan belongs to a budget or, as the cash-flow plan, to the            *)
(* organization; its outputs are kept for ever but only the newest is      *)
(* read, so a plan's record holds that one.  A report stands for the       *)
(* ledger it was computed from and the horizon of its forecast.  Requests  *)
(* and the job run the same service, each in a session of its own, one     *)
(* statement or commit at a time.  Times are ages, counted in ticks up to  *)
(* the interval or lifetime they are compared with.                        *)
(***************************************************************************)
EXTENDS Integers, Sequences, FiniteSets

CONSTANTS
    Budgets, Cash,  \* the subjects of plans: budgets, and the cash flow
    Broken,         \* budgets without lines, cash flow without asset accounts
    Horizons, DefaultHorizon, NoHorizon,
    Clients, RefreshJob,   \* requests in flight, the refresh job
    Interval,       \* refresh_interval_minutes
    Ttl,            \* _CACHE_TTL_SECONDS
    MaxLedger, MaxPlans, MaxFailures   \* bounds

ASSUME ForecastAssumption ==
    /\ Cash \notin Budgets
    /\ Horizons \subseteq Nat \ {0} /\ DefaultHorizon \in Horizons
    /\ NoHorizon \notin Horizons
    /\ RefreshJob \notin Clients
    /\ Interval \in Nat \ {0} /\ Ttl \in Nat \ {0}
    /\ MaxLedger \in Nat /\ MaxPlans \in Nat /\ MaxFailures \in Nat

VARIABLES
    fcPlans,     \* ForecastPlan, each with its newest ForecastOutput
    fcLedger,    \* version of the journals all reports are computed from
    fcCalls,     \* the service call each request and the job is in
    fcCache,     \* _cashflow_cache, by the horizon asked for
    fcRun,       \* the run of _run_scheduled_refresh
    fcFailures,  \* transient failures and restarts so far
    fcSince      \* history: ledger and horizons seen since each call began

fcVars == <<fcPlans, fcLedger, fcCalls, fcCache, fcRun, fcFailures, fcSince>>

Subjects == Budgets \cup {Cash}
FcCallers == Clients \cup {RefreshJob}
Report == [ledger: Nat, horizon: Horizons]
NoReport == [ledger |-> -1, horizon |-> NoHorizon]

Plan == [subject: Subjects, horizon: Horizons, age: 0..Interval,
         output: Report \cup {NoReport}]

NoCall == [phase |-> "idle", subject |-> Cash, horizon |-> NoHorizon,
           refresh |-> FALSE, age |-> 0, plan |-> 0, used |-> NoHorizon,
           report |-> NoReport]
NoRun == [on |-> FALSE, todo |-> {}, reread |-> FALSE, copy |-> <<>>]
NoEntry == [report |-> NoReport, age |-> Ttl]

FcInit ==
    /\ fcPlans = <<>>
    /\ fcLedger = 0
    /\ fcCalls = [c \in FcCallers |-> NoCall]
    /\ fcCache = [h \in Horizons \cup {NoHorizon} |-> NoEntry]
    /\ fcRun = NoRun
    /\ fcFailures = 0
    /\ fcSince = [c \in FcCallers |-> [ledger |-> 0, horizons |-> {}]]

-----------------------------------------------------------------------------
(* The service, for a request or the job alike.                            *)

PlansOf(s) == {i \in DOMAIN fcPlans : fcPlans[i].subject = s}
Due(i) == fcPlans[i].age = Interval

FcStep(c, call) == fcCalls' = [fcCalls EXCEPT ![c] = call]

\* A slip: the job gives up with its first plan that fails.
FcAbandonRun(c) ==
    /\ FcStep(c, NoCall)
    /\ fcRun' = IF c = RefreshJob THEN NoRun ELSE fcRun

(* A request ends with an error; the job rolls back, and its session reads *)
(* everything again.                                                       *)
FcAbandon(c) ==
    /\ FcStep(c, NoCall)
    /\ fcRun' = IF c = RefreshJob THEN [fcRun EXCEPT !.reread = TRUE] ELSE fcRun

(* A plan the service has found, with the horizon it will compute with.    *)
(* The job's session holds the plan already, with the horizon it read.     *)
WithPlan(c, i) ==
    LET call == fcCalls[c]
    IN  [call EXCEPT !.plan = i,
                     !.used = IF c = RefreshJob THEN call.horizon ELSE fcPlans[i].horizon,
                     !.phase = IF call.refresh THEN "build" ELSE "load"]

(* one_or_none() raises when two plans match.                              *)
FcFindPlan(c) ==
    LET call == fcCalls[c]
        found == PlansOf(call.subject)
    IN  /\ call.phase = "find"
        /\ IF Cardinality(found) > 1 THEN FcAbandon(c)
           ELSE /\ IF found = {} THEN FcStep(c, [call EXCEPT !.phase = "insert"])
                   ELSE \E i \in found :
                       FcStep(c, IF c = RefreshJob \/ call.horizon \in {NoHorizon, fcPlans[i].horizon}
                                 THEN WithPlan(c, i)
                                 ELSE [call EXCEPT !.phase = "horizon", !.plan = i])
                /\ UNCHANGED fcRun
        /\ UNCHANGED <<fcPlans, fcLedger, fcCache, fcFailures>>

\* A slip: no unique constraint.
CollidesNever(s) == FALSE

(* The unique constraint compares the budget, and NULL is never equal to   *)
(* NULL.  A request that loses takes the plan as it is.                    *)
Collides(s) == s \in Budgets /\ PlansOf(s) # {}

FcProvisionPlan(c) ==
    LET call == fcCalls[c]
        h == IF call.horizon = NoHorizon THEN DefaultHorizon ELSE call.horizon
        plan == [subject |-> call.subject, horizon |-> h, age |-> Interval,
                 output |-> NoReport]
    IN  /\ call.phase = "insert"
        /\ IF Collides(call.subject)
           THEN /\ \E i \in PlansOf(call.subject) : FcStep(c, WithPlan(c, i))
                /\ UNCHANGED fcPlans
           ELSE /\ Len(fcPlans) < MaxPlans
                /\ fcPlans' = Append(fcPlans, plan)
                /\ FcStep(c, [call EXCEPT !.plan = Len(fcPlans) + 1, !.used = h,
                                 !.phase = IF call.refresh THEN "build" ELSE "load"])
        /\ UNCHANGED <<fcLedger, fcCache, fcRun, fcFailures>>

FcUpdateHorizon(c) ==
    LET call == fcCalls[c]
    IN  /\ call.phase = "horizon"
        /\ fcPlans' = [fcPlans EXCEPT ![call.plan].horizon = call.horizon]
        /\ FcStep(c, [call EXCEPT !.used = call.horizon,
                         !.phase = IF call.refresh THEN "build" ELSE "load"])
        /\ UNCHANGED <<fcLedger, fcCache, fcRun, fcFailures>>

(* The newest output, whatever horizon and ledger it was made with.        *)
FcLoadLatest(c) ==
    LET call == fcCalls[c]
        latest == fcPlans[call.plan].output
    IN  /\ call.phase = "load"
        /\ FcStep(c, IF latest = NoReport THEN [call EXCEPT !.phase = "build"]
                     ELSE [call EXCEPT !.phase = "answered", !.report = latest])
        /\ UNCHANGED <<fcPlans, fcLedger, fcCache, fcRun, fcFailures>>

\* A slip: the ledger of the latest output is taken again.
ComputedFromLatest(call) ==
    [ledger |-> IF fcPlans[call.plan].output = NoReport THEN fcLedger
                ELSE fcPlans[call.plan].output.ledger, horizon |-> call.used]

(* Actual amounts, converted, summed and forecast: a function of the       *)
(* ledger at the time it is read.  A forecaster that fails leaves the      *)
(* report without a forecast.                                              *)
Computed(call) == [ledger |-> fcLedger, horizon |-> call.used]

FcBuildReport(c) ==
    LET call == fcCalls[c]
    IN  /\ call.phase = "build"
        /\ IF call.subject \in Broken THEN FcAbandon(c)
           ELSE /\ FcStep(c, [call EXCEPT !.phase = "persist", !.report = Computed(call)])
                /\ UNCHANGED fcRun
        /\ UNCHANGED <<fcPlans, fcLedger, fcCache, fcFailures>>

FcPersistOutput(c) ==
    LET call == fcCalls[c]
    IN  /\ call.phase = "persist"
        /\ fcPlans' = [fcPlans EXCEPT ![call.plan].output = call.report]
        /\ FcStep(c, [call EXCEPT !.phase = "answered"])
        /\ fcRun' = IF c = RefreshJob THEN [fcRun EXCEPT !.reread = TRUE] ELSE fcRun
        /\ UNCHANGED <<fcLedger, fcCache, fcFailures>>

-----------------------------------------------------------------------------
(* The report endpoints.                                                   *)

Fresh(entry) == entry.report # NoReport /\ entry.age < Ttl

FcAsk(c, s, h, refresh) ==
    LET call == [NoCall EXCEPT !.phase = "find", !.subject = s, !.horizon = h,
                               !.refresh = refresh]
    IN  /\ fcCalls[c].phase = "idle"
        /\ FcStep(c, IF s = Cash /\ ~refresh /\ Fresh(fcCache[h])
                     THEN [call EXCEPT !.phase = "cached", !.report = fcCache[h].report]
                     ELSE call)
        /\ UNCHANGED <<fcPlans, fcLedger, fcCache, fcRun, fcFailures>>

(* A cash-flow report enters the cache under the horizon asked for, aged   *)
(* by the time the request has taken.                                      *)
FcAnswer(c) ==
    LET call == fcCalls[c]
    IN  /\ c \in Clients /\ call.phase \in {"answered", "cached"}
        /\ fcCache' = IF call.phase = "answered" /\ call.subject = Cash
                      THEN [fcCache EXCEPT ![call.horizon] =
                               [report |-> call.report, age |-> call.age]]
                      ELSE fcCache
        /\ FcStep(c, NoCall)
        /\ UNCHANGED <<fcPlans, fcLedger, fcRun, fcFailures>>

-----------------------------------------------------------------------------
(* _run_scheduled_refresh.  APScheduler starts no second run while one is  *)
(* on.  The plans are read once; the session reads a plan again after its  *)
(* first commit or rollback.                                               *)

\* A slip: the plans are stamped before they are refreshed.
FcStartRunStamping ==
    /\ ~fcRun.on
    /\ fcRun' = [on |-> TRUE, todo |-> {i \in DOMAIN fcPlans : Due(i)}, reread |-> FALSE,
                 copy |-> [i \in DOMAIN fcPlans |-> fcPlans[i].horizon]]
    /\ fcPlans' = [i \in DOMAIN fcPlans |-> [fcPlans[i] EXCEPT !.age = 0]]
    /\ UNCHANGED <<fcLedger, fcCalls, fcCache, fcFailures>>

FcStartRun ==
    /\ ~fcRun.on
    /\ fcRun' = [on |-> TRUE, todo |-> {i \in DOMAIN fcPlans : Due(i)}, reread |-> FALSE,
                 copy |-> [i \in DOMAIN fcPlans |-> fcPlans[i].horizon]]
    /\ UNCHANGED <<fcPlans, fcLedger, fcCalls, fcCache, fcFailures>>

FcPickPlan(i) ==
    /\ fcRun.on /\ i \in fcRun.todo /\ \A j \in fcRun.todo : i <= j
    /\ fcCalls[RefreshJob].phase = "idle"
    /\ fcRun' = [fcRun EXCEPT !.todo = @ \ {i}]
    /\ FcStep(RefreshJob, [NoCall EXCEPT !.phase = "find", !.refresh = TRUE,
                       !.subject = fcPlans[i].subject,
                       !.horizon = IF fcRun.reread THEN fcPlans[i].horizon
                                   ELSE fcRun.copy[i]])
    /\ UNCHANGED <<fcPlans, fcLedger, fcCache, fcFailures>>

(* last_refreshed_at is set and committed after the output.                *)
FcStampPlan ==
    /\ fcCalls[RefreshJob].phase = "answered"
    /\ fcPlans' = [fcPlans EXCEPT ![fcCalls[RefreshJob].plan].age = 0]
    /\ FcStep(RefreshJob, NoCall)
    /\ UNCHANGED <<fcLedger, fcCache, fcRun, fcFailures>>

FcEndRun ==
    /\ fcRun.on /\ fcRun.todo = {} /\ fcCalls[RefreshJob].phase = "idle"
    /\ fcRun' = NoRun
    /\ UNCHANGED <<fcPlans, fcLedger, fcCalls, fcCache, fcFailures>>

-----------------------------------------------------------------------------
(* A commit that fails, and a restart of the process.                      *)
FcLoseCommit(c) ==
    /\ fcFailures < MaxFailures /\ fcFailures' = fcFailures + 1
    /\ \/ fcCalls[c].phase \in {"insert", "horizon", "persist"}
       \/ c = RefreshJob /\ fcCalls[c].phase = "answered"
    /\ FcAbandon(c)
    /\ UNCHANGED <<fcPlans, fcLedger, fcCache>>

FcRestart ==
    /\ fcFailures < MaxFailures /\ fcFailures' = fcFailures + 1
    /\ fcCalls' = [c \in FcCallers |-> NoCall]
    /\ fcCache' = [h \in DOMAIN fcCache |-> NoEntry]
    /\ fcRun' = NoRun
    /\ UNCHANGED <<fcPlans, fcLedger>>

FcPost ==
    /\ fcLedger < MaxLedger
    /\ fcLedger' = fcLedger + 1
    /\ UNCHANGED <<fcPlans, fcCalls, fcCache, fcRun, fcFailures>>

FcOlder(age, limit) == IF age < limit THEN age + 1 ELSE limit

FcTick ==
    /\ fcPlans' = [i \in DOMAIN fcPlans |-> [fcPlans[i] EXCEPT !.age = FcOlder(@, Interval)]]
    /\ fcCache' = [h \in DOMAIN fcCache |-> [fcCache[h] EXCEPT !.age = FcOlder(@, Ttl)]]
    /\ fcCalls' = [c \in FcCallers |->
           IF c = RefreshJob \/ fcCalls[c].phase = "idle" THEN fcCalls[c]
           ELSE [fcCalls[c] EXCEPT !.age = FcOlder(@, Ttl)]]
    /\ UNCHANGED <<fcLedger, fcRun, fcFailures>>

FcService(c) ==
    \/ FcFindPlan(c) \/ FcProvisionPlan(c) \/ FcUpdateHorizon(c)
    \/ FcLoadLatest(c) \/ FcBuildReport(c) \/ FcPersistOutput(c)

FcJobStep ==
    \/ FcStartRun \/ FcEndRun \/ FcStampPlan
    \/ \E i \in fcRun.todo : FcPickPlan(i)

FcRequest(c) ==
    \/ \E s \in Subjects, h \in Horizons \cup {NoHorizon}, refresh \in BOOLEAN :
           FcAsk(c, s, h, refresh)
    \/ FcAnswer(c)

(* The ledger when a call began, and the horizons its plan has had since.  *)
FcRemember ==
    fcSince' = [c \in FcCallers |->
        LET call == fcCalls'[c]
            seen == {fcPlans'[i].horizon :
                        i \in {j \in DOMAIN fcPlans' : fcPlans'[j].subject = call.subject}}
        IN  IF c = RefreshJob \/ call.phase = "idle" THEN [ledger |-> 0, horizons |-> {}]
            ELSE IF fcCalls[c].phase = "idle" THEN [ledger |-> fcLedger, horizons |-> seen]
            ELSE [fcSince[c] EXCEPT !.horizons = @ \cup seen]]

FcNext ==
    /\ \/ \E c \in FcCallers : FcService(c) \/ FcLoseCommit(c)
       \/ \E c \in Clients : FcRequest(c)
       \/ FcJobStep \/ FcRestart \/ FcPost \/ FcTick
    /\ FcRemember

(* The scheduler starts the job again and again, and the job, which waits  *)
(* for nobody, runs on; so does the clock.                                 *)
FcJobWork == (FcJobStep \/ FcService(RefreshJob)) /\ FcRemember
FcJobRuns == WF_fcVars(FcJobWork)

FcSpec == FcInit /\ [][FcNext]_fcVars
FcLiveSpec == FcSpec /\ FcJobRuns

-----------------------------------------------------------------------------
(* The types of all variables.                                             *)
FcTypeOK ==
    /\ fcPlans \in Seq(Plan)
    /\ fcLedger \in Nat
    /\ fcCalls \in [FcCallers ->
           [phase: {"idle", "find", "insert", "horizon", "load", "build", "persist",
                    "answered", "cached"},
            subject: Subjects, horizon: Horizons \cup {NoHorizon}, refresh: BOOLEAN,
            age: 0..Ttl, plan: Nat, used: Horizons \cup {NoHorizon},
            report: Report \cup {NoReport}]]
    /\ fcCache \in [Horizons \cup {NoHorizon} ->
                       [report: Report \cup {NoReport}, age: 0..Ttl]]
    /\ fcRun.on \in BOOLEAN /\ fcRun.reread \in BOOLEAN
    /\ fcRun.todo \subseteq DOMAIN fcPlans
    /\ fcRun.copy \in Seq(Horizons)
    /\ fcFailures \in Nat
    /\ fcSince \in [FcCallers -> [ledger: Nat, horizons: SUBSET Horizons]]

(* However many first requests race, a budget has one plan.                *)
BudgetPlanOnce == \A b \in Budgets : Cardinality(PlansOf(b)) <= 1

(* _provision_plan says it guards "against concurrent creation": every     *)
(* subject, the cash flow too, has one plan.                               *)
PlanOnce == \A s \in Subjects : Cardinality(PlansOf(s)) <= 1

(* refresh=true answers with the ledger of the request or a later one, and *)
(* with a horizon the plan has had since, through every race with other    *)
(* requests, the job and a lost creation.                                  *)
RefreshedIsCurrent ==
    \A c \in Clients :
        LET call == fcCalls[c]
        IN  call.phase = "answered" /\ call.refresh =>
                /\ call.report.ledger >= fcSince[c].ledger
                /\ call.report.horizon \in fcSince[c].horizons

(* A plan counts as refreshed only after an output of its own was written: *)
(* a failure between the two commits leaves it due.                        *)
StampedHasOutput ==
    \A i \in DOMAIN fcPlans : fcPlans[i].age < Interval => fcPlans[i].output # NoReport

(* A broken plan, a failed commit or a restart does not keep the others    *)
(* from being refreshed: every plan that is due is refreshed, unless its   *)
(* subject cannot be reported or has a second plan.                        *)
Waiting(i) == i \in DOMAIN fcPlans /\ Due(i)

Refreshable(i) ==
    i \in DOMAIN fcPlans => /\ fcPlans[i].subject \notin Broken
                            /\ PlansOf(fcPlans[i].subject) = {i}

DueIsRefreshed ==
    \A i \in 1..MaxPlans : [](Waiting(i) => <>(~Waiting(i) \/ ~Refreshable(i)))
=============================================================================
