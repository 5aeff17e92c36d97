---------------------------- MODULE ServiceHealth ----------------------------
(***************************************************************************)
(* Startup of the API, its extension registry and its health checks.       *)
(* Sources: main.py, startup.py, scheduler.py, services/extension_loader,  *)
(* services/health.py, routers/extensions.py, health.py and core.py of the *)
(* API, src/apps/extensions/registry.py and src/apps/observability/health. *)
(*                                                                         *)
(* The registry is one object of the process, without a lock.  Each        *)
(* request for the contracts empties and fills it again, in a thread of    *)
(* its own; a probe runs on the event loop, so one at a time, and reads    *)
(* the registry between the steps of the threads.  Durations and details   *)
(* are left out, and so are the checks of metrics and tracing, which read  *)
(* nothing that is modelled.                                               *)
(***************************************************************************)
EXTENDS Naturals, Sequences, FiniteSets, SequencesExt

CONSTANTS
    Extensions,    \* keys of the configured extensions
    Disabled,      \* those configured as disabled
    WithContract,  \* those that register a contract
    Failing,       \* those whose import or registration may raise
    Main,          \* the thread that starts the application
    HsThreads      \* threads that answer requests

ASSUME HealthAssumption == Main \notin HsThreads /\ IsFiniteSet(Extensions)

VARIABLES
    hsRecords,     \* the status of each startup step that was run
    hsPhase,       \* "starting", "aborted", "serving", "stopped"
    hsScheduler,   \* the scheduler runs
    hsDatabase,    \* the database answers
    hsManifests,   \* extensions with a manifest in the registry
    hsContracts,   \* of each extension, how many contracts are in the registry
    hsGauges,      \* extensions whose gauge says enabled
    hsChecks,      \* extensions with a health check
    hsLoads,       \* what each thread does
    hsProbe,       \* the probe: [left, reports]
    hsFailures     \* witness: a load has failed

hsRegistry == <<hsManifests, hsContracts>>
hsVars == <<hsRecords, hsPhase, hsScheduler, hsDatabase, hsManifests, hsContracts, hsGauges,
            hsChecks, hsLoads, hsProbe, hsFailures>>

-----------------------------------------------------------------------------
Enabled == Extensions \ Disabled
Loaders == {Main} \cup HsThreads
BuiltIn == <<"database", "scheduler", "extensions">>

NoLoad == [step |-> "idle", left |-> <<>>, answer |-> <<>>, alone |-> TRUE]
NoProbe == [left |-> <<>>, reports |-> <<>>]

HsInit ==
    /\ hsRecords = <<>> /\ hsPhase = "starting"
    /\ hsScheduler = FALSE /\ hsDatabase = TRUE
    /\ hsManifests = {} /\ hsContracts = [e \in Extensions |-> 0]
    /\ hsGauges = {} /\ hsChecks = {}
    /\ hsLoads = [t \in Loaders |-> NoLoad]
    /\ hsProbe = NoProbe /\ hsFailures = FALSE

-----------------------------------------------------------------------------
(* Startup.                                                                *)
StartupSteps ==
    <<"configure_logging", "configure_tracing", "initialise_database",
      "reconcile_provider_catalog", "register_health_checks", "load_extensions",
      "warn_ephemeral_secret">>

Fatal(step) == step # "warn_ephemeral_secret"

NextStep == StartupSteps[Len(hsRecords) + 1]

\* A slip: the steps after the one that failed are run.
StepRecordedOnwards(status) == hsRecords' = Append(hsRecords, status) /\ UNCHANGED hsPhase

\* The first step that is fatal and fails ends the startup.
StepRecorded(status) ==
    /\ hsRecords' = Append(hsRecords, status)
    /\ hsPhase' = IF status = "error" /\ Fatal(NextStep) THEN "aborted" ELSE hsPhase

HsStartupStep ==
    /\ hsPhase = "starting" /\ Len(hsRecords) < Len(StartupSteps)
    /\ NextStep # "load_extensions"
    /\ \E status \in {"success", "error"} : StepRecorded(status)
    /\ UNCHANGED <<hsScheduler, hsDatabase, hsRegistry, hsGauges, hsChecks, hsLoads, hsProbe,
                   hsFailures>>

\* The step that loads the extensions has ended.
HsStartupLoaded ==
    /\ hsPhase = "starting" /\ hsLoads[Main].step \in {"read", "failed"}
    /\ StepRecorded(IF hsLoads[Main].step = "read" THEN "success" ELSE "error")
    /\ hsLoads' = [hsLoads EXCEPT ![Main] = NoLoad]
    /\ UNCHANGED <<hsScheduler, hsDatabase, hsRegistry, hsGauges, hsChecks, hsProbe, hsFailures>>

\* The lifespan begins with start_scheduler, which may raise, and ends with
\* shutdown_scheduler.
HsServe ==
    /\ hsPhase = "starting" /\ Len(hsRecords) = Len(StartupSteps)
    /\ \/ hsPhase' = "serving" /\ hsScheduler' = TRUE
       \/ hsPhase' = "aborted" /\ UNCHANGED hsScheduler
    /\ UNCHANGED <<hsRecords, hsDatabase, hsRegistry, hsGauges, hsChecks, hsLoads, hsProbe,
                   hsFailures>>

HsShutdown ==
    /\ hsPhase = "serving" /\ \A t \in HsThreads : hsLoads[t].step \in {"idle", "answered", "failed"}
    /\ hsPhase' = "stopped" /\ hsScheduler' = FALSE
    /\ UNCHANGED <<hsRecords, hsDatabase, hsRegistry, hsGauges, hsChecks, hsLoads, hsProbe,
                   hsFailures>>

HsDatabaseTurns ==
    /\ hsPhase = "serving" /\ hsDatabase' = ~hsDatabase
    /\ UNCHANGED <<hsRecords, hsPhase, hsScheduler, hsRegistry, hsGauges, hsChecks, hsLoads,
                   hsProbe, hsFailures>>

-----------------------------------------------------------------------------
(* Loading the extensions.                                                 *)
Loading(t) == hsLoads[t].step \notin {"idle", "answered", "failed"}
LoadAt(t, step) == hsLoads[t].step = step

hsElsewhere == <<hsRecords, hsPhase, hsScheduler, hsDatabase, hsProbe>>

\* A load that begins while another runs overlaps it, and the other overlaps it.
HsBegin(t) ==
    /\ hsLoads[t].step \in {"idle", "answered", "failed"}
    /\ \/ t \in HsThreads /\ hsPhase = "serving"
       \/ t = Main /\ hsPhase = "starting" /\ Len(hsRecords) < Len(StartupSteps)
            /\ NextStep = "load_extensions"
    /\ LET others == {u \in Loaders : Loading(u)}
       IN  hsLoads' = [u \in Loaders |->
               CASE u = t -> [NoLoad EXCEPT !.step = "clear", !.left = SetToSeq(Enabled),
                                            !.alone = others = {}]
                 [] u \in others -> [hsLoads[u] EXCEPT !.alone = FALSE]
                 [] OTHER -> hsLoads[u]]
    /\ UNCHANGED <<hsElsewhere, hsRegistry, hsGauges, hsChecks, hsFailures>>

Goes(t, step) == hsLoads' = [hsLoads EXCEPT ![t].step = step]
Reads(t) ==
    hsLoads' = [hsLoads EXCEPT ![t].step = "read", ![t].left = SetToSeq(Extensions)]

\* A slip: the health checks are forgotten, too.
HsClearAll(t) ==
    /\ LoadAt(t, "clear") /\ hsManifests' = {} /\ hsChecks' = {} /\ Goes(t, "forget")
    /\ UNCHANGED <<hsElsewhere, hsContracts, hsGauges, hsFailures>>

\* clear() forgets the manifests and then the contracts, but no health checks.
HsClear(t) ==
    /\ LoadAt(t, "clear") /\ hsManifests' = {} /\ Goes(t, "forget")
    /\ UNCHANGED <<hsElsewhere, hsContracts, hsGauges, hsChecks, hsFailures>>

\* A slip: the contracts stay.
HsForgetNothing(t) ==
    /\ LoadAt(t, "forget") /\ Goes(t, "disable")
    /\ UNCHANGED <<hsElsewhere, hsRegistry, hsGauges, hsChecks, hsFailures>>

HsForget(t) ==
    /\ LoadAt(t, "forget") /\ Goes(t, "disable")
    /\ hsContracts' = [e \in Extensions |-> 0]
    /\ UNCHANGED <<hsElsewhere, hsManifests, hsGauges, hsChecks, hsFailures>>

\* All gauges are set back, in two loops that do the same.
HsDisable(t) ==
    /\ LoadAt(t, "disable") /\ hsGauges' = {}
    /\ IF Enabled = {} THEN Reads(t) ELSE Goes(t, "load")
    /\ UNCHANGED <<hsElsewhere, hsRegistry, hsChecks, hsFailures>>

HsRegister(t) ==
    /\ LoadAt(t, "load")
    /\ hsManifests' = hsManifests \cup {Head(hsLoads[t].left)}
    /\ Goes(t, "contract")
    /\ UNCHANGED <<hsElsewhere, hsContracts, hsGauges, hsChecks, hsFailures>>

\* A contract is appended; a health check replaces the one of the same name.
HsRegisterContract(t) ==
    LET e == Head(hsLoads[t].left)
    IN  /\ LoadAt(t, "contract")
        /\ hsContracts' = [hsContracts EXCEPT ![e] = IF e \in WithContract THEN @ + 1 ELSE @]
        /\ hsChecks' = hsChecks \cup {e}
        /\ Goes(t, "enable")
        /\ UNCHANGED <<hsElsewhere, hsManifests, hsGauges, hsFailures>>

\* A slip: the gauge is left to the next load.
HsEnableQuietly(t) ==
    LET rest == Tail(hsLoads[t].left)
    IN  /\ LoadAt(t, "enable")
        /\ IF rest = <<>> THEN Reads(t)
           ELSE hsLoads' = [hsLoads EXCEPT ![t].left = rest, ![t].step = "load"]
        /\ UNCHANGED <<hsElsewhere, hsRegistry, hsGauges, hsChecks, hsFailures>>

HsEnable(t) ==
    LET rest == Tail(hsLoads[t].left)
    IN  /\ LoadAt(t, "enable")
        /\ hsGauges' = hsGauges \cup {Head(hsLoads[t].left)}
        /\ IF rest = <<>> THEN Reads(t)
           ELSE hsLoads' = [hsLoads EXCEPT ![t].left = rest, ![t].step = "load"]
        /\ UNCHANGED <<hsElsewhere, hsRegistry, hsChecks, hsFailures>>

\* What was registered before stays, and the request is answered with an error.
HsLoadFails(t) ==
    /\ hsLoads[t].step \in {"load", "contract"} /\ Head(hsLoads[t].left) \in Failing
    /\ hsGauges' = hsGauges \ {Head(hsLoads[t].left)}
    /\ Goes(t, "failed")
    /\ hsFailures' = TRUE
    /\ UNCHANGED <<hsElsewhere, hsRegistry, hsChecks>>

\* The answer lists the contracts of each configured extension.
HsRead(t) ==
    LET load == hsLoads[t]
        e == Head(load.left)
        rest == Tail(load.left)
    IN  /\ LoadAt(t, "read") /\ t \in HsThreads /\ load.left # <<>>
        /\ hsLoads' = [hsLoads EXCEPT ![t] = [load EXCEPT
               !.left = rest, !.answer = Append(@, [key |-> e, contracts |-> hsContracts[e]]),
               !.step = IF rest = <<>> THEN "answered" ELSE @]]
        /\ UNCHANGED <<hsElsewhere, hsRegistry, hsGauges, hsChecks, hsFailures>>

HsLoad(t) ==
    \/ HsBegin(t) \/ HsClear(t) \/ HsForget(t) \/ HsDisable(t) \/ HsRegister(t)
    \/ HsRegisterContract(t) \/ HsEnable(t) \/ HsLoadFails(t) \/ HsRead(t)

-----------------------------------------------------------------------------
(* Probes.                                                                 *)
ReportOf(check, healthy, severity) == [check |-> check, healthy |-> healthy, severity |-> severity]

\* Whether a load excuses what the registry lacks is a witness.
ExtensionsReport ==
    LET missing == Enabled \ hsManifests
    IN  [check |-> "extensions", healthy |-> missing = {},
         severity |-> IF missing = {} THEN "info" ELSE "warning",
         excused |-> hsFailures \/ \E t \in Loaders : Loading(t)]

\* A check of an extension that raises counts as unhealthy, with the severity it was
\* registered with.
ReportsOf(check) ==
    CASE check = "database" -> {ReportOf(check, hsDatabase, "critical")}
      [] check = "scheduler" -> {ReportOf(check, hsScheduler, IF hsScheduler THEN "info" ELSE "warning")}
      [] check = "extensions" -> {ExtensionsReport}
      [] OTHER -> {ReportOf(check, TRUE, "info"), ReportOf(check, FALSE, "info"),
                   ReportOf(check, FALSE, "critical")}

HsAsk ==
    /\ hsPhase = "serving" /\ hsProbe.left = <<>>
    /\ hsProbe' = [left |-> BuiltIn \o SetToSeq(hsChecks), reports |-> <<>>]
    /\ UNCHANGED <<hsRecords, hsPhase, hsScheduler, hsDatabase, hsRegistry, hsGauges, hsChecks,
                   hsLoads, hsFailures>>

HsEvaluate ==
    /\ hsProbe.left # <<>>
    /\ \E report \in ReportsOf(Head(hsProbe.left)) :
           hsProbe' = [left |-> Tail(hsProbe.left), reports |-> Append(hsProbe.reports, report)]
    /\ UNCHANGED <<hsRecords, hsPhase, hsScheduler, hsDatabase, hsRegistry, hsGauges, hsChecks,
                   hsLoads, hsFailures>>

Unhealthy(reports) == {n \in DOMAIN reports : ~reports[n].healthy}

\* A slip: any check that is unhealthy makes the service unready.
ReadyStatusOfAny(reports) == IF Unhealthy(reports) # {} THEN "degraded" ELSE "ok"

\* /health/ready.
ReadyStatus(reports) ==
    IF \E n \in Unhealthy(reports) : reports[n].severity = "critical" THEN "degraded" ELSE "ok"

\* /health.
HealthStatus(reports) ==
    LET critical == \E n \in Unhealthy(reports) : reports[n].severity = "critical"
    IN  CASE reports = <<>> -> "unknown"
          [] critical -> "critical"
          [] Unhealthy(reports) # {} /\ ~critical -> "degraded"
          [] OTHER -> "ok"

HsNext ==
    \/ HsStartupStep \/ HsStartupLoaded \/ HsServe \/ HsShutdown \/ HsDatabaseTurns
    \/ HsAsk \/ HsEvaluate
    \/ \E t \in Loaders : HsLoad(t)

HsSpec == HsInit /\ [][HsNext]_hsVars

-----------------------------------------------------------------------------
\* The types of all variables.
HsTypeOK ==
    /\ hsRecords \in Seq({"success", "error"}) /\ Len(hsRecords) <= Len(StartupSteps)
    /\ hsPhase \in {"starting", "aborted", "serving", "stopped"}
    /\ hsManifests \subseteq Extensions /\ hsGauges \subseteq Extensions
    /\ hsChecks \subseteq Extensions /\ hsContracts \in [Extensions -> Nat]
    /\ \A t \in Loaders :
           hsLoads[t].step \in {"idle", "clear", "forget", "disable", "load", "contract", "enable",
                               "read", "answered", "failed"}

\* Nothing is served and no job is scheduled before every step that matters has
\* succeeded; then each extension has its health check, and as none is added later
\* a probe never walks over checks that change.
ServesWhatStarted ==
    /\ hsScheduler => hsPhase = "serving"
    /\ hsPhase = "serving" =>
           /\ hsScheduler /\ hsChecks = Enabled
           /\ \A n \in DOMAIN StartupSteps : Fatal(StartupSteps[n]) => hsRecords[n] = "success"

\* Once the threads that fill the registry are done, however they overlapped, it and
\* the gauges name exactly the enabled extensions, unless an extension has failed.
RegistrySettles ==
    hsPhase = "serving" /\ ~hsFailures /\ (\A t \in Loaders : ~Loading(t))
        => hsManifests = Enabled /\ hsGauges = Enabled

\* A request that overlapped no other lists each contract once, however often the
\* extensions were loaded before.
ContractsListedOnce ==
    \A t \in HsThreads : LoadAt(t, "answered") /\ hsLoads[t].alone =>
        \A n \in DOMAIN hsLoads[t].answer :
            LET entry == hsLoads[t].answer[n]
            IN  entry.contracts = IF entry.key \in Enabled \cap WithContract THEN 1 ELSE 0

\* A probe misses an extension only while one is loaded or after one failed, and the
\* two endpoints call the same reports critical.
ProbesAreRight ==
    LET reports == hsProbe.reports
    IN  /\ \A n \in DOMAIN reports :
               reports[n].check = "extensions" /\ ~reports[n].healthy => reports[n].excused
        /\ HealthStatus(reports) = "critical" <=> ReadyStatus(reports) = "degraded"

\* Startup, the registry and the probes together.
HealthIsTrue == ServesWhatStarted /\ RegistrySettles /\ ContractsListedOnce /\ ProbesAreRight
=============================================================================
