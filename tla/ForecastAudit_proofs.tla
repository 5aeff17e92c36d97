------------------------- MODULE ForecastAudit_proofs -------------------------
(***************************************************************************)
(* Proofs about ForecastPlan and AuditWorker, the two components that both *)
(* requests and a thread of the program itself work on, for any numbers of *)
(* requests, plans and entries.                                            *)
(*                                                                         *)
(* A call of the forecast service works with what it saw of a plan some    *)
(* statements ago, while others change that plan.  What does not change    *)
(* behind it is that the plan is there, of its subject, and keeps an       *)
(* output once it has one (PlansGrow); what the call computes is of a      *)
(* ledger and a horizon seen since it began (Answering).                   *)
(***************************************************************************)
EXTENDS ForecastPlan, AuditWorker, SequenceTheorems, FiniteSetTheorems, NaturalsInduction,
        WellFoundedInduction, TLAPS

FcPhase == {"idle", "find", "insert", "horizon", "load", "build", "persist",
            "answered", "cached"}
FcCall == [phase: FcPhase, subject: Subjects, horizon: Horizons \cup {NoHorizon},
           refresh: BOOLEAN, age: 0..Ttl, plan: Nat, used: Horizons \cup {NoHorizon},
           report: Report \cup {NoReport}]
FcRuns == [on: BOOLEAN, todo: SUBSET Nat, reread: BOOLEAN, copy: Seq(Horizons)]
Since == [ledger: Nat, horizons: SUBSET Horizons]

\* What a call holds in each phase.
CallFits(call, plans) ==
    /\ call.phase \in {"horizon", "load", "build", "persist", "answered"} =>
           call.plan \in DOMAIN plans /\ plans[call.plan].subject = call.subject
    /\ call.phase \in {"load", "build", "persist"} => call.used \in Horizons
    /\ call.phase = "horizon" => call.horizon \in Horizons
    /\ call.phase \in {"persist", "answered"} => call.report # NoReport
    /\ call.phase \in {"load", "cached"} => ~call.refresh

\* The job computes what it read, and has written an output when it is answered.
JobFits(call, plans) ==
    /\ call.phase \notin {"horizon", "load", "cached"}
    /\ call.phase # "idle" => call.refresh /\ call.horizon \in Horizons
    /\ call.phase = "answered" => plans[call.plan].output # NoReport

\* The plans of the run are plans, and the session holds a copy of each.
RunFits == fcRun.todo \subseteq DOMAIN fcPlans \cap DOMAIN fcRun.copy

\* No two plans are of one budget.
OnePlanEach(plans) ==
    \A i, k \in DOMAIN plans :
        plans[i].subject = plans[k].subject /\ plans[i].subject \in Budgets => i = k

\* A plan that is not due has an output.
Stamped(plans) == \A i \in DOMAIN plans : plans[i].age < Interval => plans[i].output # NoReport

\* What no step takes away from the plans that are there.
PlansGrow(old, new) ==
    \A i \in DOMAIN old :
        /\ i \in DOMAIN new
        /\ new[i].subject = old[i].subject
        /\ old[i].output # NoReport => new[i].output # NoReport

FcTypes ==
    /\ fcPlans \in Seq(Plan)
    /\ fcLedger \in Nat
    /\ fcCalls \in [FcCallers -> FcCall]
    /\ fcCache \in [Horizons \cup {NoHorizon} -> [report: Report \cup {NoReport}, age: 0..Ttl]]
    /\ fcRun \in FcRuns
    /\ fcFailures \in Nat

FcData ==
    /\ FcTypes
    /\ \A c \in FcCallers : CallFits(fcCalls[c], fcPlans)
    /\ JobFits(fcCalls[RefreshJob], fcPlans)
    /\ RunFits
    /\ OnePlanEach(fcPlans)
    /\ Stamped(fcPlans)

\* A request that asked for a refresh computes for a horizon its plan has had, and
\* answers for a ledger not older than the one it began with.
Answering(call, since, ledger) ==
    /\ call.phase # "idle" => since.ledger <= ledger
    /\ call.refresh /\ call.phase = "build" => call.used \in since.horizons
    /\ call.refresh /\ call.phase \in {"persist", "answered"} =>
           call.report.ledger >= since.ledger /\ call.report.horizon \in since.horizons

FcInv ==
    /\ FcData
    /\ fcSince \in [FcCallers -> Since]
    /\ \A c \in Clients : Answering(fcCalls[c], fcSince[c], fcLedger)

-----------------------------------------------------------------------------
(* Lemmas about the operators.                                             *)

LEMMA FcStart ==
    /\ NoCall \in FcCall /\ NoCall.phase = "idle" /\ NoRun \in FcRuns
    /\ NoEntry \in [report: Report \cup {NoReport}, age: 0..Ttl]
    /\ DOMAIN NoRun.copy = {} /\ NoRun.todo = {}
  BY ForecastAssumption DEF NoCall, FcCall, FcPhase, NoRun, FcRuns, NoEntry, Subjects

LEMMA NoCallFits == \A plans : CallFits(NoCall, plans) /\ JobFits(NoCall, plans)
  BY DEF NoCall, CallFits, JobFits

LEMMA CallersApart == RefreshJob \in FcCallers /\ Clients \subseteq FcCallers /\ RefreshJob \notin Clients
  BY ForecastAssumption DEF FcCallers

\* A plan replaced at its place, by one of the same subject that keeps its output.
LEMMA PlanChange ==
    ASSUME fcPlans \in Seq(Plan), OnePlanEach(fcPlans), Stamped(fcPlans),
           NEW i \in DOMAIN fcPlans, NEW p \in Plan, p.subject = fcPlans[i].subject,
           fcPlans[i].output # NoReport => p.output # NoReport,
           p.age < Interval => p.output # NoReport,
           fcPlans' = [fcPlans EXCEPT ![i] = p]
    PROVE  /\ fcPlans' \in Seq(Plan) /\ PlansGrow(fcPlans, fcPlans')
           /\ OnePlanEach(fcPlans') /\ Stamped(fcPlans')
           /\ DOMAIN fcPlans' = DOMAIN fcPlans /\ fcPlans'[i] = p
  <1>1. DOMAIN fcPlans = 1..Len(fcPlans) /\ \A k \in DOMAIN fcPlans : fcPlans[k] \in Plan
    BY LenProperties, ElementOfSeq
  <1>2. /\ fcPlans' \in Seq(Plan) /\ Len(fcPlans') = Len(fcPlans)
        /\ \A k \in 1..Len(fcPlans) : fcPlans'[k] = IF k = i THEN p ELSE fcPlans[k]
    BY <1>1, ExceptSeq
  <1>3. DOMAIN fcPlans' = DOMAIN fcPlans
    BY <1>1, <1>2, LenProperties
  <1>4. PlansGrow(fcPlans, fcPlans')
    BY <1>1, <1>2, <1>3 DEF PlansGrow
  <1>5. OnePlanEach(fcPlans')
    <2>1. \A k \in DOMAIN fcPlans : fcPlans'[k].subject = fcPlans[k].subject
      BY <1>1, <1>2
    <2> QED BY <2>1, <1>3 DEF OnePlanEach
  <1>6. Stamped(fcPlans')
    BY <1>1, <1>2, <1>3 DEF Stamped
  <1> QED BY <1>1, <1>2, <1>3, <1>4, <1>5, <1>6

LEMMA StillFits ==
    ASSUME NEW call, NEW old, NEW new, PlansGrow(old, new), CallFits(call, old)
    PROVE  CallFits(call, new) /\ (JobFits(call, old) => JobFits(call, new))
  BY DEF PlansGrow, CallFits, JobFits

\* The step of one call, and what it leaves as it is.
Advances(c, call) ==
    /\ call \in FcCall
    /\ fcCalls' = [fcCalls EXCEPT ![c] = call]
    /\ CallFits(call, fcPlans')
    /\ c = RefreshJob => JobFits(call, fcPlans')
    /\ fcPlans' \in Seq(Plan) /\ PlansGrow(fcPlans, fcPlans')
    /\ OnePlanEach(fcPlans') /\ Stamped(fcPlans')
    /\ fcLedger' = fcLedger
    /\ fcRun' \in FcRuns /\ fcRun'.todo \subseteq fcRun.todo /\ fcRun'.copy = fcRun.copy

\* Where a client's figures come from.
Figures(c, call) ==
    /\ fcCalls[c].phase # "idle" /\ call.phase # "idle" =>
           call.subject = fcCalls[c].subject /\ call.refresh = fcCalls[c].refresh
    /\ call.refresh /\ call.phase = "build" =>
           \E i \in DOMAIN fcPlans' : /\ fcPlans'[i].subject = call.subject
                                      /\ fcPlans'[i].horizon = call.used
    /\ call.refresh /\ call.phase = "persist" =>
           /\ fcCalls[c].phase = "build" /\ fcCalls[c].refresh
           /\ call.report = [ledger |-> fcLedger, horizon |-> fcCalls[c].used]
    /\ call.refresh /\ call.phase = "answered" =>
           /\ fcCalls[c].phase = "persist" /\ fcCalls[c].refresh
           /\ call.report = fcCalls[c].report
    /\ fcCalls[c].phase = "idle" => call.phase \notin {"build", "persist", "answered"}

Steps(c, call) == Advances(c, call) /\ (c \in Clients => Figures(c, call))

LEMMA PlanTypes ==
    ASSUME FcTypes
    PROVE  /\ DOMAIN fcPlans = 1..Len(fcPlans) /\ Len(fcPlans) \in Nat
           /\ \A i \in DOMAIN fcPlans : fcPlans[i] \in Plan
  BY LenProperties, ElementOfSeq DEF FcTypes

\* Nothing but the call moves.
LEMMA OnlyCall ==
    ASSUME FcData, NEW c \in FcCallers, NEW call \in FcCall, FcStep(c, call),
           CallFits(call, fcPlans), c = RefreshJob => JobFits(call, fcPlans),
           UNCHANGED <<fcPlans, fcLedger>>,
           fcRun' \in FcRuns, fcRun'.todo \subseteq fcRun.todo, fcRun'.copy = fcRun.copy
    PROVE  Advances(c, call)
  BY DEF Advances, FcStep, FcData, FcTypes, PlansGrow

LEMMA Abandons ==
    ASSUME FcData, NEW c \in FcCallers, FcAbandon(c), UNCHANGED <<fcPlans, fcLedger>>
    PROVE  Steps(c, NoCall)
  <1>1. FcStep(c, NoCall) /\ fcRun' \in FcRuns /\ fcRun'.todo = fcRun.todo /\ fcRun'.copy = fcRun.copy
    BY DEF FcAbandon, FcData, FcTypes, FcRuns
  <1>2. Advances(c, NoCall)
    BY <1>1, OnlyCall, FcStart, NoCallFits
  <1> QED BY <1>2, FcStart DEF Steps, Figures


-----------------------------------------------------------------------------
(* The steps of the service.                                               *)

LEMMA NamedCall ==
    ASSUME FcData, NEW c \in FcCallers
    PROVE  fcCalls[c] \in FcCall /\ CallFits(fcCalls[c], fcPlans)
           /\ (c = RefreshJob => JobFits(fcCalls[c], fcPlans))
  BY DEF FcData, FcTypes

\* A plan the service takes as it is.
LEMMA WithPlanSteps ==
    ASSUME FcData, NEW c \in FcCallers, NEW i \in PlansOf(fcCalls[c].subject),
           fcCalls[c].phase \in {"find", "insert"},
           FcStep(c, WithPlan(c, i)), UNCHANGED <<fcPlans, fcLedger, fcRun>>
    PROVE  Steps(c, WithPlan(c, i))
  <1>1. PICK o : o = fcCalls[c]
    OBVIOUS
  <1>2. o \in FcCall /\ CallFits(o, fcPlans) /\ (c = RefreshJob => JobFits(o, fcPlans))
    BY <1>1, NamedCall
  <1>3. i \in DOMAIN fcPlans /\ fcPlans[i].subject = o.subject /\ fcPlans[i].horizon \in Horizons /\ i \in Nat
    BY <1>1, PlanTypes DEF FcData, PlansOf, Plan
  <1>4. PICK used, step, call :
            /\ used = IF c = RefreshJob THEN o.horizon ELSE fcPlans[i].horizon
            /\ step = IF o.refresh THEN "build" ELSE "load"
            /\ call = [o EXCEPT !.plan = i, !.used = used, !.phase = step]
    OBVIOUS
  <1>5. call = WithPlan(c, i)
    BY <1>1, <1>4 DEF WithPlan
  <1>6. used \in Horizons /\ step \in FcPhase /\ (c = RefreshJob => o.refresh)
    BY <1>1, <1>2, <1>3, <1>4 DEF JobFits, FcPhase
  <1>7. /\ call \in FcCall
        /\ call.phase = step /\ call.plan = i /\ call.used = used /\ call.subject = o.subject
        /\ call.refresh = o.refresh /\ call.horizon = o.horizon
    BY <1>2, <1>3, <1>4, <1>6 DEF FcCall
  <1>8. CallFits(call, fcPlans) /\ (c = RefreshJob => JobFits(call, fcPlans))
    BY <1>1, <1>2, <1>3, <1>4, <1>6, <1>7 DEF CallFits, JobFits
  <1>9. Advances(c, call)
    BY <1>5, <1>7, <1>8, OnlyCall DEF FcData, FcTypes
  <1>10. ASSUME c \in Clients PROVE Figures(c, call)
    <2>1. fcPlans'[i].horizon = call.used
      BY <1>10, <1>4, <1>7, CallersApart
    <2> QED BY <2>1, <1>1, <1>3, <1>4, <1>7 DEF Figures
  <1> QED BY <1>5, <1>9, <1>10 DEF Steps


LEMMA Finds ==
    ASSUME FcData, NEW c \in FcCallers, FcFindPlan(c)
    PROVE  \E call : Steps(c, call)
  <1>1. PICK o : o = fcCalls[c]
    OBVIOUS
  <1>2. o \in FcCall /\ CallFits(o, fcPlans) /\ (c = RefreshJob => JobFits(o, fcPlans)) /\ o.phase = "find"
    BY <1>1, NamedCall DEF FcFindPlan
  <1>3. UNCHANGED <<fcPlans, fcLedger>>
    BY DEF FcFindPlan
  <1>4. CASE Cardinality(PlansOf(o.subject)) > 1
    BY <1>1, <1>3, <1>4, Abandons DEF FcFindPlan
  <1>5. CASE /\ ~(Cardinality(PlansOf(o.subject)) > 1)
             /\ PlansOf(o.subject) = {}
    <2>1. PICK call : call = [o EXCEPT !.phase = "insert"]
      OBVIOUS
    <2>2. FcStep(c, call) /\ fcRun' = fcRun
      BY <1>1, <1>5, <2>1 DEF FcFindPlan
    <2>3. call \in FcCall /\ call.phase = "insert" /\ call.horizon = o.horizon /\ call.subject = o.subject /\ call.refresh = o.refresh
      BY <1>2, <2>1 DEF FcCall, FcPhase
    <2>4. CallFits(call, fcPlans) /\ (c = RefreshJob => JobFits(call, fcPlans))
      BY <1>2, <2>3 DEF CallFits, JobFits
    <2>5. Advances(c, call)
      BY <1>3, <2>2, <2>3, <2>4, OnlyCall DEF FcData, FcTypes
    <2> QED BY <2>5, <1>1, <1>2, <2>3 DEF Steps, Figures
  <1>6. ASSUME ~(Cardinality(PlansOf(o.subject)) > 1), PlansOf(o.subject) # {}
        PROVE  \E call : Steps(c, call)
    <2>1. fcRun' = fcRun
      BY <1>1, <1>6 DEF FcFindPlan
    <2>2. PICK i \in PlansOf(o.subject) :
              FcStep(c, IF c = RefreshJob \/ o.horizon \in {NoHorizon, fcPlans[i].horizon}
                        THEN WithPlan(c, i) ELSE [o EXCEPT !.phase = "horizon", !.plan = i])
      BY <1>1, <1>6 DEF FcFindPlan
    <2>3. CASE c = RefreshJob \/ o.horizon \in {NoHorizon, fcPlans[i].horizon}
      BY <2>1, <2>2, <2>3, <1>1, <1>2, <1>3, WithPlanSteps
    <2>4. CASE ~(c = RefreshJob \/ o.horizon \in {NoHorizon, fcPlans[i].horizon})
      <3>1. PICK call : call = [o EXCEPT !.phase = "horizon", !.plan = i]
        OBVIOUS
      <3>2. FcStep(c, call)
        BY <2>2, <2>4, <3>1
      <3>3. i \in DOMAIN fcPlans /\ fcPlans[i].subject = o.subject /\ i \in Nat
        BY PlanTypes DEF FcData, PlansOf
      <3>4. /\ call \in FcCall /\ call.phase = "horizon" /\ call.horizon = o.horizon
            /\ call.subject = o.subject /\ call.plan = i /\ call.refresh = o.refresh
        BY <1>2, <3>1, <3>3 DEF FcCall, FcPhase
      <3>5. o.horizon \in Horizons
        BY <1>2, <2>4 DEF FcCall
      <3>6. CallFits(call, fcPlans) /\ c # RefreshJob
        BY <2>4, <3>3, <3>4, <3>5 DEF CallFits
      <3>7. Advances(c, call)
        BY <1>3, <2>1, <3>2, <3>4, <3>6, OnlyCall DEF FcData, FcTypes
      <3> QED BY <3>7, <1>1, <1>2, <3>4 DEF Steps, Figures
    <2> QED BY <2>3, <2>4
  <1> QED BY <1>4, <1>5, <1>6

LEMMA Provisions ==
    ASSUME FcData, NEW c \in FcCallers, FcProvisionPlan(c)
    PROVE  \E call : Steps(c, call)
  <1>1. PICK o : o = fcCalls[c]
    OBVIOUS
  <1>2. o \in FcCall /\ CallFits(o, fcPlans) /\ (c = RefreshJob => JobFits(o, fcPlans)) /\ o.phase = "insert"
    BY <1>1, NamedCall DEF FcProvisionPlan
  <1>3. UNCHANGED <<fcLedger, fcRun>>
    BY DEF FcProvisionPlan
  <1>4. CASE Collides(o.subject)
    <2>1. PICK i \in PlansOf(o.subject) : FcStep(c, WithPlan(c, i))
      BY <1>1, <1>4 DEF FcProvisionPlan
    <2>2. UNCHANGED fcPlans
      BY <1>1, <1>4 DEF FcProvisionPlan
    <2> QED BY <2>1, <2>2, <1>1, <1>2, <1>3, WithPlanSteps
  <1>5. CASE ~Collides(o.subject)
    <2>1. PICK h, step, n : /\ h = IF o.horizon = NoHorizon THEN DefaultHorizon ELSE o.horizon
                            /\ step = IF o.refresh THEN "build" ELSE "load"
                            /\ n = Len(fcPlans) + 1
      OBVIOUS
    <2>2. PICK p, call :
              /\ p = [subject |-> o.subject, horizon |-> h, age |-> Interval, output |-> NoReport]
              /\ call = [o EXCEPT !.plan = n, !.used = h, !.phase = step]
      OBVIOUS
    <2>3. fcPlans' = Append(fcPlans, p) /\ FcStep(c, call)
      BY <1>1, <1>5, <2>1, <2>2 DEF FcProvisionPlan
    <2>4. h \in Horizons /\ step \in FcPhase /\ (c = RefreshJob => o.refresh /\ h = o.horizon)
      BY <1>2, <2>1, ForecastAssumption DEF FcCall, FcPhase, JobFits
    <2>5. p \in Plan /\ p.subject = o.subject /\ p.horizon = h /\ p.age = Interval
      BY <1>2, <2>2, <2>4, ForecastAssumption DEF Plan, FcCall
    <2>6. /\ fcPlans' \in Seq(Plan) /\ DOMAIN fcPlans' = 1..n /\ n \in Nat
          /\ fcPlans'[n] = p /\ DOMAIN fcPlans = 1..(n-1)
          /\ \A i \in DOMAIN fcPlans : fcPlans'[i] = fcPlans[i]
      BY <2>1, <2>3, <2>5, AppendProperties, LenProperties DEF FcData, FcTypes
    <2>7. PlansGrow(fcPlans, fcPlans')
      BY <2>6 DEF PlansGrow
    <2>8. OnePlanEach(fcPlans')
      <3>1. \A i \in DOMAIN fcPlans : fcPlans[i].subject = o.subject => o.subject \notin Budgets
        BY <1>5 DEF Collides, PlansOf
      <3> QED BY <2>5, <2>6, <3>1 DEF OnePlanEach, FcData
    <2>9. Stamped(fcPlans')
      BY <2>5, <2>6, ForecastAssumption DEF Stamped, FcData
    <2>10. /\ call \in FcCall /\ call.phase = step /\ call.plan = n /\ call.used = h
           /\ call.subject = o.subject /\ call.refresh = o.refresh /\ call.horizon = o.horizon
      BY <1>2, <2>2, <2>4, <2>6 DEF FcCall
    <2>11. CallFits(call, fcPlans') /\ (c = RefreshJob => JobFits(call, fcPlans'))
      BY <1>2, <2>1, <2>4, <2>5, <2>6, <2>10 DEF CallFits, JobFits
    <2>12. Advances(c, call)
      BY <1>3, <2>3, <2>6, <2>7, <2>8, <2>9, <2>10, <2>11 DEF Advances, FcStep, FcData, FcTypes
    <2>13. Figures(c, call)
      BY <1>1, <1>2, <2>1, <2>5, <2>6, <2>10 DEF Figures
    <2> QED BY <2>12, <2>13 DEF Steps
  <1> QED BY <1>4, <1>5

LEMMA UpdatesHorizon ==
    ASSUME FcData, NEW c \in FcCallers, FcUpdateHorizon(c)
    PROVE  \E call : Steps(c, call)
  <1>1. PICK o : o = fcCalls[c]
    OBVIOUS
  <1>2. o \in FcCall /\ CallFits(o, fcPlans) /\ o.phase = "horizon" /\ c # RefreshJob
    BY <1>1, NamedCall DEF FcUpdateHorizon, JobFits
  <1>3. UNCHANGED <<fcLedger, fcRun>>
    BY DEF FcUpdateHorizon
  <1>4. PICK step, p, call :
            /\ step = IF o.refresh THEN "build" ELSE "load"
            /\ p = [fcPlans[o.plan] EXCEPT !.horizon = o.horizon]
            /\ call = [o EXCEPT !.used = o.horizon, !.phase = step]
    OBVIOUS
  <1>5. fcPlans' = [fcPlans EXCEPT ![o.plan] = p] /\ FcStep(c, call)
    BY <1>1, <1>4 DEF FcUpdateHorizon
  <1>6. o.plan \in DOMAIN fcPlans /\ fcPlans[o.plan].subject = o.subject /\ o.horizon \in Horizons
    BY <1>2 DEF CallFits
  <1>7. PICK was : was = fcPlans[o.plan] /\ was \in Plan
    BY <1>6, PlanTypes DEF FcData
  <1>8. p \in Plan /\ p.subject = was.subject /\ p.output = was.output /\ p.age = was.age /\ p.horizon = o.horizon
    BY <1>4, <1>6, <1>7 DEF Plan
  <1>9. was.age < Interval => was.output # NoReport
    BY <1>6, <1>7 DEF FcData, Stamped
  <1>10. /\ fcPlans' \in Seq(Plan) /\ PlansGrow(fcPlans, fcPlans')
         /\ OnePlanEach(fcPlans') /\ Stamped(fcPlans')
         /\ DOMAIN fcPlans' = DOMAIN fcPlans /\ fcPlans'[o.plan] = p
    BY <1>5, <1>6, <1>7, <1>8, <1>9, PlanChange DEF FcData, FcTypes
  <1>11. /\ call \in FcCall /\ call.phase = step /\ call.plan = o.plan /\ call.used = o.horizon
         /\ call.subject = o.subject /\ call.refresh = o.refresh
    BY <1>2, <1>4, <1>6 DEF FcCall, FcPhase
  <1>12. fcPlans'[o.plan].subject = call.subject /\ fcPlans'[o.plan].horizon = call.used
    BY <1>6, <1>7, <1>8, <1>10, <1>11
  <1>13. CallFits(call, fcPlans')
    <2>1. call.plan \in DOMAIN fcPlans' /\ call.used \in Horizons
      BY <1>6, <1>10, <1>11
    <2>2. /\ call.phase \in {"build", "load"}
          /\ call.phase = "load" => ~call.refresh
      BY <1>4, <1>11
    <2> QED BY <2>1, <2>2, <1>11, <1>12 DEF CallFits
  <1>14. Advances(c, call)
    BY <1>2, <1>3, <1>5, <1>10, <1>11, <1>13 DEF Advances, FcStep, FcData, FcTypes
  <1>15. Figures(c, call)
    <2>1. call.phase \notin {"persist", "answered"} /\ fcCalls[c].phase = "horizon"
      BY <1>1, <1>2, <1>4, <1>11
    <2>2. o.plan \in DOMAIN fcPlans'
      BY <1>6, <1>10
    <2> QED BY <2>1, <2>2, <1>1, <1>11, <1>12 DEF Figures
  <1> QED BY <1>14, <1>15 DEF Steps

LEMMA LoadsLatest ==
    ASSUME FcData, NEW c \in FcCallers, FcLoadLatest(c)
    PROVE  \E call : Steps(c, call)
  <1>1. PICK o : o = fcCalls[c]
    OBVIOUS
  <1>2. /\ o \in FcCall /\ CallFits(o, fcPlans) /\ o.phase = "load"
        /\ c # RefreshJob /\ ~o.refresh
    BY <1>1, NamedCall DEF FcLoadLatest, JobFits, CallFits
  <1>3. UNCHANGED <<fcPlans, fcLedger, fcRun>>
    BY DEF FcLoadLatest
  <1>4. o.plan \in DOMAIN fcPlans /\ fcPlans[o.plan].output \in Report \cup {NoReport}
    BY <1>2, PlanTypes DEF CallFits, FcData, Plan
  <1>5. PICK latest : latest = fcPlans[o.plan].output /\ latest \in Report \cup {NoReport}
    BY <1>4
  <1>6. PICK call : call = IF latest = NoReport THEN [o EXCEPT !.phase = "build"]
                           ELSE [o EXCEPT !.phase = "answered", !.report = latest]
    OBVIOUS
  <1>7. FcStep(c, call)
    BY <1>1, <1>5, <1>6 DEF FcLoadLatest
  <1>8. /\ call \in FcCall /\ call.plan = o.plan /\ call.used = o.used
        /\ call.subject = o.subject /\ call.refresh = o.refresh
        /\ \/ call.phase = "build"
           \/ call.phase = "answered" /\ call.report # NoReport
    BY <1>2, <1>5, <1>6 DEF FcCall, FcPhase
  <1>9. CallFits(call, fcPlans)
    BY <1>2, <1>8 DEF CallFits
  <1>10. Advances(c, call)
    BY <1>2, <1>3, <1>7, <1>8, <1>9, OnlyCall DEF FcData, FcTypes
  <1>11. Figures(c, call)
    BY <1>1, <1>2, <1>8 DEF Figures
  <1> QED BY <1>10, <1>11 DEF Steps

LEMMA BuildsReport ==
    ASSUME FcData, NEW c \in FcCallers, FcBuildReport(c)
    PROVE  \E call : Steps(c, call)
  <1>1. PICK o : o = fcCalls[c]
    OBVIOUS
  <1>2. o \in FcCall /\ CallFits(o, fcPlans) /\ (c = RefreshJob => JobFits(o, fcPlans)) /\ o.phase = "build"
    BY <1>1, NamedCall DEF FcBuildReport
  <1>3. UNCHANGED <<fcPlans, fcLedger>>
    BY DEF FcBuildReport
  <1>4. CASE o.subject \in Broken
    BY <1>1, <1>3, <1>4, Abandons DEF FcBuildReport
  <1>5. CASE o.subject \notin Broken
    <2>1. PICK report, call : /\ report = [ledger |-> fcLedger, horizon |-> o.used]
                              /\ call = [o EXCEPT !.phase = "persist", !.report = report]
      OBVIOUS
    <2>2. FcStep(c, call) /\ fcRun' = fcRun
      BY <1>1, <1>5, <2>1 DEF FcBuildReport, Computed
    <2>3. report \in Report /\ report # NoReport
      BY <1>2, <2>1 DEF CallFits, Report, NoReport, FcData, FcTypes
    <2>4. /\ call \in FcCall /\ call.plan = o.plan /\ call.used = o.used /\ call.horizon = o.horizon
          /\ call.subject = o.subject /\ call.refresh = o.refresh
          /\ call.phase = "persist" /\ call.report = report
      BY <1>2, <2>1, <2>3 DEF FcCall, FcPhase
    <2>5. CallFits(call, fcPlans) /\ (c = RefreshJob => JobFits(call, fcPlans))
      BY <1>2, <2>3, <2>4 DEF CallFits, JobFits
    <2>6. Advances(c, call)
      BY <1>3, <2>2, <2>4, <2>5, OnlyCall DEF FcData, FcTypes
    <2>7. Figures(c, call)
      BY <1>1, <1>2, <2>1, <2>4 DEF Figures
    <2> QED BY <2>6, <2>7 DEF Steps
  <1> QED BY <1>4, <1>5

LEMMA PersistsOutput ==
    ASSUME FcData, NEW c \in FcCallers, FcPersistOutput(c)
    PROVE  \E call : Steps(c, call)
  <1>1. PICK o : o = fcCalls[c]
    OBVIOUS
  <1>2. o \in FcCall /\ CallFits(o, fcPlans) /\ (c = RefreshJob => JobFits(o, fcPlans)) /\ o.phase = "persist"
    BY <1>1, NamedCall DEF FcPersistOutput
  <1>3. /\ fcLedger' = fcLedger /\ fcRun' \in FcRuns
        /\ fcRun'.todo = fcRun.todo /\ fcRun'.copy = fcRun.copy
    BY DEF FcPersistOutput, FcData, FcTypes, FcRuns
  <1>4. PICK p, call : /\ p = [fcPlans[o.plan] EXCEPT !.output = o.report]
                       /\ call = [o EXCEPT !.phase = "answered"]
    OBVIOUS
  <1>5. fcPlans' = [fcPlans EXCEPT ![o.plan] = p] /\ FcStep(c, call)
    BY <1>1, <1>4 DEF FcPersistOutput
  <1>6. o.plan \in DOMAIN fcPlans /\ fcPlans[o.plan].subject = o.subject /\ o.report # NoReport
    BY <1>2 DEF CallFits
  <1>7. PICK was : was = fcPlans[o.plan] /\ was \in Plan
    BY <1>6, PlanTypes DEF FcData
  <1>8. o.report \in Report \cup {NoReport}
    BY <1>2 DEF FcCall
  <1>9. p \in Plan /\ p.subject = was.subject /\ p.output = o.report
    BY <1>4, <1>7, <1>8 DEF Plan
  <1>10. /\ fcPlans' \in Seq(Plan) /\ PlansGrow(fcPlans, fcPlans')
         /\ OnePlanEach(fcPlans') /\ Stamped(fcPlans')
         /\ DOMAIN fcPlans' = DOMAIN fcPlans /\ fcPlans'[o.plan] = p
    BY <1>5, <1>6, <1>7, <1>9, PlanChange DEF FcData, FcTypes
  <1>11. /\ call \in FcCall /\ call.phase = "answered" /\ call.plan = o.plan /\ call.report = o.report
         /\ call.subject = o.subject /\ call.refresh = o.refresh /\ call.horizon = o.horizon
    BY <1>2, <1>4 DEF FcCall, FcPhase
  <1>12. CallFits(call, fcPlans') /\ (c = RefreshJob => JobFits(call, fcPlans'))
    <2>1. /\ call.plan \in DOMAIN fcPlans' /\ fcPlans'[call.plan].subject = call.subject
          /\ fcPlans'[call.plan].output # NoReport
      BY <1>6, <1>7, <1>9, <1>10, <1>11
    <2>2. c = RefreshJob => call.refresh /\ call.horizon \in Horizons
      BY <1>2, <1>11 DEF JobFits
    <2> QED BY <2>1, <2>2, <1>6, <1>11 DEF CallFits, JobFits
  <1>13. Advances(c, call)
    BY <1>3, <1>5, <1>10, <1>11, <1>12 DEF Advances, FcStep
  <1>14. Figures(c, call)
    BY <1>1, <1>2, <1>11 DEF Figures
  <1> QED BY <1>13, <1>14 DEF Steps

-----------------------------------------------------------------------------
(* The endpoints and the job.                                              *)

LEMMA FcAsks ==
    ASSUME FcData, NEW c \in Clients, NEW s \in Subjects, NEW h \in Horizons \cup {NoHorizon},
           NEW refresh \in BOOLEAN, FcAsk(c, s, h, refresh)
    PROVE  \E call : Steps(c, call)
  <1>1. PICK entry : entry = fcCache[h] /\ entry.report \in Report \cup {NoReport}
    BY DEF FcData, FcTypes
  <1>2. PICK asked : asked = [NoCall EXCEPT !.phase = "find", !.subject = s, !.horizon = h,
                                            !.refresh = refresh]
    OBVIOUS
  <1>3. PICK call : call = IF s = Cash /\ ~refresh /\ Fresh(entry)
                           THEN [asked EXCEPT !.phase = "cached", !.report = entry.report]
                           ELSE asked
    OBVIOUS
  <1>4. FcStep(c, call) /\ fcCalls[c].phase = "idle"
    BY <1>1, <1>2, <1>3 DEF FcAsk
  <1>5. /\ asked \in FcCall /\ asked.phase = "find" /\ asked.refresh = refresh
    BY <1>2, FcStart DEF FcCall, FcPhase
  <1>6. /\ call \in FcCall /\ call.refresh = refresh
        /\ \/ call.phase = "find"
           \/ call.phase = "cached" /\ ~refresh
    BY <1>1, <1>3, <1>5 DEF FcCall, FcPhase
  <1>7. CallFits(call, fcPlans) /\ c # RefreshJob /\ c \in FcCallers
    BY <1>6, CallersApart DEF CallFits
  <1>8. Advances(c, call)
    BY <1>4, <1>6, <1>7, OnlyCall DEF FcAsk, FcData, FcTypes
  <1>9. Figures(c, call)
    BY <1>4, <1>6 DEF Figures
  <1> QED BY <1>8, <1>9 DEF Steps

LEMMA Answers ==
    ASSUME FcData, NEW c \in Clients, FcAnswer(c)
    PROVE  Steps(c, NoCall)
  <1>1. Advances(c, NoCall)
    BY OnlyCall, FcStart, NoCallFits, CallersApart DEF FcAnswer, FcData, FcTypes
  <1> QED BY <1>1, FcStart DEF Steps, Figures

LEMMA PicksPlan ==
    ASSUME FcData, NEW i \in fcRun.todo, FcPickPlan(i)
    PROVE  \E call : Steps(RefreshJob, call)
  <1>1. i \in DOMAIN fcPlans /\ i \in DOMAIN fcRun.copy
    BY DEF FcData, RunFits
  <1>2. fcPlans[i].subject \in Subjects /\ fcPlans[i].horizon \in Horizons
    BY <1>1, PlanTypes DEF FcData, Plan
  <1>3. fcRun.copy[i] \in Horizons
    BY <1>1, ElementOfSeq, LenProperties DEF FcData, FcTypes, FcRuns
  <1>4. PICK h, s : h = (IF fcRun.reread THEN fcPlans[i].horizon ELSE fcRun.copy[i]) /\ s = fcPlans[i].subject
    OBVIOUS
  <1>5. PICK call : call = [NoCall EXCEPT !.phase = "find", !.refresh = TRUE, !.subject = s, !.horizon = h]
    OBVIOUS
  <1>6. FcStep(RefreshJob, call)
    BY <1>4, <1>5 DEF FcPickPlan
  <1>7. /\ call \in FcCall /\ call.refresh /\ call.horizon = h /\ call.phase = "find" /\ h \in Horizons
    BY <1>2, <1>3, <1>4, <1>5, FcStart DEF FcCall, FcPhase
  <1>8. CallFits(call, fcPlans) /\ JobFits(call, fcPlans)
    BY <1>7 DEF CallFits, JobFits
  <1>9. fcRun' \in FcRuns /\ fcRun'.todo \subseteq fcRun.todo /\ fcRun'.copy = fcRun.copy
    BY DEF FcPickPlan, FcData, FcTypes, FcRuns
  <1>10. Advances(RefreshJob, call)
    BY <1>6, <1>7, <1>8, <1>9, OnlyCall, CallersApart DEF FcPickPlan
  <1> QED BY <1>10, CallersApart DEF Steps

LEMMA StampsPlan ==
    ASSUME FcData, FcStampPlan
    PROVE  Steps(RefreshJob, NoCall)
  <1>1. PICK o : o = fcCalls[RefreshJob]
    OBVIOUS
  <1>2. o \in FcCall /\ CallFits(o, fcPlans) /\ JobFits(o, fcPlans) /\ o.phase = "answered"
    BY <1>1, NamedCall, CallersApart DEF FcStampPlan
  <1>3. o.plan \in DOMAIN fcPlans /\ fcPlans[o.plan].output # NoReport
    BY <1>2 DEF CallFits, JobFits
  <1>4. PICK was : was = fcPlans[o.plan] /\ was \in Plan
    BY <1>3, PlanTypes DEF FcData
  <1>5. PICK p : p = [was EXCEPT !.age = 0]
    OBVIOUS
  <1>6. p \in Plan /\ p.subject = was.subject /\ p.output = was.output
    BY <1>4, <1>5, ForecastAssumption DEF Plan
  <1>7. fcPlans' = [fcPlans EXCEPT ![o.plan] = p]
    BY <1>1, <1>4, <1>5 DEF FcStampPlan
  <1>8. /\ fcPlans' \in Seq(Plan) /\ PlansGrow(fcPlans, fcPlans')
        /\ OnePlanEach(fcPlans') /\ Stamped(fcPlans')
    BY <1>3, <1>4, <1>6, <1>7, PlanChange DEF FcData, FcTypes
  <1>9. Advances(RefreshJob, NoCall)
    BY <1>8, FcStart, NoCallFits DEF Advances, FcStampPlan, FcStep, FcData, FcTypes
  <1> QED BY <1>9, CallersApart DEF Steps

LEMMA LosesCommit ==
    ASSUME FcData, NEW c \in FcCallers, FcLoseCommit(c)
    PROVE  Steps(c, NoCall)
  BY Abandons DEF FcLoseCommit

-----------------------------------------------------------------------------
(* What the history remembers, and the invariant step by step.             *)

LEMMA Remembers ==
    ASSUME fcSince \in [FcCallers -> Since], fcPlans' \in Seq(Plan), fcLedger \in Nat, FcRemember
    PROVE  fcSince' \in [FcCallers -> Since]
  <1>1. \A i \in DOMAIN fcPlans' : fcPlans'[i].horizon \in Horizons
    <2>1. DOMAIN fcPlans' = 1..Len(fcPlans') /\ \A i \in DOMAIN fcPlans' : fcPlans'[i] \in Plan
      BY LenProperties, ElementOfSeq
    <2> QED BY <2>1 DEF Plan
  <1>2. SUFFICES ASSUME NEW c \in FcCallers PROVE fcSince'[c] \in Since
    BY DEF FcRemember
  <1>3. PICK was : was = fcSince[c] /\ was \in Since
    OBVIOUS
  <1>4. PICK seen : seen = {fcPlans'[i].horizon :
                               i \in {j \in DOMAIN fcPlans' : fcPlans'[j].subject = fcCalls'[c].subject}}
    OBVIOUS
  <1>5. seen \subseteq Horizons
    BY <1>1, <1>4
  <1>6. \/ fcSince'[c] = [ledger |-> 0, horizons |-> {}]
        \/ fcSince'[c] = [ledger |-> fcLedger, horizons |-> seen]
        \/ fcSince'[c] = [was EXCEPT !.horizons = @ \cup seen]
    BY <1>3, <1>4 DEF FcRemember
  <1> QED BY <1>3, <1>5, <1>6 DEF Since

LEMMA SinceGrows ==
    ASSUME fcSince \in [FcCallers -> Since], FcRemember, NEW c \in Clients,
           fcCalls'[c].phase # "idle"
    PROVE  /\ fcCalls[c].phase = "idle" => fcSince'[c].ledger = fcLedger
           /\ fcCalls[c].phase # "idle" => /\ fcSince'[c].ledger = fcSince[c].ledger
                                           /\ fcSince[c].horizons \subseteq fcSince'[c].horizons
           /\ \A i \in DOMAIN fcPlans' :
                  fcPlans'[i].subject = fcCalls'[c].subject =>
                      fcPlans'[i].horizon \in fcSince'[c].horizons
  <1>1. PICK was : was = fcSince[c] /\ was \in Since
    BY CallersApart
  <1>2. PICK seen : seen = {fcPlans'[i].horizon :
                               i \in {j \in DOMAIN fcPlans' : fcPlans'[j].subject = fcCalls'[c].subject}}
    OBVIOUS
  <1>3. \A i \in DOMAIN fcPlans' :
            fcPlans'[i].subject = fcCalls'[c].subject => fcPlans'[i].horizon \in seen
    BY <1>2
  <1>4. fcSince'[c] = IF fcCalls[c].phase = "idle" THEN [ledger |-> fcLedger, horizons |-> seen]
                      ELSE [was EXCEPT !.horizons = @ \cup seen]
    BY <1>1, <1>2, CallersApart DEF FcRemember
  <1>5. CASE fcCalls[c].phase = "idle"
    BY <1>3, <1>4, <1>5
  <1>6. CASE fcCalls[c].phase # "idle"
    <2>1. fcSince'[c].ledger = was.ledger /\ fcSince'[c].horizons = was.horizons \cup seen
      BY <1>1, <1>4, <1>6 DEF Since
    <2> QED BY <1>1, <1>3, <1>6, <2>1
  <1> QED BY <1>5, <1>6

\* A call that has not moved, or has only grown older.
LEMMA StillAnswers ==
    ASSUME FcInv, FcRemember, fcLedger' \in Nat, fcLedger' >= fcLedger, NEW c \in Clients,
           fcCalls'[c].phase = fcCalls[c].phase, fcCalls'[c].refresh = fcCalls[c].refresh,
           fcCalls'[c].used = fcCalls[c].used, fcCalls'[c].report = fcCalls[c].report
    PROVE  Answering(fcCalls[c], fcSince[c], fcLedger)'
  <1>1. PICK was, now, since, next :
            /\ was = fcCalls[c] /\ now = fcCalls'[c]
            /\ since = fcSince[c] /\ next = fcSince'[c]
    OBVIOUS
  <1>2. Answering(was, since, fcLedger) /\ since \in Since /\ fcLedger \in Nat
    BY <1>1, CallersApart DEF FcInv, FcData, FcTypes
  <1>3. now.phase = was.phase /\ now.refresh = was.refresh /\ now.used = was.used /\ now.report = was.report
    BY <1>1
  <1>4. CASE now.phase = "idle"
    BY <1>1, <1>4 DEF Answering
  <1>5. CASE now.phase # "idle"
    <2>1. next.ledger = since.ledger /\ since.horizons \subseteq next.horizons
      BY <1>1, <1>3, <1>5, SinceGrows DEF FcInv
    <2>2. since.ledger \in Nat /\ since.ledger <= fcLedger'
      BY <1>2, <1>3, <1>5 DEF Answering, Since
    <2>3. Answering(now, next, fcLedger')
      BY <1>2, <1>3, <2>1, <2>2 DEF Answering
    <2> QED BY <1>1, <2>3
  <1> QED BY <1>4, <1>5

\* The step of one call.
LEMMA OneSteps ==
    ASSUME FcInv, FcRemember, NEW c \in FcCallers, NEW call, Steps(c, call),
           fcCache' \in [Horizons \cup {NoHorizon} -> [report: Report \cup {NoReport}, age: 0..Ttl]],
           fcFailures' \in Nat
    PROVE  FcInv'
  <1> USE DEF FcInv, FcData
  <1>1. Advances(c, call)
    BY DEF Steps
  <1>2. \A d \in FcCallers : fcCalls'[d] = IF d = c THEN call ELSE fcCalls[d]
    BY <1>1 DEF Advances, FcTypes
  <1>3. FcTypes'
    BY <1>1 DEF Advances, FcTypes
  <1>4. ASSUME NEW d \in FcCallers
        PROVE  CallFits(fcCalls[d], fcPlans)' /\ (d = RefreshJob => JobFits(fcCalls[d], fcPlans)')
    <2>1. CASE d = c
      BY <1>1, <1>2, <2>1 DEF Advances
    <2>2. CASE d # c
      BY <1>1, <1>2, <2>2, StillFits DEF Advances
    <2> QED BY <2>1, <2>2
  <1>5. RunFits'
    BY <1>1 DEF Advances, RunFits, PlansGrow
  <1>6. FcData'
    BY <1>1, <1>3, <1>4, <1>5, CallersApart DEF Advances
  <1>7. fcSince' \in [FcCallers -> Since]
    BY <1>3, Remembers DEF FcTypes
  <1>8. ASSUME NEW d \in Clients PROVE Answering(fcCalls[d], fcSince[d], fcLedger)'
    <2>1. fcLedger' = fcLedger /\ fcLedger \in Nat
      BY <1>1 DEF Advances, FcTypes
    <2>2. CASE d # c
      BY <1>2, <2>1, <2>2, StillAnswers, CallersApart
    <2>3. CASE d = c
      <3>1. PICK old, since, next :
                old = fcCalls[c] /\ since = fcSince[c] /\ next = fcSince'[c]
        OBVIOUS
      <3>2. Answering(old, since, fcLedger) /\ since \in Since /\ fcCalls'[c] = call
        BY <1>2, <2>3, <3>1, CallersApart
      <3>3. CASE call.phase = "idle"
        BY <3>2, <3>3, <2>3 DEF Answering
      <3>4. CASE call.phase # "idle"
        <4>1. /\ old.phase = "idle" => next.ledger = fcLedger
              /\ old.phase # "idle" => /\ next.ledger = since.ledger
                                       /\ since.horizons \subseteq next.horizons
              /\ \A i \in DOMAIN fcPlans' :
                     fcPlans'[i].subject = call.subject => fcPlans'[i].horizon \in next.horizons
          BY <2>3, <3>1, <3>2, <3>4, SinceGrows
        <4>2. next.ledger <= fcLedger /\ next.ledger \in Nat
          BY <2>1, <3>2, <4>1 DEF Answering, Since
        <4>3. Figures(c, call)
          BY <2>3 DEF Steps
        <4>4. call.refresh /\ call.phase = "build" => call.used \in next.horizons
          BY <4>1, <4>3 DEF Figures
        <4>5. call.refresh /\ call.phase = "persist" =>
                  call.report.ledger >= next.ledger /\ call.report.horizon \in next.horizons
          BY <3>1, <3>2, <4>1, <4>2, <4>3, <2>1 DEF Figures, Answering
        <4>6. call.refresh /\ call.phase = "answered" =>
                  call.report.ledger >= next.ledger /\ call.report.horizon \in next.horizons
          BY <3>1, <3>2, <4>1, <4>3 DEF Figures, Answering
        <4>7. Answering(call, next, fcLedger')
          BY <2>1, <4>2, <4>4, <4>5, <4>6 DEF Answering
        <4> QED BY <2>3, <3>1, <3>2, <4>7
      <3> QED BY <3>3, <3>4
    <2> QED BY <2>2, <2>3
  <1> QED BY <1>6, <1>7, <1>8

\* A step that moves no call.
LEMMA NoCallSteps ==
    ASSUME FcInv, FcRemember, UNCHANGED <<fcPlans, fcCalls>>,
           fcLedger' \in Nat, fcLedger' >= fcLedger,
           fcCache' = fcCache, fcFailures' = fcFailures,
           fcRun' \in FcRuns, fcRun'.todo \subseteq DOMAIN fcPlans \cap DOMAIN fcRun'.copy
    PROVE  FcInv'
  <1> USE DEF FcInv, FcData
  <1>1. FcTypes' /\ RunFits'
    BY DEF FcTypes, RunFits
  <1>2. FcData'
    BY <1>1
  <1>3. fcSince' \in [FcCallers -> Since]
    BY <1>1, Remembers DEF FcTypes
  <1>4. \A d \in Clients : Answering(fcCalls[d], fcSince[d], fcLedger)'
    BY StillAnswers
  <1> QED BY <1>2, <1>3, <1>4

LEMMA StartsRun ==
    ASSUME FcInv, FcRemember, FcStartRun
    PROVE  FcInv'
  <1>1. PICK copy, todo : /\ copy = [i \in DOMAIN fcPlans |-> fcPlans[i].horizon]
                          /\ todo = {i \in DOMAIN fcPlans : Due(i)}
    OBVIOUS
  <1>2. copy \in Seq(Horizons) /\ DOMAIN copy = DOMAIN fcPlans
    <2>1. \A i \in DOMAIN fcPlans : fcPlans[i].horizon \in Horizons
      BY PlanTypes DEF FcInv, FcData, Plan
    <2> QED BY <1>1, <2>1, PlanTypes DEF FcInv, FcData
  <1>3. fcRun' = [on |-> TRUE, todo |-> todo, reread |-> FALSE, copy |-> copy]
    BY <1>1 DEF FcStartRun
  <1>4. todo \subseteq DOMAIN fcPlans /\ DOMAIN fcPlans \subseteq Nat
    BY <1>1, PlanTypes DEF FcInv, FcData
  <1>5. fcRun' \in FcRuns /\ fcRun'.todo \subseteq DOMAIN fcPlans \cap DOMAIN fcRun'.copy
    BY <1>2, <1>3, <1>4 DEF FcRuns
  <1> QED BY <1>5, NoCallSteps DEF FcStartRun, FcInv, FcData, FcTypes

LEMMA Restarts ==
    ASSUME FcInv, FcRemember, FcRestart
    PROVE  FcInv'
  <1> USE DEF FcInv, FcData
  <1>1. \A c \in FcCallers : fcCalls'[c] = NoCall
    BY DEF FcRestart
  <1>2. FcTypes'
    <2>1. fcCalls' \in [FcCallers -> FcCall]
      BY FcStart DEF FcRestart
    <2>2. fcCache' \in [Horizons \cup {NoHorizon} -> [report: Report \cup {NoReport}, age: 0..Ttl]]
      BY FcStart DEF FcRestart, FcTypes
    <2>3. fcFailures' \in Nat
      BY DEF FcRestart, FcTypes
    <2> QED BY <2>1, <2>2, <2>3, FcStart DEF FcRestart, FcTypes
  <1>3. \A c \in FcCallers : CallFits(fcCalls[c], fcPlans)' /\ JobFits(fcCalls[c], fcPlans)'
    BY <1>1, NoCallFits
  <1>4. RunFits'
    BY FcStart DEF FcRestart, RunFits
  <1>5. FcData'
    BY <1>2, <1>3, <1>4, CallersApart DEF FcRestart
  <1>6. fcSince' \in [FcCallers -> Since]
    BY <1>2, Remembers DEF FcTypes
  <1>7. \A c \in Clients : Answering(fcCalls[c], fcSince[c], fcLedger)'
    BY <1>1, FcStart, CallersApart DEF Answering
  <1> QED BY <1>5, <1>6, <1>7

LEMMA OlderAge == \A limit \in Nat : \A age \in 0..limit :
                      FcOlder(age, limit) \in 0..limit /\ (FcOlder(age, limit) < limit => age < limit)
  BY DEF FcOlder

LEMMA Ticks ==
    ASSUME FcInv, FcRemember, FcTick
    PROVE  FcInv'
  <1> USE DEF FcInv, FcData
  <1>0. Interval \in Nat /\ Ttl \in Nat
    BY ForecastAssumption
  <1>1. DOMAIN fcPlans' = DOMAIN fcPlans /\ DOMAIN fcPlans = 1..Len(fcPlans) /\ Len(fcPlans) \in Nat
    BY PlanTypes DEF FcTick
  <1>2. ASSUME NEW i \in DOMAIN fcPlans
        PROVE  /\ fcPlans'[i] \in Plan
               /\ fcPlans'[i].subject = fcPlans[i].subject /\ fcPlans'[i].output = fcPlans[i].output
               /\ fcPlans'[i].age < Interval => fcPlans[i].age < Interval
    <2>1. PICK was, age : was = fcPlans[i] /\ was \in Plan /\ age = FcOlder(was.age, Interval)
      BY PlanTypes
    <2>2. fcPlans'[i] = [was EXCEPT !.age = age]
      BY <2>1 DEF FcTick
    <2>3. age \in 0..Interval /\ (age < Interval => was.age < Interval)
      BY <1>0, <2>1, OlderAge DEF Plan
    <2>4. PICK now : now = fcPlans'[i] /\ now = [was EXCEPT !.age = age]
      BY <2>2
    <2>5. now \in Plan /\ now.subject = was.subject /\ now.output = was.output /\ now.age = age
      BY <2>1, <2>3, <2>4 DEF Plan
    <2> QED BY <2>1, <2>3, <2>4, <2>5
  <1>3. ASSUME NEW c \in FcCallers
        PROVE  /\ fcCalls'[c] \in FcCall
               /\ fcCalls'[c].phase = fcCalls[c].phase /\ fcCalls'[c].subject = fcCalls[c].subject
               /\ fcCalls'[c].refresh = fcCalls[c].refresh /\ fcCalls'[c].horizon = fcCalls[c].horizon
               /\ fcCalls'[c].used = fcCalls[c].used /\ fcCalls'[c].report = fcCalls[c].report
               /\ fcCalls'[c].plan = fcCalls[c].plan
    <2>1. PICK was, age : was = fcCalls[c] /\ was \in FcCall /\ age = FcOlder(was.age, Ttl)
      BY NamedCall
    <2>2. PICK now : now = fcCalls'[c] /\ (now = was \/ now = [was EXCEPT !.age = age])
      BY <2>1 DEF FcTick
    <2>3. age \in 0..Ttl
      BY <1>0, <2>1, OlderAge DEF FcCall
    <2>4. /\ now \in FcCall /\ now.phase = was.phase /\ now.subject = was.subject
          /\ now.refresh = was.refresh /\ now.horizon = was.horizon
          /\ now.used = was.used /\ now.report = was.report /\ now.plan = was.plan
      BY <2>1, <2>2, <2>3 DEF FcCall
    <2> QED BY <2>1, <2>2, <2>4
  <1>4. FcTypes'
    <2>1. fcPlans' \in Seq(Plan)
      <3>1. PICK n : n = Len(fcPlans) /\ n \in Nat /\ DOMAIN fcPlans = 1..n
        BY <1>1
      <3>2. PICK plans : /\ plans = [i \in 1..n |-> fcPlans'[i]]
                         /\ plans = fcPlans'
        BY <3>1 DEF FcTick
      <3>3. \A i \in 1..n : plans[i] \in Plan
        BY <1>2, <3>1, <3>2
      <3> QED BY <3>1, <3>2, <3>3
    <2>2. fcCalls' \in [FcCallers -> FcCall]
      BY <1>3 DEF FcTick
    <2>3. ASSUME NEW h \in Horizons \cup {NoHorizon}
          PROVE  fcCache'[h] \in [report: Report \cup {NoReport}, age: 0..Ttl]
      <3>1. PICK was, age : /\ was = fcCache[h] /\ age = FcOlder(was.age, Ttl)
                            /\ was \in [report: Report \cup {NoReport}, age: 0..Ttl]
        BY DEF FcTypes
      <3>2. age \in 0..Ttl
        BY <1>0, <3>1, OlderAge
      <3>3. fcCache'[h] = [was EXCEPT !.age = age]
        BY <3>1 DEF FcTick, FcTypes
      <3> QED BY <3>1, <3>2, <3>3
    <2>4. fcCache' \in [Horizons \cup {NoHorizon} -> [report: Report \cup {NoReport}, age: 0..Ttl]]
      BY <2>3 DEF FcTick, FcTypes
    <2> QED BY <2>1, <2>2, <2>4 DEF FcTick, FcTypes
  <1>5. PlansGrow(fcPlans, fcPlans')
    BY <1>1, <1>2 DEF PlansGrow
  <1>6. ASSUME NEW c \in FcCallers
        PROVE  CallFits(fcCalls[c], fcPlans)' /\ (c = RefreshJob => JobFits(fcCalls[c], fcPlans)')
    <2>1. CallFits(fcCalls[c], fcPlans') /\ (c = RefreshJob => JobFits(fcCalls[c], fcPlans'))
      BY <1>5, StillFits
    <2> QED BY <2>1, <1>3 DEF CallFits, JobFits
  <1>7. OnePlanEach(fcPlans')
    BY <1>1, <1>2 DEF OnePlanEach
  <1>8. Stamped(fcPlans')
    BY <1>1, <1>2 DEF Stamped
  <1>9. RunFits'
    BY <1>1 DEF FcTick, RunFits
  <1>10. FcData'
    BY <1>4, <1>6, <1>7, <1>8, <1>9, CallersApart
  <1>11. fcSince' \in [FcCallers -> Since]
    BY <1>4, Remembers DEF FcTypes
  <1>12. fcLedger' \in Nat /\ fcLedger' >= fcLedger
    BY DEF FcTick, FcTypes
  <1>13. \A c \in Clients : Answering(fcCalls[c], fcSince[c], fcLedger)'
    BY <1>3, <1>12, StillAnswers, CallersApart
  <1> QED BY <1>10, <1>11, <1>13

LEMMA FcInitInv ==
    ASSUME FcInit
    PROVE  FcInv
  <1>1. FcTypes
    BY FcStart DEF FcInit, FcTypes
  <1>2. \A c \in FcCallers : fcCalls[c] = NoCall
    BY DEF FcInit
  <1>3. \A c \in FcCallers : CallFits(fcCalls[c], fcPlans) /\ JobFits(fcCalls[c], fcPlans)
    BY <1>2, NoCallFits
  <1>4. DOMAIN fcPlans = {}
    BY DEF FcInit
  <1>5. RunFits /\ OnePlanEach(fcPlans) /\ Stamped(fcPlans)
    BY <1>4, FcStart DEF FcInit, RunFits, OnePlanEach, Stamped
  <1>6. fcSince \in [FcCallers -> Since]
    BY DEF FcInit, Since
  <1>7. \A c \in Clients : Answering(fcCalls[c], fcSince[c], fcLedger)
    BY <1>2, FcStart, CallersApart DEF Answering
  <1> QED BY <1>1, <1>3, <1>5, <1>6, <1>7, CallersApart DEF FcInv, FcData

LEMMA FcNextInv ==
    ASSUME FcInv, [FcNext]_fcVars
    PROVE  FcInv'
  <1> USE DEF FcInv, FcData
  <1>1. ASSUME FcRemember, NEW c \in FcCallers, FcService(c)
        PROVE  FcInv'
    <2>1. \E call : Steps(c, call)
      BY <1>1, Finds, Provisions, UpdatesHorizon, LoadsLatest, BuildsReport, PersistsOutput DEF FcService
    <2>2. fcCache' = fcCache /\ fcFailures' = fcFailures
      BY <1>1 DEF FcService, FcFindPlan, FcProvisionPlan, FcUpdateHorizon, FcLoadLatest,
                  FcBuildReport, FcPersistOutput
    <2> QED BY <1>1, <2>1, <2>2, OneSteps DEF FcTypes
  <1>2. ASSUME FcRemember, NEW c \in FcCallers, FcLoseCommit(c)
        PROVE  FcInv'
    <2>1. fcCache' = fcCache /\ fcFailures' \in Nat
      BY <1>2 DEF FcLoseCommit, FcTypes
    <2> QED BY <1>2, <2>1, LosesCommit, OneSteps DEF FcTypes
  <1>3. ASSUME FcRemember, NEW c \in Clients, NEW s \in Subjects, NEW h \in Horizons \cup {NoHorizon},
               NEW refresh \in BOOLEAN, FcAsk(c, s, h, refresh)
        PROVE  FcInv'
    <2>1. \E call : Steps(c, call)
      BY <1>3, FcAsks
    <2> QED BY <1>3, <2>1, OneSteps, CallersApart DEF FcAsk, FcTypes
  <1>4. ASSUME FcRemember, NEW c \in Clients, FcAnswer(c)
        PROVE  FcInv'
    <2>1. PICK o : o = fcCalls[c] /\ o \in FcCall
      BY NamedCall, CallersApart
    <2>2. PICK entry : entry = [report |-> o.report, age |-> o.age]
      OBVIOUS
    <2>3. fcCache' = fcCache \/ fcCache' = [fcCache EXCEPT ![o.horizon] = entry]
      BY <1>4, <2>1, <2>2 DEF FcAnswer
    <2>4. entry \in [report: Report \cup {NoReport}, age: 0..Ttl]
      BY <2>1, <2>2 DEF FcCall
    <2>5. fcCache' \in [Horizons \cup {NoHorizon} -> [report: Report \cup {NoReport}, age: 0..Ttl]]
      BY <2>3, <2>4 DEF FcTypes
    <2> QED BY <1>4, <2>5, Answers, OneSteps, CallersApart DEF FcAnswer, FcTypes
  <1>5. ASSUME FcRemember, NEW i \in fcRun.todo, FcPickPlan(i)
        PROVE  FcInv'
    <2>1. \E call : Steps(RefreshJob, call)
      BY <1>5, PicksPlan
    <2> QED BY <1>5, <2>1, OneSteps, CallersApart DEF FcPickPlan, FcTypes
  <1>6. ASSUME FcRemember, FcStampPlan
        PROVE  FcInv'
    BY <1>6, StampsPlan, OneSteps, CallersApart DEF FcStampPlan, FcTypes
  <1>7. ASSUME FcRemember, FcEndRun
        PROVE  FcInv'
    BY <1>7, NoCallSteps, FcStart DEF FcEndRun, FcTypes
  <1>8. ASSUME FcRemember, FcPost
        PROVE  FcInv'
    <2>1. fcLedger' \in Nat /\ fcLedger' >= fcLedger
      BY <1>8 DEF FcPost, FcTypes
    <2> QED BY <1>8, <2>1, NoCallSteps DEF FcPost, FcTypes, RunFits
  <1>9. CASE UNCHANGED fcVars
    BY <1>9 DEF fcVars, FcTypes, RunFits, Answering, CallFits, JobFits, OnePlanEach, Stamped
  <1>10. CASE FcNext
    BY <1>10, <1>1, <1>2, <1>3, <1>4, <1>5, <1>6, <1>7, <1>8, StartsRun, Restarts, Ticks
       DEF FcNext, FcRequest, FcJobStep
  <1> QED BY <1>9, <1>10

LEMMA ForecastKept == FcSpec => []FcInv
  BY FcInitInv, FcNextInv, PTL DEF FcSpec

LEMMA FcInvShows ==
    ASSUME FcInv
    PROVE  FcTypeOK /\ BudgetPlanOnce /\ RefreshedIsCurrent /\ StampedHasOutput
  <1> USE DEF FcInv, FcData
  <1>1. FcTypeOK
    BY DEF FcTypeOK, FcTypes, FcCall, FcPhase, FcRuns, RunFits, Since
  <1>2. BudgetPlanOnce
    <2>1. SUFFICES ASSUME NEW b \in Budgets PROVE Cardinality(PlansOf(b)) <= 1
      BY DEF BudgetPlanOnce
    <2>2. CASE PlansOf(b) = {}
      BY <2>2, FS_EmptySet
    <2>3. CASE PlansOf(b) # {}
      <3>1. PICK i : i \in PlansOf(b)
        BY <2>3
      <3>2. PlansOf(b) = {i}
        BY <3>1 DEF PlansOf, OnePlanEach
      <3>3. Cardinality({i}) = 1
        BY FS_Singleton
      <3> QED BY <3>2, <3>3
    <2> QED BY <2>2, <2>3
  <1>3. RefreshedIsCurrent
    BY DEF RefreshedIsCurrent, Answering
  <1>4. StampedHasOutput
    BY DEF StampedHasOutput, Stamped
  <1> QED BY <1>1, <1>2, <1>3, <1>4

\* Every variable of the forecast service and its job keeps its type.
THEOREM ForecastTyped == FcSpec => []FcTypeOK
  BY ForecastKept, FcInvShows, PTL

\* However many first requests race to create it, a budget has one plan
\* (_provision_plan, forecast_cache.py).
THEOREM BudgetHasOnePlan == FcSpec => []BudgetPlanOnce
  BY ForecastKept, FcInvShows, PTL

\* A request for a refresh is answered with a ledger no older than the request and a
\* horizon the plan has had since (build_cashflow_forecast, run_budget_forecast).
THEOREM RefreshAnswersCurrently == FcSpec => []RefreshedIsCurrent
  BY ForecastKept, FcInvShows, PTL

\* The job stamps a plan as refreshed only when an output of it is written
\* (_run_scheduled_refresh).
THEOREM StampFollowsOutput == FcSpec => []StampedHasOutput
  BY ForecastKept, FcInvShows, PTL

-----------------------------------------------------------------------------
(* The audit log.  Every entry is in one place: in a thread's hands, in    *)
(* the queue, with the worker, or tried (EntriesApart, QueueIsRest,        *)
(* DoneIsTried); and what the reader of the pages has not seen lies below  *)
(* the cursor, or was recorded out of order (PagesReach).                  *)

Carrying == {"commit", "start", "put"}
AwCallType == [step: Carrying \cup {"idle", "join", "returned"},
               entry: 0..MaxEntries, before: SUBSET (1..MaxEntries)]
EntriesOf(s) == {s[n] : n \in DOMAIN s}
NoneTwice(s) == \A m, n \in DOMAIN s : s[m] = s[n] => m = n

\* How many entries the worker has taken from the queue.
TakenCount == Len(awPut) - Len(awQueue)

AwTypes ==
    /\ awClock \in 0..MaxEntries
    /\ awQueue \in Seq(0..MaxEntries)
    /\ awUnfinished \in Nat
    /\ awStop \in BOOLEAN /\ awLate \in BOOLEAN
    /\ awWorker \in {"none", "check", "get", "write", "finish", "ended"}
    /\ awTaken \in 0..MaxEntries
    /\ awTable \in Seq(1..MaxEntries)
    /\ awPut \in Seq(1..MaxEntries)
    /\ awCalls \in [Loggers -> AwCallType]
    /\ awReader \in [on: BOOLEAN, cursor: Nat, shown: SUBSET Nat, there: SUBSET Nat]
    /\ awLost \in SUBSET (1..MaxEntries)

\* Every entry has a stamp of its own, and is in one thread's hands, or queued or recorded once.
EntriesApart ==
    /\ NoneTwice(awTable) /\ NoneTwice(awPut)
    /\ EntriesOf(awTable) \subseteq 1..awClock /\ EntriesOf(awPut) \subseteq 1..awClock
    /\ \A t \in Loggers : awCalls[t].step \in Carrying =>
           /\ awCalls[t].entry \in 1..awClock
           /\ awCalls[t].entry \notin EntriesOf(awTable) \cup EntriesOf(awPut)
           /\ \A u \in Loggers : awCalls[u].step \in Carrying /\ awCalls[u].entry = awCalls[t].entry
                                     => u = t

\* The queue holds the last of what was put, and before them the entry the worker writes.
QueueIsRest ==
    /\ ~Started => /\ awPut = <<>> /\ awUnfinished = 0 /\ awWorker = "none"
                   /\ \A t \in Loggers : awCalls[t].step \notin {"put", "join", "returned"}
    /\ Started =>
           /\ awWorker # "none"
           /\ TakenCount >= 0
           /\ \A n \in DOMAIN awQueue : awQueue[n] = awPut[TakenCount + n]
           /\ awUnfinished = Len(awQueue) + (IF awWorker \in {"write", "finish"} THEN 1 ELSE 0)
           /\ awWorker \in {"write", "finish"} => TakenCount > 0 /\ awTaken = awPut[TakenCount]

\* What is done was tried; what is recorded was taken.
DoneIsTried ==
    /\ \A n \in DOMAIN awPut :
           n <= Len(awPut) - awUnfinished => awPut[n] \in Recorded \cup awLost
    /\ awWorker = "finish" => awTaken \in Recorded \cup awLost
    /\ Started => \A n \in DOMAIN awPut : awPut[n] \in Recorded =>
                      n <= TakenCount /\ (awWorker = "write" => n < TakenCount)

WaitersKnow ==
    \A t \in Loggers :
        /\ AwAt(t, "join") => awCalls[t].before \subseteq EntriesOf(awPut)
        /\ AwAt(t, "returned") => awCalls[t].before \subseteq Recorded \cup awLost

\* What the reader has not seen lies below the cursor, or was recorded out of order.
PagesReach ==
    /\ ~awReader.on => awReader = Unpaged
    /\ awReader.on =>
        /\ awReader.cursor \in DOMAIN awTable /\ awReader.there \subseteq DOMAIN awTable
        /\ \A n \in awReader.there \ awReader.shown : n < awReader.cursor \/ Reordered(n)

AwInv ==
    /\ AwTypes /\ EntriesApart /\ QueueIsRest /\ DoneIsTried /\ WaitersKnow
    /\ WrittenInOrder /\ PagesReach
-----------------------------------------------------------------------------
(* Lemmas about the operators.                                             *)

LEMMA AwSequences ==
    ASSUME AwTypes
    PROVE  /\ DOMAIN awTable = 1..Len(awTable) /\ Len(awTable) \in Nat
           /\ DOMAIN awPut = 1..Len(awPut) /\ Len(awPut) \in Nat
           /\ DOMAIN awQueue = 1..Len(awQueue) /\ Len(awQueue) \in Nat
           /\ \A n \in DOMAIN awTable : awTable[n] \in 1..MaxEntries
           /\ \A n \in DOMAIN awPut : awPut[n] \in 1..MaxEntries
           /\ \A n \in DOMAIN awQueue : awQueue[n] \in 0..MaxEntries
           /\ MaxEntries \in Nat /\ awClock \in Nat
  BY AuditAssumption, LenProperties, ElementOfSeq DEF AwTypes

LEMMA AwCallOf ==
    ASSUME AwTypes, NEW t \in Loggers
    PROVE  awCalls[t] \in AwCallType
  BY DEF AwTypes

LEMMA RestedType == Rested \in AwCallType /\ Rested.step = "idle"
  BY AuditAssumption DEF Rested, AwCallType, Carrying

\* An entry more at the end of a sequence.
LEMMA OneMore ==
    ASSUME NEW S, NEW s \in Seq(S), NEW new, NEW e \in S, new = Append(s, e)
    PROVE  /\ new \in Seq(S) /\ Len(s) \in Nat /\ Len(new) = Len(s) + 1
           /\ DOMAIN s = 1..Len(s) /\ DOMAIN new = 1..(Len(s) + 1)
           /\ \A n \in DOMAIN s : new[n] = s[n]
           /\ new[Len(s) + 1] = e
           /\ EntriesOf(new) = EntriesOf(s) \cup {e}
  <1>1. /\ new \in Seq(S) /\ Len(s) \in Nat /\ Len(new) = Len(s) + 1
        /\ DOMAIN s = 1..Len(s) /\ DOMAIN new = 1..(Len(s) + 1)
        /\ \A n \in DOMAIN s : new[n] = s[n]
        /\ new[Len(s) + 1] = e
    BY AppendProperties, LenProperties
  <1>2. DOMAIN new = DOMAIN s \cup {Len(s) + 1} /\ Len(s) + 1 \notin DOMAIN s
    BY <1>1
  <1>3. EntriesOf(new) = EntriesOf(s) \cup {e}
    BY <1>1, <1>2 DEF EntriesOf
  <1> QED BY <1>1, <1>3

LEMMA OneMoreApart ==
    ASSUME NEW S, NEW s \in Seq(S), NEW new, NEW e \in S, new = Append(s, e),
           NoneTwice(s), e \notin EntriesOf(s)
    PROVE  NoneTwice(new)
  <1>1. /\ DOMAIN new = DOMAIN s \cup {Len(s) + 1}
        /\ \A n \in DOMAIN s : new[n] = s[n] /\ new[n] # e
        /\ new[Len(s) + 1] = e
    BY OneMore DEF EntriesOf
  <1> QED BY <1>1 DEF NoneTwice

LEMMA RecordedIs == Recorded = EntriesOf(awTable)
  BY DEF Recorded, EntriesOf

\* The pages reach as far when an entry is recorded meanwhile.
LEMMA PagesStay ==
    ASSUME PagesReach, UNCHANGED awReader, DOMAIN awTable \subseteq DOMAIN awTable',
           \A n \in DOMAIN awTable : awTable'[n] = awTable[n]
    PROVE  PagesReach'
  BY DEF PagesReach, Reordered

\* Nothing is recorded, queued, taken or read.
LEMMA OnlyCalls ==
    ASSUME AwInv, UNCHANGED <<awTable, awReader, awLost, awPut, awQueue, awTaken, awUnfinished, awWorker>>
    PROVE  WrittenInOrder' /\ PagesReach' /\ DoneIsTried' /\ Recorded' = Recorded
           /\ TakenCount' = TakenCount /\ Started' = Started
  BY DEF AwInv, WrittenInOrder, PagesReach, Reordered, DoneIsTried, Recorded, TakenCount, Started

\* A thread waits, returns or rests.
LEMMA CallMoves ==
    ASSUME AwInv, NEW t \in Loggers, NEW call \in AwCallType,
           awCalls' = [awCalls EXCEPT ![t] = call], call.step \notin Carrying,
           call.step \in {"join", "returned"} => Started,
           call.step = "join" => call.before \subseteq EntriesOf(awPut),
           call.step = "returned" => call.before \subseteq Recorded \cup awLost,
           awStop' \in BOOLEAN,
           UNCHANGED <<awClock, awTable, awReader, awLost, awPut, awLate, awQueue, awTaken,
                       awUnfinished, awWorker>>
    PROVE  AwInv'
  <1> USE DEF AwInv
  <1>1. \A u \in Loggers : awCalls'[u] = IF u = t THEN call ELSE awCalls[u]
    BY DEF AwTypes
  <1>2. AwTypes'
    BY DEF AwTypes
  <1>3. WrittenInOrder' /\ PagesReach' /\ DoneIsTried' /\ Recorded' = Recorded
        /\ TakenCount' = TakenCount /\ Started' = Started
    BY OnlyCalls
  <1>4. EntriesApart'
    BY <1>1 DEF EntriesApart
  <1>5. QueueIsRest'
    BY <1>1, <1>3 DEF QueueIsRest, Carrying
  <1>6. WaitersKnow'
    BY <1>1, <1>3 DEF WaitersKnow, AwAt
  <1> QED BY <1>2, <1>3, <1>4, <1>5, <1>6

-----------------------------------------------------------------------------
(* The steps of the threads.                                               *)

LEMMA Waits ==
    ASSUME AwInv, NEW t \in Loggers, AwFlush(t) \/ AwClose(t)
    PROVE  AwInv'
  <1>1. PICK call : call = [Rested EXCEPT !.step = "join", !.before = EntriesOf(awPut)]
    OBVIOUS
  <1>2. EntriesOf(awPut) \subseteq 1..MaxEntries
    BY AwSequences DEF AwInv, EntriesOf
  <1>3. call \in AwCallType /\ call.step = "join" /\ call.before = EntriesOf(awPut)
    BY <1>1, <1>2, RestedType DEF AwCallType, Carrying
  <1>4. awCalls' = [awCalls EXCEPT ![t] = call]
    BY <1>1 DEF AwFlush, AwClose, EntriesOf
  <1>5. Started /\ awStop' \in BOOLEAN
    BY DEF AwFlush, AwClose, AwInv, AwTypes, awQueueing
  <1> QED BY <1>3, <1>4, <1>5, CallMoves DEF AwFlush, AwClose, awQueueing, awWitness, Carrying

LEMMA JoinReturns ==
    ASSUME AwInv, NEW t \in Loggers, AwJoined(t)
    PROVE  AwInv'
  <1>1. PICK o, call : o = awCalls[t] /\ call = [o EXCEPT !.step = "returned"]
    OBVIOUS
  <1>2. o \in AwCallType /\ o.step = "join"
    BY <1>1, AwCallOf DEF AwJoined, AwAt, AwInv
  <1>3. call \in AwCallType /\ call.step = "returned" /\ call.before = o.before
    BY <1>1, <1>2 DEF AwCallType, Carrying
  <1>4. awCalls' = [awCalls EXCEPT ![t] = call]
    BY <1>1 DEF AwJoined, AwGo
  <1>5. Started /\ o.before \subseteq EntriesOf(awPut)
    BY <1>1, <1>2 DEF AwInv, QueueIsRest, WaitersKnow, AwAt
  <1>6. EntriesOf(awPut) \subseteq Recorded \cup awLost
    <2>1. awUnfinished = 0
      BY DEF AwJoined
    <2> QED BY <2>1, AwSequences DEF AwInv, DoneIsTried, EntriesOf
  <1> QED BY <1>3, <1>4, <1>5, <1>6, CallMoves DEF AwJoined, awQueueing, awWitness, Carrying, AwInv, AwTypes

LEMMA ThreadRests ==
    ASSUME AwInv, NEW t \in Loggers, AwDone(t)
    PROVE  AwInv'
  BY RestedType, CallMoves DEF AwDone, AwReturn, awQueueing, awWitness, Carrying, AwInv, AwTypes

LEMMA Logs ==
    ASSUME AwInv, NEW t \in Loggers, NEW asynchronous \in BOOLEAN, AwLog(t, asynchronous)
    PROVE  AwInv'
  <1> USE DEF AwInv
  <1>1. awClock \in Nat /\ awClock' = awClock + 1 /\ awClock' \in 0..MaxEntries
    BY AwSequences DEF AwLog, AwTypes
  <1>2. PICK step, now, call : /\ step = IF asynchronous THEN "start" ELSE "commit"
                               /\ now = awClock + 1
                               /\ call = [Rested EXCEPT !.step = step, !.entry = now]
    OBVIOUS
  <1>3. awCalls' = [awCalls EXCEPT ![t] = call] /\ awCalls[t].step = "idle"
    BY <1>1, <1>2 DEF AwLog, AwAt
  <1>4. call \in AwCallType /\ call.step = step /\ call.entry = now /\ step \in {"start", "commit"}
    BY <1>1, <1>2, RestedType DEF AwCallType, Carrying
  <1>5. \A u \in Loggers : awCalls'[u] = IF u = t THEN call ELSE awCalls[u]
    BY <1>3 DEF AwTypes
  <1>6. UNCHANGED <<awTable, awReader, awLost, awPut, awLate, awQueue, awTaken, awUnfinished, awWorker, awStop>>
    BY DEF AwLog, awQueueing, awWitness
  <1>7. AwTypes'
    BY <1>1, <1>3, <1>4, <1>6 DEF AwTypes
  <1>8. WrittenInOrder' /\ PagesReach' /\ DoneIsTried' /\ Recorded' = Recorded
        /\ TakenCount' = TakenCount /\ Started' = Started
    BY <1>6, OnlyCalls
  <1>9. EntriesApart'
    <2>1. now \notin EntriesOf(awTable) /\ now \notin EntriesOf(awPut) /\ now \in 1..awClock'
      BY <1>1, <1>2 DEF EntriesApart
    <2>2. \A e \in 1..awClock : e \in 1..awClock' /\ e # now
      BY <1>1, <1>2
    <2>3. ASSUME NEW u \in Loggers, awCalls'[u].step \in Carrying
          PROVE  /\ awCalls'[u].entry \in 1..awClock'
                 /\ awCalls'[u].entry \notin EntriesOf(awTable) \cup EntriesOf(awPut)
                 /\ \A w \in Loggers : awCalls'[w].step \in Carrying /\ awCalls'[w].entry = awCalls'[u].entry
                                           => w = u
      BY <1>4, <1>5, <2>1, <2>2, <2>3 DEF EntriesApart
    <2> QED BY <1>6, <2>2, <2>3 DEF EntriesApart
  <1>10. QueueIsRest'
    BY <1>4, <1>5, <1>6, <1>8 DEF QueueIsRest
  <1>11. WaitersKnow'
    BY <1>4, <1>5, <1>6, <1>8 DEF WaitersKnow, AwAt
  <1> QED BY <1>7, <1>8, <1>9, <1>10, <1>11

LEMMA Commits ==
    ASSUME AwInv, NEW t \in Loggers, AwCommit(t)
    PROVE  AwInv'
  <1> USE DEF AwInv
  <1>1. PICK o : o = awCalls[t] /\ o \in AwCallType /\ o.step = "commit"
    BY AwCallOf DEF AwCommit, AwAt
  <1>2. /\ o.entry \in 1..awClock /\ o.entry \in 1..MaxEntries
        /\ o.entry \notin EntriesOf(awTable) /\ o.entry \notin EntriesOf(awPut)
    BY <1>1, AwSequences DEF EntriesApart, Carrying, AwTypes
  <1>3. awCalls' = [awCalls EXCEPT ![t] = Rested]
    BY DEF AwCommit, AwReturn
  <1>4. UNCHANGED <<awClock, awReader, awLost, awPut, awLate, awQueue, awTaken, awUnfinished, awWorker, awStop>>
    BY DEF AwCommit, awQueueing, awWitness
  <1>5. CASE awTable' = awTable
    <2>1. awStop' \in BOOLEAN
      BY <1>4 DEF AwTypes
    <2> QED BY <1>3, <1>4, <1>5, <2>1, RestedType, CallMoves DEF Carrying
  <1>6. CASE awTable' = Append(awTable, o.entry)
    <2>1. /\ awTable' \in Seq(1..MaxEntries) /\ DOMAIN awTable = 1..Len(awTable)
          /\ DOMAIN awTable' = 1..(Len(awTable) + 1) /\ Len(awTable) \in Nat
          /\ \A n \in DOMAIN awTable : awTable'[n] = awTable[n]
          /\ awTable'[Len(awTable) + 1] = o.entry
          /\ EntriesOf(awTable') = EntriesOf(awTable) \cup {o.entry}
          /\ NoneTwice(awTable')
      <3>1. PICK e, S : e = o.entry /\ S = 1..MaxEntries
        OBVIOUS
      <3>2. awTable \in Seq(S) /\ e \in S /\ awTable' = Append(awTable, e)
        BY <1>2, <1>6, <3>1 DEF AwTypes
      <3>3. NoneTwice(awTable) /\ e \notin EntriesOf(awTable)
        BY <1>2, <3>1 DEF EntriesApart
      <3>4. NoneTwice(awTable')
        BY <3>2, <3>3, OneMoreApart
      <3>5. /\ awTable' \in Seq(S) /\ DOMAIN awTable = 1..Len(awTable)
            /\ DOMAIN awTable' = 1..(Len(awTable) + 1) /\ Len(awTable) \in Nat
            /\ \A n \in DOMAIN awTable : awTable'[n] = awTable[n]
            /\ awTable'[Len(awTable) + 1] = e
        BY <3>2, OneMore
      <3>6. EntriesOf(awTable') = EntriesOf(awTable) \cup {e}
        <4>1. DOMAIN awTable' = DOMAIN awTable \cup {Len(awTable) + 1} /\ Len(awTable) + 1 \notin DOMAIN awTable
          BY <3>5
        <4> QED BY <3>5, <4>1 DEF EntriesOf
      <3> QED BY <3>1, <3>4, <3>5, <3>6
    <2>2. \A u \in Loggers : awCalls'[u] = IF u = t THEN Rested ELSE awCalls[u]
      BY <1>3 DEF AwTypes
    <2>3. AwTypes'
      BY <1>3, <1>4, <2>1, RestedType DEF AwTypes
    <2>4. EntriesApart'
      <3>1. \A u \in Loggers : awCalls'[u].step \in Carrying =>
                u # t /\ awCalls'[u] = awCalls[u] /\ awCalls[u].entry # o.entry
        BY <1>1, <2>2, RestedType DEF EntriesApart, Carrying
      <3> QED BY <1>2, <1>4, <2>1, <3>1 DEF EntriesApart
    <2>5. /\ Started' = Started /\ TakenCount' = TakenCount
          /\ Recorded' = Recorded \cup {o.entry}
      BY <1>4, <2>1, RecordedIs DEF Started, TakenCount, Recorded, EntriesOf
    <2>6. QueueIsRest'
      BY <1>4, <2>2, <2>5, RestedType DEF QueueIsRest
    <2>7. DoneIsTried'
      <3>1. \A n \in DOMAIN awPut : awPut[n] # o.entry
        BY <1>2 DEF EntriesOf
      <3> QED BY <1>4, <2>5, <3>1 DEF DoneIsTried
    <2>8. WaitersKnow'
      BY <1>4, <2>2, <2>5, RestedType DEF WaitersKnow, AwAt
    <2>9. WrittenInOrder'
      <3>1. \A n \in DOMAIN awPut : awPut[n] # o.entry
        BY <1>2 DEF EntriesOf
      <3>2. \A m \in DOMAIN awTable', i \in DOMAIN awPut :
                awTable'[m] = awPut[i] => m \in DOMAIN awTable /\ awTable[m] = awPut[i]
        BY <2>1, <3>1
      <3> QED BY <1>4, <3>2 DEF WrittenInOrder
    <2>10. PagesReach'
      BY <1>4, <2>1, PagesStay
    <2> QED BY <2>3, <2>4, <2>6, <2>7, <2>8, <2>9, <2>10
  <1> QED BY <1>1, <1>5, <1>6 DEF AwCommit

LEMMA QueueStarted ==
    ASSUME NEW q \in Seq(0..MaxEntries), \A n \in DOMAIN q : q[n] # 0
    PROVE  q # NoQueue
  BY DEF NoQueue

LEMMA Starts ==
    ASSUME AwInv, NEW t \in Loggers, AwStart(t)
    PROVE  AwInv'
  <1> USE DEF AwInv
  <1>1. PICK o, call : o = awCalls[t] /\ call = [o EXCEPT !.step = "put"]
    OBVIOUS
  <1>2. o \in AwCallType /\ o.step = "start"
    BY <1>1, AwCallOf DEF AwStart, AwAt
  <1>3. call \in AwCallType /\ call.step = "put" /\ call.entry = o.entry
    BY <1>1, <1>2 DEF AwCallType, Carrying
  <1>4. awCalls' = [awCalls EXCEPT ![t] = call]
    BY <1>1 DEF AwStart, AwGo
  <1>5. \A u \in Loggers : awCalls'[u] = IF u = t THEN call ELSE awCalls[u]
    BY <1>4 DEF AwTypes
  <1>6. UNCHANGED <<awClock, awUnfinished, awStop, awTaken, awTable, awReader, awLost, awPut, awLate>>
    BY DEF AwStart, awWitness
  <1>7. \/ Started /\ awQueue' = awQueue /\ awWorker' = awWorker
        \/ ~Started /\ awQueue' = <<>> /\ awWorker' = "check"
    BY DEF AwStart
  <1>8. Started'
    BY <1>7 DEF Started, NoQueue
  <1>9. AwTypes'
    BY <1>3, <1>4, <1>6, <1>7, EmptySeq DEF AwTypes
  <1>10. EntriesApart'
    <2>1. \A u \in Loggers : awCalls'[u].entry = awCalls[u].entry
                             /\ (awCalls'[u].step \in Carrying <=> awCalls[u].step \in Carrying)
      BY <1>1, <1>2, <1>3, <1>5 DEF Carrying
    <2> QED BY <1>6, <2>1 DEF EntriesApart
  <1>11. QueueIsRest'
    <2>1. CASE Started
      BY <1>6, <1>7, <1>8, <2>1 DEF QueueIsRest, TakenCount
    <2>2. CASE ~Started
      <3>1. awPut' = <<>> /\ awUnfinished' = 0 /\ awQueue' = <<>> /\ awWorker' = "check"
        BY <1>6, <1>7, <2>2 DEF QueueIsRest
      <3>2. TakenCount' = 0 /\ Len(awQueue') = 0 /\ DOMAIN awQueue' = {}
        BY <3>1 DEF TakenCount
      <3> QED BY <1>8, <3>1, <3>2 DEF QueueIsRest
    <2> QED BY <2>1, <2>2
  <1>12. DoneIsTried'
    <2>1. CASE Started
      BY <1>6, <1>7, <2>1 DEF DoneIsTried, Recorded, TakenCount
    <2>2. CASE ~Started
      <3>1. awPut' = <<>> /\ awWorker' = "check"
        BY <1>6, <1>7, <2>2 DEF QueueIsRest
      <3>2. DOMAIN awPut' = {}
        BY <3>1
      <3> QED BY <3>1, <3>2 DEF DoneIsTried
    <2> QED BY <2>1, <2>2
  <1>13. WaitersKnow'
    BY <1>3, <1>5, <1>6 DEF WaitersKnow, AwAt, Recorded
  <1>14. WrittenInOrder' /\ PagesReach'
    BY <1>6 DEF WrittenInOrder, PagesReach, Reordered
  <1> QED BY <1>9, <1>10, <1>11, <1>12, <1>13, <1>14

LEMMA Enqueues ==
    ASSUME AwInv, NEW t \in Loggers, AwEnqueue(t)
    PROVE  AwInv'
  <1> USE DEF AwInv
  <1>1. PICK o : o = awCalls[t] /\ o \in AwCallType /\ o.step = "put"
    BY AwCallOf DEF AwEnqueue, AwAt
  <1>2. PICK e : e = o.entry
    OBVIOUS
  <1>3. /\ e \in 1..awClock /\ e \in 1..MaxEntries /\ e \in 0..MaxEntries
        /\ e \notin EntriesOf(awTable) /\ e \notin EntriesOf(awPut) /\ Started
    BY <1>1, <1>2, AwSequences DEF EntriesApart, Carrying, AwTypes, QueueIsRest
  <1>4. /\ awQueue' = Append(awQueue, e) /\ awPut' = Append(awPut, e)
        /\ awUnfinished' = awUnfinished + 1
        /\ awCalls' = [awCalls EXCEPT ![t] = Rested] /\ awLate' \in BOOLEAN
    BY <1>1, <1>2 DEF AwEnqueue, AwReturn, AwTypes
  <1>5. UNCHANGED <<awClock, awStop, awWorker, awTaken, awTable, awReader, awLost>>
    BY DEF AwEnqueue
  <1>6. PICK n, q : n = Len(awPut) /\ q = Len(awQueue)
    OBVIOUS
  <1>7. /\ awPut' \in Seq(1..MaxEntries) /\ n \in Nat /\ Len(awPut') = n + 1
        /\ DOMAIN awPut = 1..n /\ DOMAIN awPut' = 1..(n + 1)
        /\ \A i \in 1..n : awPut'[i] = awPut[i]
        /\ awPut'[n + 1] = e
        /\ EntriesOf(awPut') = EntriesOf(awPut) \cup {e} /\ NoneTwice(awPut')
    <2>1. PICK S : S = 1..MaxEntries
      OBVIOUS
    <2>2. awPut \in Seq(S) /\ e \in S /\ awPut' = Append(awPut, e)
      BY <1>3, <1>4, <2>1 DEF AwTypes
    <2>3. NoneTwice(awPut) /\ e \notin EntriesOf(awPut)
      BY <1>3 DEF EntriesApart
    <2>4. NoneTwice(awPut')
      BY <2>2, <2>3, OneMoreApart
    <2>5. /\ awPut' \in Seq(S) /\ Len(awPut) \in Nat /\ Len(awPut') = Len(awPut) + 1
          /\ DOMAIN awPut = 1..Len(awPut) /\ DOMAIN awPut' = 1..(Len(awPut) + 1)
          /\ \A i \in DOMAIN awPut : awPut'[i] = awPut[i]
          /\ awPut'[Len(awPut) + 1] = e
      BY <2>2, OneMore
    <2>6. EntriesOf(awPut') = EntriesOf(awPut) \cup {e}
      <3>1. DOMAIN awPut' = DOMAIN awPut \cup {Len(awPut) + 1} /\ Len(awPut) + 1 \notin DOMAIN awPut
        BY <2>5
      <3> QED BY <2>5, <3>1 DEF EntriesOf
    <2> QED BY <1>6, <2>1, <2>4, <2>5, <2>6
  <1>8. /\ awQueue' \in Seq(0..MaxEntries) /\ q \in Nat /\ Len(awQueue') = q + 1
        /\ DOMAIN awQueue = 1..q /\ DOMAIN awQueue' = 1..(q + 1)
        /\ \A i \in 1..q : awQueue'[i] = awQueue[i]
        /\ awQueue'[q + 1] = e
    BY <1>3, <1>4, <1>6, OneMore DEF AwTypes
  <1>9. /\ TakenCount = n - q /\ TakenCount' = n - q /\ n - q >= 0
        /\ \A i \in 1..q : awQueue[i] = awPut[n - q + i]
    <2>1. TakenCount = n - q /\ TakenCount' = n - q
      BY <1>6, <1>7, <1>8 DEF TakenCount
    <2> QED BY <2>1, <1>3, <1>8 DEF QueueIsRest
  <1>10. Started'
    <2>1. ASSUME awQueue' = << 0 >> PROVE FALSE
      <3>1. Len(awQueue') = 1 /\ awQueue'[1] = 0
        BY <2>1
      <3> QED BY <3>1, <1>3, <1>8
    <2> QED BY <2>1 DEF Started, NoQueue
  <1>11. \A u \in Loggers : awCalls'[u] = IF u = t THEN Rested ELSE awCalls[u]
    BY <1>4 DEF AwTypes
  <1>12. AwTypes'
    BY <1>4, <1>5, <1>7, <1>8, RestedType DEF AwTypes
  <1>13. EntriesApart'
    <2>1. \A u \in Loggers : awCalls'[u].step \in Carrying =>
              u # t /\ awCalls'[u] = awCalls[u] /\ awCalls[u].entry # e
      BY <1>1, <1>2, <1>11, RestedType DEF EntriesApart, Carrying
    <2> QED BY <1>3, <1>5, <1>7, <2>1 DEF EntriesApart
  <1>14. QueueIsRest'
    <2>1. \A i \in 1..(q + 1) : awQueue'[i] = awPut'[n - q + i]
      <3>1. \A i \in 1..q : n - q + i \in 1..n
        BY <1>7, <1>8, <1>9
      <3>2. n - q + (q + 1) = n + 1
        BY <1>7, <1>8
      <3>3. ASSUME NEW i \in 1..(q + 1) PROVE awQueue'[i] = awPut'[n - q + i]
        <4>1. CASE i = q + 1
          BY <4>1, <3>2, <1>7, <1>8
        <4>2. CASE i \in 1..q
          BY <4>2, <3>1, <1>7, <1>8, <1>9
        <4> QED BY <4>1, <4>2, <1>8
      <3> QED BY <3>3
    <2>2. awUnfinished' = Len(awQueue') + (IF awWorker' \in {"write", "finish"} THEN 1 ELSE 0)
      BY <1>3, <1>4, <1>5, <1>6, <1>8 DEF QueueIsRest
    <2>3. awWorker' \in {"write", "finish"} => n - q > 0 /\ awTaken' = awPut'[n - q]
      BY <1>3, <1>5, <1>7, <1>8, <1>9 DEF QueueIsRest
    <2> QED BY <1>3, <1>5, <1>8, <1>9, <1>10, <2>1, <2>2, <2>3 DEF QueueIsRest
  <1>15. DoneIsTried'
    <2>1. Recorded' = Recorded /\ Recorded = EntriesOf(awTable)
      BY <1>5, RecordedIs DEF Recorded
    <2>2. \A i \in 1..(n + 1) : i <= Len(awPut') - awUnfinished' => i \in 1..n /\ i <= n - awUnfinished
      BY <1>4, <1>7 DEF AwTypes
    <2>3. \A i \in 1..(n + 1) : awPut'[i] \in Recorded' => i \in 1..n
      BY <1>3, <1>7, <2>1
    <2> QED BY <1>3, <1>5, <1>6, <1>7, <1>9, <2>1, <2>2, <2>3 DEF DoneIsTried
  <1>16. WaitersKnow'
    BY <1>5, <1>7, <1>11, RestedType DEF WaitersKnow, AwAt, Recorded
  <1>17. WrittenInOrder'
    <2>1. \A m \in DOMAIN awTable, i \in DOMAIN awPut' :
              awTable[m] = awPut'[i] => i \in DOMAIN awPut /\ awPut'[i] = awPut[i]
      BY <1>3, <1>7 DEF EntriesOf
    <2> QED BY <1>5, <2>1 DEF WrittenInOrder
  <1>18. PagesReach'
    BY <1>5 DEF PagesReach, Reordered
  <1> QED BY <1>12, <1>13, <1>14, <1>15, <1>16, <1>17, <1>18

-----------------------------------------------------------------------------
(* The steps of the worker.                                                *)

LEMMA Checks ==
    ASSUME AwInv, AwCheck
    PROVE  AwInv'
  <1> USE DEF AwInv
  <1>1. UNCHANGED <<awClock, awQueue, awUnfinished, awStop, awTaken, awTable, awCalls,
                    awReader, awLost, awPut, awLate>>
    BY DEF AwCheck, awWitness
  <1>2. awWorker = "check" /\ awWorker' \in {"get", "ended"}
    BY DEF AwCheck
  <1>3. Started' = Started /\ TakenCount' = TakenCount /\ Recorded' = Recorded
    BY <1>1 DEF Started, TakenCount, Recorded
  <1>4. AwTypes' /\ EntriesApart'
    BY <1>1, <1>2 DEF AwTypes, EntriesApart
  <1>5. QueueIsRest' /\ DoneIsTried'
    BY <1>1, <1>2, <1>3 DEF QueueIsRest, DoneIsTried
  <1>6. WaitersKnow' /\ WrittenInOrder' /\ PagesReach'
    BY <1>1, <1>3 DEF WaitersKnow, AwAt, WrittenInOrder, PagesReach, Reordered
  <1> QED BY <1>4, <1>5, <1>6

LEMMA Takes ==
    ASSUME AwInv, AwTake
    PROVE  AwInv'
  <1> USE DEF AwInv
  <1>1. UNCHANGED <<awClock, awUnfinished, awStop, awTable, awCalls, awReader, awLost, awPut, awLate>>
    BY DEF AwTake, awWitness
  <1>2. WaitersKnow' /\ WrittenInOrder' /\ PagesReach' /\ EntriesApart'
    BY <1>1 DEF WaitersKnow, AwAt, Recorded, WrittenInOrder, PagesReach, Reordered, EntriesApart
  <1>3. Recorded' = Recorded /\ awWorker = "get" /\ Started
    BY <1>1 DEF Recorded, AwTake, QueueIsRest
  <1>4. CASE awQueue = <<>>
    <2>1. awWorker' = "check" /\ UNCHANGED <<awQueue, awTaken>>
      BY <1>4 DEF AwTake
    <2>2. Started' = Started /\ TakenCount' = TakenCount
      BY <1>1, <2>1 DEF Started, TakenCount
    <2>3. AwTypes' /\ QueueIsRest' /\ DoneIsTried'
      BY <1>1, <1>3, <2>1, <2>2 DEF AwTypes, QueueIsRest, DoneIsTried
    <2> QED BY <1>2, <2>3
  <1>5. CASE awQueue # <<>>
    <2>1. awTaken' = Head(awQueue) /\ awQueue' = Tail(awQueue) /\ awWorker' = "write"
      BY <1>5 DEF AwTake
    <2>2. PICK n, q : n = Len(awPut) /\ q = Len(awQueue)
      OBVIOUS
    <2>3. /\ n \in Nat /\ DOMAIN awPut = 1..n /\ DOMAIN awQueue = 1..q /\ q \in Nat \ {0}
          /\ \A i \in 1..n : awPut[i] \in 1..MaxEntries
      BY <1>5, <2>2, AwSequences, EmptySeq DEF AwTypes
    <2>4. /\ awTaken' = awQueue[1] /\ awTaken' \in 0..MaxEntries
          /\ awQueue' \in Seq(0..MaxEntries) /\ Len(awQueue') = q - 1 /\ DOMAIN awQueue' = 1..(q - 1)
          /\ \A i \in 1..(q - 1) : awQueue'[i] = awQueue[i + 1]
      <3>1. awQueue \in Seq(0..MaxEntries)
        BY DEF AwTypes
      <3>2. /\ Head(awQueue) \in 0..MaxEntries
            /\ Tail(awQueue) \in Seq(0..MaxEntries)
            /\ Len(Tail(awQueue)) = Len(awQueue) - 1
            /\ \A i \in 1..Len(Tail(awQueue)) : Tail(awQueue)[i] = awQueue[i + 1]
        BY <1>5, <3>1, HeadTailProperties
      <3>3. Head(awQueue) = awQueue[1] /\ DOMAIN Tail(awQueue) = 1..Len(Tail(awQueue))
        BY <3>1, <3>2, LenProperties
      <3> QED BY <2>1, <2>2, <3>2, <3>3
    <2>5. /\ TakenCount = n - q /\ TakenCount' = n - q + 1 /\ n - q >= 0
          /\ \A i \in 1..q : awQueue[i] = awPut[n - q + i]
      <3>1. TakenCount = n - q /\ TakenCount' = n - (q - 1)
        BY <1>1, <2>2, <2>4 DEF TakenCount
      <3> QED BY <3>1, <1>3, <2>3 DEF QueueIsRest
    <2>6. Started'
      <3>1. ASSUME awQueue' = << 0 >> PROVE FALSE
        <4>1. Len(awQueue') = 1 /\ awQueue'[1] = 0
          BY <3>1
        <4>2. q = 2
          <5>1. Len(awQueue') = q - 1 /\ q \in Nat
            BY <2>3, <2>4
          <5> QED BY <4>1, <5>1
        <4>3. awQueue[2] = 0
          <5>1. \A i \in 1..(q - 1) : awQueue'[i] = awQueue[i + 1]
            BY <2>4
          <5>2. 1 \in 1..(q - 1) /\ 1 + 1 = 2
            BY <4>2
          <5>3. awQueue'[1] = awQueue[1 + 1]
            BY <5>1, <5>2
          <5> QED BY <4>1, <5>2, <5>3
        <4>4. n - 2 + 2 = n /\ awQueue[2] = awPut[n - 2 + 2] /\ n \in 1..n
          BY <4>2, <2>3, <2>5
        <4> QED BY <4>3, <4>4, <2>3
      <3> QED BY <3>1 DEF Started, NoQueue
    <2>7. AwTypes'
      BY <1>1, <2>1, <2>4 DEF AwTypes
    <2>8. QueueIsRest'
      <3>1. \A i \in 1..(q - 1) : awQueue'[i] = awPut[n - q + 1 + i]
        <4>1. ASSUME NEW i \in 1..(q - 1) PROVE awQueue'[i] = awPut[n - q + 1 + i]
          <5>1. i + 1 \in 1..q /\ n - q + (i + 1) = n - q + 1 + i
            BY <2>3
          <5> QED BY <5>1, <2>4, <2>5
        <4> QED BY <4>1
      <3>2. awTaken' = awPut[n - q + 1]
        BY <2>3, <2>4, <2>5
      <3>3. awUnfinished' = Len(awQueue') + 1
        BY <1>1, <1>3, <2>2, <2>3, <2>4 DEF QueueIsRest
      <3>4. TakenCount' >= 0 /\ TakenCount' > 0 /\ awPut' = awPut
        BY <1>1, <2>3, <2>5
      <3> QED BY <2>1, <2>4, <2>5, <2>6, <3>1, <3>2, <3>3, <3>4 DEF QueueIsRest
    <2>9. DoneIsTried'
      BY <1>1, <1>3, <2>1, <2>3, <2>5 DEF DoneIsTried
    <2> QED BY <1>2, <2>7, <2>8, <2>9
  <1> QED BY <1>4, <1>5

LEMMA AwWrites ==
    ASSUME AwInv, AwWrite
    PROVE  AwInv'
  <1> USE DEF AwInv
  <1>1. UNCHANGED <<awClock, awQueue, awUnfinished, awStop, awTaken, awCalls, awReader, awPut, awLate>>
        /\ awWorker = "write" /\ awWorker' = "finish"
    BY DEF AwWrite
  <1>2. PICK n, last : n = Len(awPut) /\ last = TakenCount
    OBVIOUS
  <1>3. Started /\ n \in Nat /\ DOMAIN awPut = 1..n /\ last \in 1..n
        /\ awTaken = awPut[last] /\ awTaken \in 1..MaxEntries
        /\ Started' /\ TakenCount' = last
    <2>1. Started /\ last > 0 /\ awTaken = awPut[last]
      BY <1>1, <1>2 DEF QueueIsRest
    <2>2. n \in Nat /\ DOMAIN awPut = 1..n /\ last \in 1..n
      BY <1>2, <2>1, AwSequences DEF TakenCount
    <2> QED BY <1>1, <1>2, <2>1, <2>2, AwSequences DEF Started, TakenCount
  <1>4. \A i \in 1..n : awPut[i] \in Recorded => i < last
    BY <1>1, <1>2, <1>3 DEF DoneIsTried
  <1>5. awTaken \notin Recorded /\ awTaken \in EntriesOf(awPut)
    BY <1>3, <1>4 DEF EntriesOf
  <1>6. /\ awLost' \in SUBSET (1..MaxEntries) /\ awTable' \in Seq(1..MaxEntries)
        /\ NoneTwice(awTable')
        /\ Recorded \subseteq Recorded' /\ awLost \subseteq awLost'
        /\ Recorded' \subseteq Recorded \cup {awTaken}
        /\ awTaken \in Recorded' \cup awLost'
        /\ DOMAIN awTable = 1..Len(awTable) /\ Len(awTable) \in Nat
        /\ \/ DOMAIN awTable' = DOMAIN awTable
           \/ /\ DOMAIN awTable' = 1..(Len(awTable) + 1)
              /\ awTable'[Len(awTable) + 1] = awTaken
        /\ \A m \in DOMAIN awTable : awTable'[m] = awTable[m]
    <2>1. CASE awTable' = awTable /\ awLost' = awLost \cup {awTaken}
      BY <1>3, <2>1, AwSequences DEF AwTypes, EntriesApart, Recorded
    <2>2. CASE awTable' = Append(awTable, awTaken) /\ awLost' = awLost
      <3>1. PICK S : S = 1..MaxEntries
        OBVIOUS
      <3>2. awTable \in Seq(S) /\ awTaken \in S
        BY <1>3, <3>1 DEF AwTypes
      <3>3. NoneTwice(awTable) /\ awTaken \notin EntriesOf(awTable)
        BY <1>5, RecordedIs DEF EntriesApart
      <3>4. NoneTwice(awTable')
        BY <2>2, <3>2, <3>3, OneMoreApart
      <3>5. /\ awTable' \in Seq(S) /\ DOMAIN awTable = 1..Len(awTable)
            /\ DOMAIN awTable' = 1..(Len(awTable) + 1) /\ Len(awTable) \in Nat
            /\ \A m \in DOMAIN awTable : awTable'[m] = awTable[m]
            /\ awTable'[Len(awTable) + 1] = awTaken
        BY <2>2, <3>2, OneMore
      <3>6. Recorded' = Recorded \cup {awTaken}
        <4>1. DOMAIN awTable' = DOMAIN awTable \cup {Len(awTable) + 1} /\ Len(awTable) + 1 \notin DOMAIN awTable
          BY <3>5
        <4> QED BY <3>5, <4>1 DEF Recorded
      <3> QED BY <2>2, <3>1, <3>4, <3>5, <3>6 DEF AwTypes
    <2> QED BY <2>1, <2>2 DEF AwWrite
  <1>7. AwTypes'
    BY <1>1, <1>6 DEF AwTypes
  <1>8. EntriesApart'
    <2>1. Recorded' = EntriesOf(awTable') /\ Recorded = EntriesOf(awTable)
      BY DEF Recorded, EntriesOf
    <2>2. \A t \in Loggers : awCalls[t].step \in Carrying => awCalls[t].entry # awTaken
      BY <1>5 DEF EntriesApart
    <2>3. EntriesOf(awTable') \subseteq EntriesOf(awTable) \cup {awTaken}
      BY <1>6, <2>1
    <2>4. awTaken \in 1..awClock
      BY <1>5 DEF EntriesApart
    <2> QED BY <1>1, <1>6, <2>2, <2>3, <2>4 DEF EntriesApart
  <1>9. QueueIsRest'
    BY <1>1, <1>2, <1>3 DEF QueueIsRest
  <1>10. DoneIsTried'
    <2>1. ASSUME NEW i \in 1..n, awPut[i] \in Recorded' PROVE i <= last
      <3>1. CASE awPut[i] \in Recorded
        BY <1>3, <1>4, <3>1
      <3>2. CASE awPut[i] = awTaken
        BY <1>3, <3>2 DEF EntriesApart, NoneTwice
      <3> QED BY <1>6, <2>1, <3>1, <3>2
    <2> QED BY <1>1, <1>2, <1>3, <1>6, <2>1 DEF DoneIsTried
  <1>11. WaitersKnow'
    BY <1>1, <1>6 DEF WaitersKnow, AwAt
  <1>12. WrittenInOrder'
    <2>1. ASSUME NEW m \in DOMAIN awTable', NEW k \in DOMAIN awTable', NEW i \in 1..n, NEW j \in 1..n,
                 m < k, awTable'[m] = awPut[i], awTable'[k] = awPut[j]
          PROVE  i < j
      <3>1. m \in DOMAIN awTable /\ awTable[m] = awPut[i]
        BY <1>6, <2>1
      <3>2. CASE k \in DOMAIN awTable
        BY <1>3, <1>6, <2>1, <3>1, <3>2 DEF WrittenInOrder
      <3>3. CASE k \notin DOMAIN awTable
        <4>1. awPut[j] = awTaken
          BY <1>6, <2>1, <3>3
        <4>2. j = last
          BY <1>3, <4>1 DEF EntriesApart, NoneTwice
        <4>3. awPut[i] \in Recorded
          BY <3>1 DEF Recorded
        <4> QED BY <1>4, <4>2, <4>3
      <3> QED BY <3>2, <3>3
    <2> QED BY <1>1, <1>3, <2>1 DEF WrittenInOrder
  <1>13. PagesReach'
    BY <1>1, <1>6, PagesStay
  <1> QED BY <1>7, <1>8, <1>9, <1>10, <1>11, <1>12, <1>13

LEMMA TaskDone ==
    ASSUME AwInv, AwTaskDone
    PROVE  AwInv'
  <1> USE DEF AwInv
  <1>1. UNCHANGED <<awClock, awQueue, awStop, awTable, awCalls, awReader, awLost, awPut, awLate>>
        /\ awWorker = "finish" /\ awWorker' = "check" /\ awTaken' = 0
        /\ awUnfinished' = awUnfinished - 1
    BY DEF AwTaskDone, awWitness
  <1>2. Started' = Started /\ TakenCount' = TakenCount /\ Recorded' = Recorded
    BY <1>1 DEF Started, TakenCount, Recorded
  <1>3. Started /\ awUnfinished = Len(awQueue) + 1 /\ awTaken = awPut[TakenCount] /\ Len(awQueue) \in Nat
    BY <1>1, AwSequences DEF QueueIsRest
  <1>4. WaitersKnow' /\ WrittenInOrder' /\ PagesReach' /\ EntriesApart'
    BY <1>1, <1>2 DEF WaitersKnow, AwAt, WrittenInOrder, PagesReach, Reordered, EntriesApart
  <1>5. AwTypes'
    BY <1>1, <1>3, AuditAssumption DEF AwTypes
  <1>6. QueueIsRest'
    BY <1>1, <1>2, <1>3 DEF QueueIsRest
  <1>7. DoneIsTried'
    <2>1. PICK n : n = Len(awPut) /\ n \in Nat /\ DOMAIN awPut = 1..n
      BY AwSequences
    <2>2. \A i \in 1..n : i <= n - awUnfinished' => i <= n - awUnfinished \/ i = TakenCount
      BY <1>1, <1>3, <2>1 DEF TakenCount
    <2>3. awPut[TakenCount] \in Recorded \cup awLost
      BY <1>1, <1>3 DEF DoneIsTried
    <2> QED BY <1>1, <1>2, <2>1, <2>2, <2>3 DEF DoneIsTried
  <1> QED BY <1>4, <1>5, <1>6, <1>7

-----------------------------------------------------------------------------
(* The pages.                                                              *)

Lower == {p \in Nat \X Nat : p[1] < p[2]}

LEMMA LeastExists ==
    ASSUME NEW S, S \subseteq Nat, S # {}
    PROVE  \E m \in S : \A k \in S : m <= k
  <1>1. IsWellFoundedOn(Lower, Nat)
    BY NatLessThanWellFounded DEF Lower, OpToRel
  <1>2. PICK m \in S : \A k \in S : ~(<<k, m>> \in Lower)
    BY <1>1, WFMin
  <1>3. \A k \in S : m <= k
    <2> SUFFICES ASSUME NEW k \in S PROVE m <= k
      OBVIOUS
    <2>1. <<k, m>> \in Lower <=> k < m
      BY DEF Lower
    <2> QED BY <1>2, <2>1
  <1> QED BY <1>3

LEMMA LastOfIsLast ==
    ASSUME AwTypes, NEW page \in SUBSET DOMAIN awTable, page # {}
    PROVE  LastOf(page) \in page /\ \A k \in page : awTable[k] >= awTable[LastOf(page)]
  <1>1. PICK stamps : stamps = {awTable[n] : n \in page}
    OBVIOUS
  <1>2. stamps \subseteq Nat /\ stamps # {}
    BY <1>1, AwSequences
  <1>3. PICK least \in stamps : \A k \in stamps : least <= k
    BY <1>2, LeastExists
  <1>4. \E n \in page : \A k \in page : awTable[k] >= awTable[n]
    <2>1. PICK n \in page : awTable[n] = least
      BY <1>1
    <2>2. \A k \in page : awTable[k] \in stamps
      BY <1>1
    <2>3. \A k \in page : awTable[k] \in Nat /\ least \in Nat
      BY <1>2, <2>2
    <2>4. \A k \in page : awTable[k] >= awTable[n]
      BY <1>3, <2>1, <2>2, <2>3
    <2> QED BY <2>4
  <1> QED BY <1>4 DEF LastOf

\* The entries below the cursor, and those of them with a later stamp than one.
Under(cursor) == {n \in DOMAIN awTable : cursor = 0 \/ n < cursor}
Newer(cursor, n) == {k \in Under(cursor) : awTable[k] > awTable[n]}

LEMMA PageIs == \A cursor : Page(cursor) = {n \in Under(cursor) : Cardinality(Newer(cursor, n)) < PageLimit}
  BY DEF Page, Under, Newer

LEMMA NewerFinite ==
    ASSUME AwTypes, NEW cursor, NEW n
    PROVE  IsFiniteSet(Newer(cursor, n)) /\ Cardinality(Newer(cursor, n)) \in Nat
  <1>1. IsFiniteSet(DOMAIN awTable)
    BY AwSequences, FS_Interval
  <1>2. Newer(cursor, n) \in SUBSET DOMAIN awTable
    BY DEF Newer, Under
  <1> QED BY <1>1, <1>2, FS_Subset, FS_CardinalityType

\* What the page leaves out lies below its last entry, or was recorded out of order.
LEMMA PageReaches ==
    ASSUME AwTypes, NoneTwice(awTable), NEW cursor, Page(cursor) # {},
           NEW n \in Under(cursor), n \notin Page(cursor)
    PROVE  n < LastOf(Page(cursor)) \/ Reordered(n)
  <1>1. PICK page, last : page = Page(cursor) /\ last = LastOf(page)
    OBVIOUS
  <1>2. page \in SUBSET DOMAIN awTable /\ page \subseteq Under(cursor) /\ n \in DOMAIN awTable
    BY <1>1, PageIs DEF Under
  <1>3. last \in page
    BY <1>1, <1>2, LastOfIsLast
  <1>4. /\ awTable[n] \in Nat /\ awTable[last] \in Nat /\ n \in Nat /\ last \in Nat
        /\ last \in DOMAIN awTable /\ \A k \in DOMAIN awTable : awTable[k] \in Nat
    BY <1>2, <1>3, AwSequences
  <1>5. awTable[n] # awTable[last] /\ n # last
    BY <1>1, <1>2, <1>3, <1>4 DEF NoneTwice
  <1>6. CASE awTable[last] > awTable[n]
    <2>1. CASE n < last
      BY <2>1, <1>1
    <2>2. CASE last < n
      BY <1>4, <1>6, <2>2 DEF Reordered
    <2> QED BY <2>1, <2>2, <1>4, <1>5
  <1>7. CASE awTable[n] > awTable[last]
    <2>1. Newer(cursor, n) \subseteq Newer(cursor, last)
      BY <1>4, <1>7 DEF Newer, Under
    <2>2. PICK few, more : /\ few = Cardinality(Newer(cursor, n)) /\ few \in Nat
                           /\ more = Cardinality(Newer(cursor, last)) /\ more \in Nat
      BY NewerFinite
    <2>3. few <= more
      BY <2>1, <2>2, NewerFinite, FS_Subset
    <2>4. more < PageLimit /\ ~(few < PageLimit)
      BY <1>1, <1>3, <2>2, PageIs
    <2> QED BY <2>2, <2>3, <2>4, AuditAssumption
  <1> QED BY <1>4, <1>5, <1>6, <1>7

\* As long as there is an entry below the cursor, the page is not empty.
LEMMA PageShows ==
    ASSUME AwTypes, NEW cursor, Under(cursor) # {}
    PROVE  Page(cursor) # {}
  <1>1. PICK depths : depths = {MaxEntries - awTable[n] : n \in Under(cursor)}
    OBVIOUS
  <1>2. Under(cursor) \subseteq DOMAIN awTable
    BY DEF Under
  <1>3. depths \subseteq Nat /\ depths # {}
    BY <1>1, <1>2, AwSequences
  <1>4. PICK least \in depths : \A k \in depths : least <= k
    BY <1>3, LeastExists
  <1>5. PICK n \in Under(cursor) : least = MaxEntries - awTable[n]
    BY <1>1
  <1>6. ASSUME NEW k \in Newer(cursor, n) PROVE FALSE
    <2>1. k \in Under(cursor) /\ awTable[k] > awTable[n]
      BY DEF Newer
    <2>2. MaxEntries - awTable[k] \in depths
      BY <1>1, <2>1
    <2>3. least <= MaxEntries - awTable[k]
      BY <1>4, <2>2
    <2>4. awTable[k] \in Nat /\ awTable[n] \in Nat /\ MaxEntries \in Nat
      BY <1>2, <1>5, <2>1, AwSequences
    <2> QED BY <1>5, <2>1, <2>3, <2>4
  <1>7. Newer(cursor, n) = {}
    BY <1>6
  <1>8. Cardinality(Newer(cursor, n)) = 0
    BY <1>7, FS_EmptySet
  <1>9. n \in Page(cursor)
    BY <1>5, <1>8, PageIs, AuditAssumption
  <1> QED BY <1>9

LEMMA ReadsPage ==
    ASSUME AwInv, AwReadPage
    PROVE  AwInv'
  <1> USE DEF AwInv
  <1>1. UNCHANGED <<awClock, awQueue, awUnfinished, awStop, awWorker, awTaken, awTable, awCalls,
                    awLost, awPut, awLate>>
    BY DEF AwReadPage, awQueueing, awWitness
  <1>2. PICK r : r = awReader /\ r \in [on: BOOLEAN, cursor: Nat, shown: SUBSET Nat, there: SUBSET Nat]
    BY DEF AwTypes
  <1>3. PICK page, last, there : /\ page = Page(r.cursor) /\ last = LastOf(page)
                                 /\ there = IF r.on THEN r.there ELSE DOMAIN awTable
    OBVIOUS
  <1>4. PICK next : next = [on |-> TRUE, cursor |-> last, shown |-> r.shown \cup page, there |-> there]
    OBVIOUS
  <1>5. awReader' = IF page = {} THEN Unpaged ELSE next
    BY <1>2, <1>3, <1>4 DEF AwReadPage
  <1>6. page \in SUBSET DOMAIN awTable /\ DOMAIN awTable \in SUBSET Nat
    BY <1>3, PageIs, AwSequences DEF Under
  <1>7. page # {} => last \in page
    BY <1>3, <1>6, LastOfIsLast
  <1>8. page # {} => next \in [on: BOOLEAN, cursor: Nat, shown: SUBSET Nat, there: SUBSET Nat]
    BY <1>2, <1>3, <1>4, <1>6, <1>7
  <1>9. Unpaged \in [on: BOOLEAN, cursor: Nat, shown: SUBSET Nat, there: SUBSET Nat] /\ ~Unpaged.on
    BY DEF Unpaged
  <1>10. AwTypes'
    <2>1. awReader' \in [on: BOOLEAN, cursor: Nat, shown: SUBSET Nat, there: SUBSET Nat]
      BY <1>5, <1>8, <1>9
    <2> QED BY <1>1, <2>1 DEF AwTypes
  <1>11. Started' = Started /\ TakenCount' = TakenCount /\ Recorded' = Recorded
    BY <1>1 DEF Started, TakenCount, Recorded
  <1>12. EntriesApart' /\ QueueIsRest' /\ DoneIsTried' /\ WaitersKnow' /\ WrittenInOrder'
    BY <1>1, <1>11 DEF EntriesApart, QueueIsRest, DoneIsTried, WaitersKnow, AwAt, WrittenInOrder
  <1>13. PagesReach'
    <2>1. CASE page = {}
      BY <1>5, <1>9, <2>1 DEF PagesReach
    <2>2. CASE page # {}
      <3>1. there \subseteq DOMAIN awTable
        BY <1>2, <1>3 DEF PagesReach
      <3>2. ASSUME NEW n \in there \ (r.shown \cup page)
            PROVE  n < last \/ Reordered(n)
        <4>1. CASE n \in Under(r.cursor)
          BY <1>3, <2>2, <3>2, <4>1, PageReaches DEF EntriesApart
        <4>2. CASE n \notin Under(r.cursor)
          <5>1. r.on
            <6>1. ASSUME ~r.on PROVE r.cursor = 0
              BY <1>2, <6>1 DEF PagesReach, Unpaged
            <6> QED BY <3>1, <4>2, <6>1 DEF Under
          <5>2. Reordered(n)
            BY <1>2, <1>3, <3>1, <4>2, <5>1 DEF PagesReach, Under
          <5> QED BY <5>2
        <4> QED BY <4>1, <4>2
      <3>3. awReader' = next /\ last \in DOMAIN awTable
        BY <1>5, <1>6, <1>7, <2>2
      <3>4. \A n : Reordered(n)' <=> Reordered(n)
        BY <1>1 DEF Reordered
      <3> QED BY <1>1, <1>4, <3>1, <3>2, <3>3, <3>4 DEF PagesReach
    <2> QED BY <2>1, <2>2
  <1> QED BY <1>10, <1>12, <1>13

-----------------------------------------------------------------------------
(* The theorems.                                                           *)

LEMMA AwInitInv ==
    ASSUME AwInit
    PROVE  AwInv
  <1>1. AwTypes
    <2>1. NoQueue \in Seq(0..MaxEntries) /\ awTable \in Seq(1..MaxEntries) /\ awPut \in Seq(1..MaxEntries)
      BY AuditAssumption, EmptySeq DEF AwInit, NoQueue
    <2>2. awReader \in [on: BOOLEAN, cursor: Nat, shown: SUBSET Nat, there: SUBSET Nat]
      BY DEF AwInit, Unpaged
    <2>3. awCalls \in [Loggers -> AwCallType]
      BY RestedType DEF AwInit
    <2>4. /\ awClock \in 0..MaxEntries /\ awTaken \in 0..MaxEntries /\ awUnfinished \in Nat
          /\ awLost \in SUBSET (1..MaxEntries)
      BY AuditAssumption DEF AwInit
    <2> QED BY <2>1, <2>2, <2>3, <2>4 DEF AwInit, AwTypes
  <1>2. DOMAIN awTable = {} /\ DOMAIN awPut = {} /\ awQueue = NoQueue
        /\ \A t \in Loggers : awCalls[t].step = "idle"
    BY RestedType DEF AwInit
  <1>3. EntriesApart /\ DoneIsTried /\ WaitersKnow /\ WrittenInOrder
    BY <1>2 DEF EntriesApart, NoneTwice, EntriesOf, DoneIsTried, WaitersKnow, AwAt, WrittenInOrder,
                AwInit, Carrying
  <1>4. QueueIsRest
    BY <1>2 DEF QueueIsRest, Started, AwInit
  <1>5. PagesReach
    BY DEF PagesReach, AwInit, Unpaged
  <1> QED BY <1>1, <1>3, <1>4, <1>5 DEF AwInv

LEMMA AwNextInv ==
    ASSUME AwInv, [AwNext]_awVars
    PROVE  AwInv'
  <1>1. CASE UNCHANGED awVars
    BY <1>1 DEF awVars, AwInv, AwTypes, EntriesApart, QueueIsRest, DoneIsTried, WaitersKnow,
                WrittenInOrder, PagesReach, Reordered, Recorded, Started, TakenCount, AwAt
  <1>2. CASE AwNext
    BY <1>2, Logs, Commits, Starts, Enqueues, Waits, JoinReturns, ThreadRests, Checks, Takes,
       AwWrites, TaskDone, ReadsPage DEF AwNext, AwThread, AwWork
  <1> QED BY <1>1, <1>2

LEMMA AuditKept == AwSpec => []AwInv
  BY AwInitInv, AwNextInv, PTL DEF AwSpec

LEMMA Upward == \A n \in Nat : IsFiniteSet(1..n) /\ Cardinality(1..n) = n
  <1>1. SUFFICES ASSUME NEW n \in Nat PROVE IsFiniteSet(1..n) /\ Cardinality(1..n) = n
    OBVIOUS
  <1>2. IsFiniteSet(1..n) /\ Cardinality(1..n) = IF 1 > n THEN 0 ELSE n - 1 + 1
    BY FS_Interval
  <1> QED BY <1>2

LEMMA AwInvTyped ==
    ASSUME AwInv
    PROVE  AwTypeOK
  <1>1. PICK n, q : n = Len(awPut) /\ q = Len(awQueue) /\ n \in Nat /\ q \in Nat
    BY AwSequences DEF AwInv
  <1>2. awUnfinished <= n
    BY <1>1 DEF AwInv, AwTypes, QueueIsRest, TakenCount
  <1>3. n <= MaxEntries
    <2>1. awPut \in [1..n -> 1..MaxEntries]
      BY <1>1, LenProperties DEF AwInv, AwTypes
    <2>2. awPut \in Injection(1..n, 1..MaxEntries)
      BY <2>1 DEF Injection, IsInjective, AwInv, EntriesApart, NoneTwice
    <2>3. /\ IsFiniteSet(1..MaxEntries) /\ Cardinality(1..n) = n
          /\ Cardinality(1..MaxEntries) = MaxEntries
      BY <1>1, AuditAssumption, Upward
    <2> QED BY <2>2, <2>3, FS_Injection
  <1> QED BY <1>1, <1>2, <1>3, AuditAssumption DEF AwInv, AwTypes, AwTypeOK, AwCallType, Carrying

LEMMA AwInvFlushed ==
    ASSUME AwInv
    PROVE  FlushedIsTried
  <1>1. PICK n : n = Len(awTable) /\ n \in Nat /\ DOMAIN awTable = 1..n
    BY AwSequences DEF AwInv
  <1>2. awTable \in [1..n -> Recorded]
    BY <1>1, LenProperties DEF Recorded, AwInv, AwTypes
  <1>3. awTable \in Surjection(1..n, Recorded) /\ awTable \in Injection(1..n, Recorded)
    BY <1>1, <1>2 DEF Surjection, Injection, IsInjective, Recorded, AwInv, EntriesApart, NoneTwice
  <1>4. IsFiniteSet(1..n) /\ Cardinality(1..n) = n
    BY <1>1, Upward
  <1>5. Cardinality(Recorded) = n
    BY <1>3, <1>4, FS_Surjection
  <1> QED BY <1>1, <1>5 DEF FlushedIsTried, AwInv, WaitersKnow

LEMMA AwInvPaged ==
    ASSUME AwInv
    PROVE  PagesSkipOnlyReordered
  <1>1. SUFFICES ASSUME awReader.on, Page(awReader.cursor) = {},
                        NEW n \in awReader.there \ awReader.shown
                 PROVE  Reordered(n)
    BY DEF PagesSkipOnlyReordered
  <1>2. n \in DOMAIN awTable /\ (n < awReader.cursor \/ Reordered(n))
    BY <1>1 DEF AwInv, PagesReach
  <1>3. CASE n < awReader.cursor
    BY <1>1, <1>2, <1>3, PageShows DEF Under, AwInv
  <1> QED BY <1>2, <1>3

\* Every variable of the audit log keeps its type; the count that join() waits for
\* never exceeds the number of entries.
THEOREM AuditTyped == AwSpec => []AwTypeOK
  BY AuditKept, AwInvTyped, PTL

\* When flush() or close() returns, every entry queued before has been written or its
\* write has failed, and none was written twice (AuditLogger.flush, _worker_loop).
THEOREM FlushWaitsForAll == AwSpec => []FlushedIsTried
  BY AuditKept, AwInvFlushed, PTL

\* The background thread writes in the order of the queue, each entry once
\* (AuditLogger._worker_loop).
THEOREM WorkerKeepsOrder == AwSpec => []WrittenInOrder
  <1>1. AwInv => WrittenInOrder
    BY DEF AwInv
  <1> QED BY AuditKept, <1>1, PTL

\* Turning the pages to the end skips only entries whose id and stamp disagree with
\* another's (list_audit_logs, routers/audit.py).
THEOREM PagesSkipNoOther == AwSpec => []PagesSkipOnlyReordered
  BY AuditKept, AwInvPaged, PTL

=============================================================================
