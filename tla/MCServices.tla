----------------------------- MODULE MCServices -----------------------------
(***************************************************************************)
(* Instances for TLC of seven components that share no state.  Each          *)
(* behaviour runs one of them, in the situation "focus" names; the others  *)
(* stay as they start.                                                     *)
(***************************************************************************)
EXTENDS ProviderGovernance, ForecastPlan, CloseWorkspace, ProviderSync, AuditWorker, SnapshotBatch,
        EvidenceBundle
LOCAL INSTANCE TLC

CONSTANTS v1, u1, u2, b1, x1, r1, q1, q2

ASSUME ServicesAssumption ==
    /\ 1 \in Keys /\ {u1, u2} \subseteq Users /\ 2 \in Horizons
    /\ b1 \in Browsers /\ x1 \in Cycles /\ r1 \in Runners /\ {q1, q2} \subseteq EvCallers

VARIABLE focus

serviceVars == <<focus, govVars, fcVars, cwVars, psVars, awVars, sbVars, evVars>>

OffersAll == [i \in Idents |-> Capabilities]

\* Plans with every kind of default and given value ...
Documented(f, values) == {<<>>} \cup {f :> v : v \in values}
FieldsOf(currencies, goods, nations) ==
    {c @@ g @@ n : c \in Documented("base_currency", currencies),
                   g \in Documented("commodity_symbols", goods),
                   n \in Documented("jurisdictions", nations)}
PlanOf(preset, first, second, name) ==
    [defaults |-> preset, unsupported |-> FALSE,
     scenarios |-> <<[name |-> "n1", given |-> first], [name |-> name, given |-> second]>>]

AnyPlans ==
    {PlanOf(d, g, <<>>, name) :
        d \in FieldsOf({"USD", Null, Blank}, {{"XAU"}, Null}, {{"US"}, Null}),
        g \in FieldsOf({"EUR", Null}, {{}, {"XAU"}, Null}, {{}, {"US"}, Null}),
        name \in {"n1", "n2"}}

\* ... and plans whose scenarios ask for the same data or for other data.
Asked(goods, nations) ==
    "base_currency" :> "EUR" @@ "commodity_symbols" :> goods @@ "jurisdictions" :> nations

BatchPlans == {PlanOf(<<>>, Asked({"XAU"}, Null), Asked({}, {"US"}), "n1"),
               PlanOf(<<>>, Asked({}, {"US"}), Asked({}, {"US"}), "n2")}
OnePlan == [PlanOf(<<>>, Asked({}, {"US"}), <<>>, "n2") EXCEPT !.scenarios = <<Head(@)>>]

PlansOffered == AnyPlans \cup BatchPlans \cup {OnePlan}

ServicesInit ==
    /\ focus \in {"trust", "policies", "defaults", "choice", "reports", "race", "select",
                 "fx", "market", "tax", "audit", "plans", "batch", "caches",
                 "evidence", "unseen"}
    /\ GovInit
    /\ IF focus = "trust" THEN installed[2] = NoIdent ELSE installed = [k \in Keys |-> v1]
    /\ FcInit
    /\ CwInit
    /\ PsInit
    /\ AwInit
    /\ SbInit
    /\ EvInit
    /\ focus # "evidence" => evStatus = "READY_FOR_APPROVAL"
    /\ sbPlan \in (CASE focus = "plans" -> AnyPlans [] focus = "batch" -> BatchPlans
                     [] OTHER -> {OnePlan})
    /\ focus # "batch" => sbCaching
    /\ \A c \in Cycles : c # x1 \/ focus # "select" =>
           cwCycles[c].status = "IN_PROGRESS"

-----------------------------------------------------------------------------
(* Provider governance.                                                    *)

\* The operator changes the first key's provider; tools and the API
\* reconcile while one user works with it.
TrustStep ==
    \/ \E i \in Idents \cup {NoIdent} : GovInstall(1, i)
    \/ \E p \in Procs : \/ \E accept \in BOOLEAN : GovBoot(p, accept)
                        \/ GovReadCatalog(p) \/ GovReconcile(p)
    \/ GovPin(u1, 1)
    \/ \E e \in BOOLEAN : GovSavePolicy(u1, 1, e)
    \/ \E c \in Capabilities : GovResolve(u1, c, NoKey)
    \/ GovHandlerStep(u1)

\* The API starts once, and the catalog stays as it is.
ServeStep ==
    \/ recon[Api].phase = "off" /\ GovBoot(Api, FALSE)
    \/ GovReadCatalog(Api) \/ GovReconcile(Api)

\* Two administrators change the policy of one provider ...
PoliciesStep ==
    \/ ServeStep
    \/ \E u \in Users : \/ GovPin(u, 1)
                        \/ \E e \in BOOLEAN : GovSavePolicy(u, 1, e)
                        \/ GovRefreshSession(u)
                        \/ GovHandlerStep(u)

\* ... or the default of one capability ...
DefaultsStep ==
    \/ ServeStep
    \/ \E u \in Users, c \in Capabilities :
           \/ GovPin(u, c)
           \/ \E k \in Keys : GovSetDefault(u, c, k)
           \/ GovClearDefault(u, c)
           \/ GovRefreshSession(u)
           \/ GovHandlerStep(u)

\* ... or one changes both while the other resolves.
ChoiceStep ==
    \/ ServeStep
    \/ \E i \in {1} \cup Capabilities : GovPin(u1, i)
    \/ \E e \in BOOLEAN : GovSavePolicy(u1, 1, e)
    \/ \E c \in Capabilities, k \in Keys : GovSetDefault(u1, c, k)
    \/ \E c \in Capabilities, k \in {NoKey, 1} : GovResolve(u2, c, k)
    \/ \E u \in Users : GovHandlerStep(u)

GovFocused ==
    /\ \/ focus = "trust" /\ TrustStep
       \/ focus = "policies" /\ PoliciesStep
       \/ focus = "defaults" /\ DefaultsStep
       \/ focus = "choice" /\ ChoiceStep
    /\ Witness

-----------------------------------------------------------------------------
(* Forecast plans: requests against each other.                            *)
ReportsStep ==
    /\ \/ \E c \in Clients :
              \/ FcService(c) \/ FcLoseCommit(c) \/ FcAnswer(c)
              \/ \E s \in Budgets, h \in {NoHorizon, 2}, refresh \in BOOLEAN :
                     FcAsk(c, s, h, refresh)
       \/ FcPost
    /\ FcRemember

-----------------------------------------------------------------------------
(* The close workspace.                                                    *)
BrowserStep(b, cycles) ==
    \/ \E c \in cycles : CwSelect(b, c)
    \/ \E t \in Transitions : CwOverviewClick(b, t) \/ CwCloseClick(b, t)
    \/ \E l \in Lists : CwSubmit(b, l)
    \/ CwRefreshReadiness(b) \/ CwVerifyPosting(b) \/ CwRequests(b)

\* All browsers work on one cycle, or one works on all.
WorkspaceStep ==
    \/ focus = "race" /\ \E b \in Browsers : BrowserStep(b, {x1})
    \/ focus = "select" /\ BrowserStep(b1, Cycles)

-----------------------------------------------------------------------------
(* Reference data: two requests of one kind.  Only rates are asked for     *)
(* again after their request, so only with them the provider is switched.  *)
SyncStep ==
    /\ focus \in {"fx", "market", "tax"}
    /\ \/ \E s \in Syncers :
              \/ (focus = "market" => Len(psLog) < 2) /\ PsRequests(s, {focus})
              \/ PsWork(s)
       \/ \E enabled \in BOOLEAN : focus = "fx" /\ PsSwitch(enabled)

-----------------------------------------------------------------------------
(* Snapshots: one thread works while entries expire, or two share a cache; *)
(* of most plans only the document is looked at.                           *)
SnapshotStep ==
    \/ focus = "batch" /\ (SbTick \/ SbRequest(r1) \/ SbWork(r1))
    \/ focus = "caches" /\ \E r \in Runners : SbRequest(r) \/ SbWork(r)

-----------------------------------------------------------------------------
(* Evidence: one request is interleaved with all work that revisions count *)
(* or with work they do not, while another records in one go.              *)
EvidenceStep ==
    \/ ~EvAt(q2, "idle") /\ EvRequest(q2)
    \/ /\ EvAt(q2, "idle")
       /\ \/ focus = "evidence" /\ (\E kind \in {"control", "task"} : EvWork(kind))
          \/ focus = "evidence" /\ (EvPost \/ EvLeave)
          \/ focus = "unseen" /\ (EvStage \/ EvCarry)
          \/ EvClose \/ EvRequest(q1) \/ EvAsk(q2, FALSE)

ServicesNext ==
    /\ UNCHANGED focus
    /\ \/ GovFocused /\ UNCHANGED <<fcVars, cwVars, psVars, awVars, sbVars, evVars>>
       \/ focus = "reports" /\ ReportsStep
             /\ UNCHANGED <<govVars, cwVars, psVars, awVars, sbVars, evVars>>
       \/ WorkspaceStep /\ UNCHANGED <<govVars, fcVars, psVars, awVars, sbVars, evVars>>
       \/ SyncStep /\ UNCHANGED <<govVars, fcVars, cwVars, awVars, sbVars, evVars>>
       \/ focus = "audit" /\ AwNext /\ UNCHANGED <<govVars, fcVars, cwVars, psVars, sbVars, evVars>>
       \/ SnapshotStep /\ UNCHANGED <<govVars, fcVars, cwVars, psVars, awVars, evVars>>
       \/ /\ focus \in {"evidence", "unseen"} /\ EvidenceStep
          /\ UNCHANGED <<govVars, fcVars, cwVars, psVars, awVars, sbVars>>

ServicesSpec == ServicesInit /\ [][ServicesNext]_serviceVars

-----------------------------------------------------------------------------
\* The types of all variables.
ServicesTypeOK == GovTypeOK /\ CwTypeOK /\ PsTypeOK /\ SbTypeOK /\ EvTypeOK

\* What a user is answered and shown stands: a budget has one plan and a report
\* asked for with refresh=true is as current as the request, and the close
\* workspace draws the record of the cycle that is selected.
AnswersAreCurrent == BudgetPlanOnce /\ RefreshedIsCurrent /\ RecordIsOfSelected

\* Reference data is stored whole and once, and asked for while it is allowed.
SyncsAreSound == SyncsAreWhole /\ InstrumentOnce /\ RulesFollowFeed /\ AskedWhileAllowed

\* The audit log loses and reorders nothing it was given in order, and turning its
\* pages skips only entries that were recorded out of order.
AuditIsComplete == FlushedIsTried /\ WrittenInOrder /\ PagesSkipOnlyReordered
=============================================================================
