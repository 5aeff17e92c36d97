---------------------------- MODULE SnapshotBatch ----------------------------
(***************************************************************************)
(* Snapshots: scenario plans, the batches made of them, the service that   *)
(* assembles a snapshot from three ports, and its caches.  Sources:        *)
(* src/apps/modular_accounting/application, services/snapshot_service.py   *)
(* and routers/snapshot.py of the API, and the two plan commands of        *)
(* src/cli/macli.py.                                                       *)
(*                                                                         *)
(* Tags, dates and amounts are left out.  A list of symbols is the set of  *)
(* its normalised members.  What a port answers is the set of symbols it   *)
(* has data for.  Runners share one service, as its locked caches allow;   *)
(* the API and the command line make a service for each request.           *)
(***************************************************************************)
EXTENDS Naturals, Sequences, FiniteSets

CONSTANTS
    Plans,       \* plan documents: [defaults, unsupported, scenarios]
    Goods,       \* commodity symbols
    Nations,     \* jurisdictions
    Runners,     \* threads that run batches
    EntryTtl,    \* default_cache_ttl
    MaxTicks,    \* bound: the clock
    Null,        \* None, for the jurisdictions of a request: all of them
    Blank        \* an empty string

\* The fields of a plan document: lists are normalised, so an empty string is only a
\* currency.
ListsAreSets(fields) ==
    \A f \in DOMAIN fields \ {"base_currency"} :
        fields[f] = Null \/ fields[f] \in (SUBSET Goods) \cup (SUBSET Nations)

ASSUME SnapshotAssumption ==
    /\ EntryTtl \in Nat \ {0} /\ MaxTicks \in Nat
    /\ Blank # Null /\ \A symbols \in (SUBSET Goods) \cup (SUBSET Nations) : symbols # Blank
    /\ \A plan \in Plans :
           /\ Len(plan.scenarios) \in Nat /\ DOMAIN plan.scenarios = 1..Len(plan.scenarios)
           /\ ListsAreSets(plan.defaults)
           /\ \A n \in DOMAIN plan.scenarios : ListsAreSets(plan.scenarios[n].given)

VARIABLES
    sbPlan,      \* the plan document at hand
    sbCaching,   \* enable_caching
    sbClock,
    sbCaches,    \* of each port, entries [key, value, expires]
    sbHits, sbMisses,
    sbEpoch,     \* witness: how often each cache was cleared
    sbAsked,     \* witness: how often each port was asked
    sbRuns       \* what each runner does

sbVars == <<sbPlan, sbCaching, sbClock, sbCaches, sbHits, sbMisses, sbEpoch, sbAsked, sbRuns>>

-----------------------------------------------------------------------------
(* Plans.                                                                  *)
Unset(v) == v \in {Null, Blank}
Given(fields, f) == IF f \in DOMAIN fields THEN fields[f] ELSE Null

\* One mapping updated with another.
Over(first, second) ==
    [f \in DOMAIN first \cup DOMAIN second |-> IF f \in DOMAIN first THEN first[f] ELSE second[f]]

\* The currency is made a string whatever it is: None becomes a currency "NONE".
Scenario(name, fields) ==
    [name |-> name,
     base |-> CASE "base_currency" \notin DOMAIN fields -> Blank
                [] "base_currency" \in DOMAIN fields ->
                       IF fields["base_currency"] = Null THEN "NONE" ELSE fields["base_currency"],
     goods |-> IF Given(fields, "commodity_symbols") = Null THEN {}
               ELSE fields["commodity_symbols"],
     nations |-> Given(fields, "jurisdictions")]

\* A default list that is None is an empty list.
DefaultsOf(plan) ==
    [f \in DOMAIN plan.defaults |-> IF plan.defaults[f] = Null THEN {} ELSE plan.defaults[f]]

\* from_components: the preview of a plan.
PreviewOf(plan) ==
    [n \in DOMAIN plan.scenarios |->
        Scenario(plan.scenarios[n].name, Over(plan.scenarios[n].given, DefaultsOf(plan)))]

Named(scenarios, name) == {n \in DOMAIN scenarios : scenarios[n].name = name}

Previewed(plan) ==
    /\ ~plan.unsupported /\ plan.scenarios # <<>>
    /\ "base_currency" \in DOMAIN plan.defaults => plan.defaults["base_currency"] # Null
    /\ \A n \in DOMAIN plan.scenarios :
           /\ PreviewOf(plan)[n].base # Blank
           /\ Named(plan.scenarios, plan.scenarios[n].name) = {n}

\* A slip: an empty list is taken for a missing one.
CliFieldsFalsy(defaults, given) ==
    LET empty(f) == f # "base_currency" /\ Given(given, f) = {}
        inherited == {f \in DOMAIN defaults : ~Unset(defaults[f])
                          /\ (Unset(Given(given, f)) \/ empty(f))}
    IN  Over([f \in inherited |-> defaults[f]], given)

\* The command that runs a plan lets a default stand for None and for a currency
\* that is empty.
CliFields(defaults, given) ==
    LET inherited == {f \in DOMAIN defaults : ~Unset(defaults[f]) /\ Unset(Given(given, f))}
    IN  Over([f \in inherited |-> defaults[f]], given)

CliBatch(plan) ==
    [n \in DOMAIN plan.scenarios |->
        Scenario(plan.scenarios[n].name, CliFields(plan.defaults, plan.scenarios[n].given))]

\* The command that inspects a plan does so for the currency only.
InspectedGoods(plan) ==
    LET currency == {"base_currency"} \cap DOMAIN plan.defaults
        fields(n) == CliFields([f \in currency |-> plan.defaults[f]], plan.scenarios[n].given)
    IN  UNION {Scenario(plan.scenarios[n].name, fields(n)).goods : n \in DOMAIN plan.scenarios}

\* The API's batch knows no defaults.
ApiBatch(plan) ==
    [n \in DOMAIN plan.scenarios |-> Scenario(plan.scenarios[n].name, plan.scenarios[n].given)]

Complete(plan) ==
    \A n \in DOMAIN plan.scenarios :
        LET given == plan.scenarios[n].given
        IN  /\ ~Unset(Given(given, "base_currency"))
            /\ "commodity_symbols" \in DOMAIN given => given["commodity_symbols"] # Null

-----------------------------------------------------------------------------
(* The service and its caches: port 1 for rates, 2 for goods, 3 for taxes. *)
SbPorts == 1..3
Nothing == [data |-> {}, epoch |-> 0, late |-> FALSE]
Resting == [step |-> "idle", reset |-> FALSE, todo |-> <<>>, port |-> 1, value |-> Nothing,
            cleared |-> <<0, 0, 0>>, got |-> <<>>, results |-> <<>>]

SbInit ==
    /\ sbPlan \in Plans /\ sbCaching \in BOOLEAN
    /\ sbClock = 0
    /\ sbCaches = [p \in SbPorts |-> {}]
    /\ sbHits = [p \in SbPorts |-> 0] /\ sbMisses = sbHits
    /\ sbEpoch = sbHits /\ sbAsked = sbHits
    /\ sbRuns = [r \in Runners |-> Resting]

sbGiven == <<sbPlan, sbCaching>>

SbAt(r, step) == sbRuns[r].step = step
Current(r) == Head(sbRuns[r].todo)

\* Nothing is asked for an empty list.
Asks(scenario, p) == p = 1 \/ (p = 2 /\ scenario.goods # {}) \/ (p = 3 /\ scenario.nations # {})

\* A slip: taxes are cached under one key.
KeyOfFew(scenario, p) == CASE p = 1 -> scenario.base [] p = 2 -> scenario.goods [] p = 3 -> Null

KeyOf(scenario, p) ==
    CASE p = 1 -> scenario.base [] p = 2 -> scenario.goods [] p = 3 -> scenario.nations

\* A scenario begins with the caches cleared, when that is asked for.
Opening(reset) == IF reset /\ sbCaching THEN "clear" ELSE "look"

SbStart(r, batch, reset) ==
    /\ SbAt(r, "idle") /\ batch # <<>>
    /\ \A n \in DOMAIN batch : batch[n].base # Blank
    /\ sbRuns' = [sbRuns EXCEPT ![r] = [Resting EXCEPT
           !.step = Opening(reset), !.reset = reset, !.todo = batch]]
    /\ UNCHANGED <<sbGiven, sbClock, sbCaches, sbHits, sbMisses, sbEpoch, sbAsked>>

Advanced(r, step) ==
    LET p == sbRuns[r].port
    IN  [sbRuns[r] EXCEPT !.port = IF p = 3 THEN 1 ELSE p + 1, !.step = IF p = 3 THEN step ELSE @]

\* A slip: the cache of the taxes is forgotten.
ClearedSome(p) == IF p = 3 THEN sbCaches ELSE [sbCaches EXCEPT ![p] = {}]

Cleared(p) == [sbCaches EXCEPT ![p] = {}]

\* Between scenarios the caches are cleared, one after the other.
SbClear(r) ==
    LET p == sbRuns[r].port
    IN  /\ SbAt(r, "clear")
        /\ sbCaches' = Cleared(p)
        /\ sbEpoch' = [sbEpoch EXCEPT ![p] = @ + 1]
        /\ sbRuns' = [sbRuns EXCEPT ![r] = [Advanced(r, "look") EXCEPT !.cleared[p] = sbEpoch'[p]]]
        /\ UNCHANGED <<sbGiven, sbClock, sbHits, sbMisses, sbAsked>>

\* A port's part of the snapshot is at hand.
SbGet(r, value) ==
    sbRuns' = [sbRuns EXCEPT ![r] = [Advanced(r, "diagnose") EXCEPT
                   !.got = Append(@, value),
                   !.step = IF sbRuns[r].port = 3 THEN "diagnose" ELSE "look"]]

SbPass(r) ==
    /\ SbAt(r, "look") /\ ~Asks(Current(r), sbRuns[r].port)
    /\ SbGet(r, Nothing)
    /\ UNCHANGED <<sbGiven, sbClock, sbCaches, sbHits, sbMisses, sbEpoch, sbAsked>>

Found(r) ==
    {e \in sbCaches[sbRuns[r].port] : e.key = KeyOf(Current(r), sbRuns[r].port)}

Expires(e) == e.expires <= sbClock

SbHit(r) ==
    /\ SbAt(r, "look") /\ Asks(Current(r), sbRuns[r].port) /\ sbCaching
    /\ \E e \in Found(r) : ~Expires(e) /\ SbGet(r, e.value)
    /\ sbHits' = [sbHits EXCEPT ![sbRuns[r].port] = @ + 1]
    /\ UNCHANGED <<sbGiven, sbClock, sbCaches, sbMisses, sbEpoch, sbAsked>>

\* A slip: an entry that has expired is removed but not counted.
SbMissUncounted(r) ==
    LET p == sbRuns[r].port
    IN  /\ SbAt(r, "look") /\ Asks(Current(r), p)
        /\ \A e \in Found(r) : Expires(e) \/ ~sbCaching
        /\ sbCaches' = [sbCaches EXCEPT ![p] = @ \ Found(r)]
        /\ sbMisses' = IF sbCaching /\ Found(r) = {} THEN [sbMisses EXCEPT ![p] = @ + 1] ELSE sbMisses
        /\ sbRuns' = [sbRuns EXCEPT ![r].step = "ask"]
        /\ UNCHANGED <<sbGiven, sbClock, sbHits, sbEpoch, sbAsked>>

\* An entry that has expired is removed and counts as missing.
SbMiss(r) ==
    LET p == sbRuns[r].port
    IN  /\ SbAt(r, "look") /\ Asks(Current(r), p)
        /\ \A e \in Found(r) : Expires(e) \/ ~sbCaching
        /\ sbCaches' = [sbCaches EXCEPT ![p] = @ \ Found(r)]
        /\ sbMisses' = IF sbCaching THEN [sbMisses EXCEPT ![p] = @ + 1] ELSE sbMisses
        /\ sbRuns' = [sbRuns EXCEPT ![r].step = "ask"]
        /\ UNCHANGED <<sbGiven, sbClock, sbHits, sbEpoch, sbAsked>>

\* What the ports may answer: rates of the currency or none, a quote for each symbol
\* that has prices, the rules of the jurisdictions asked for or of all.
FxAnswers(scenario) == {{}, {scenario.base}}
CommodityAnswers(scenario) == SUBSET scenario.goods
TaxAnswers(scenario) == SUBSET (IF scenario.nations = Null THEN Nations ELSE scenario.nations)

PortAnswers(scenario, p) ==
    CASE p = 1 -> FxAnswers(scenario) [] p = 2 -> CommodityAnswers(scenario)
      [] p = 3 -> TaxAnswers(scenario)

\* The lock of the cache is not held while the port is asked.
SbAsk(r) ==
    LET run == sbRuns[r]
    IN  /\ SbAt(r, "ask")
        /\ sbAsked' = [sbAsked EXCEPT ![run.port] = @ + 1]
        /\ \E data \in PortAnswers(Current(r), run.port) :
               LET value == [data |-> data, epoch |-> sbEpoch[run.port], late |-> FALSE]
               IN  IF sbCaching
                   THEN sbRuns' = [sbRuns EXCEPT ![r].value = value, ![r].step = "store"]
                   ELSE SbGet(r, value)
        /\ UNCHANGED <<sbGiven, sbClock, sbCaches, sbHits, sbMisses, sbEpoch>>

\* A port that raises ends the batch: there is no result for any scenario.
SbAskFails(r) ==
    /\ SbAt(r, "ask")
    /\ sbAsked' = [sbAsked EXCEPT ![sbRuns[r].port] = @ + 1]
    /\ sbRuns' = [sbRuns EXCEPT ![r] = [Resting EXCEPT !.step = "failed"]]
    /\ UNCHANGED <<sbGiven, sbClock, sbCaches, sbHits, sbMisses, sbEpoch>>

\* The value is stored whatever was cleared meanwhile.
SbStore(r) ==
    LET run == sbRuns[r]
        value == [run.value EXCEPT !.late = @ \/ run.value.epoch # sbEpoch[run.port]]
    IN  /\ SbAt(r, "store")
        /\ sbCaches' = [sbCaches EXCEPT ![run.port] =
               (@ \ Found(r)) \cup {[key |-> KeyOf(Current(r), run.port), value |-> value,
                                     expires |-> sbClock + EntryTtl]}]
        /\ SbGet(r, run.value)
        /\ UNCHANGED <<sbGiven, sbClock, sbHits, sbMisses, sbEpoch, sbAsked>>

Missing(got) == {p \in SbPorts : got[p].data = {}}

\* The diagnostics are computed and the next scenario begins.
SbDiagnose(r) ==
    LET run == sbRuns[r]
        rest == Tail(run.todo)
    IN  /\ SbAt(r, "diagnose")
        /\ sbRuns' = [sbRuns EXCEPT ![r] = [run EXCEPT
               !.results = Append(@, [scenario |-> Current(r), got |-> run.got,
                                      cleared |-> run.cleared, missing |-> Missing(run.got)]),
               !.todo = rest, !.got = <<>>, !.value = Nothing,
               !.step = IF rest = <<>> THEN "answered" ELSE Opening(run.reset)]]
        /\ UNCHANGED <<sbGiven, sbClock, sbCaches, sbHits, sbMisses, sbEpoch, sbAsked>>

SbTick ==
    /\ sbClock < MaxTicks /\ sbClock' = sbClock + 1
    /\ UNCHANGED <<sbGiven, sbCaches, sbHits, sbMisses, sbEpoch, sbAsked, sbRuns>>

SbWork(r) ==
    \/ SbClear(r) \/ SbPass(r) \/ SbHit(r) \/ SbMiss(r)
    \/ SbAsk(r) \/ SbAskFails(r) \/ SbStore(r) \/ SbDiagnose(r)

SbRequest(r) ==
    \E reset \in BOOLEAN :
        \/ SbStart(r, CliBatch(sbPlan), reset)
        \/ Complete(sbPlan) /\ SbStart(r, ApiBatch(sbPlan), reset)

SbNext == SbTick \/ \E r \in Runners : SbRequest(r) \/ SbWork(r)

SbSpec == SbInit /\ [][SbNext]_sbVars

-----------------------------------------------------------------------------
(* The summary of a batch.                                                 *)
\* A scenario's missing sections are kept under its name.
SummaryOf(results) ==
    LET names == {results[n].scenario.name : n \in {n \in DOMAIN results : results[n].missing # {}}}
        last(name) == CHOOSE n \in DOMAIN results :
            /\ results[n].scenario.name = name /\ results[n].missing # {}
            /\ \A k \in DOMAIN results : k > n /\ results[k].scenario.name = name
                                             => results[k].missing = {}
    IN  [missing |-> [name \in names |-> results[last(name)].missing],
         nations |-> UNION {IF results[n].scenario.nations # Null
                            THEN results[n].scenario.nations ELSE results[n].got[3].data :
                                n \in DOMAIN results},
         goods |-> UNION {results[n].scenario.goods \cup results[n].got[2].data :
                              n \in DOMAIN results}]

-----------------------------------------------------------------------------
\* The types of all variables.
SbTypeOK ==
    /\ sbClock \in 0..MaxTicks /\ sbCaching \in BOOLEAN
    /\ \A p \in SbPorts : {sbHits[p], sbMisses[p], sbEpoch[p], sbAsked[p]} \subseteq Nat
    /\ \A r \in Runners :
           /\ sbRuns[r].step \in {"idle", "clear", "look", "ask", "store", "diagnose",
                                  "answered", "failed"}
           /\ sbRuns[r].port \in SbPorts /\ Len(sbRuns[r].got) <= 3

\* With a reset between scenarios, no scenario is answered with data from before its
\* reset, unless another thread had asked for it then and stored it only afterwards.
FreshAfterReset ==
    \A r \in Runners : \A n \in DOMAIN sbRuns[r].results :
        LET result == sbRuns[r].results[n]
        IN  \A p \in SbPorts : LET value == result.got[p]
                               IN  value = Nothing \/ value.epoch >= result.cleared[p] \/ value.late

\* A scenario is answered with data of what it asked for, whoever asked before, and
\* the summary names all that was found and every scenario that lacks something,
\* with what it lacks if names are not used twice.
AnswersTheRequest ==
    \A r \in Runners :
        LET results == sbRuns[r].results
            summary == SummaryOf(results)
        IN  \A n \in DOMAIN results :
                LET result == results[n]
                    scenario == result.scenario
                IN  /\ \A p \in SbPorts : result.got[p].data \in PortAnswers(scenario, p)
                    /\ result.got[2].data \subseteq summary.goods
                    /\ result.got[3].data \subseteq summary.nations
                    /\ result.missing # {} => scenario.name \in DOMAIN summary.missing
                    /\ result.missing # {}
                         /\ (\A k \in DOMAIN results \ {n} :
                                 results[k].scenario.name # scenario.name)
                       => summary.missing[scenario.name] = result.missing

\* Every miss that is counted is one call of a port, also when entries expire, the
\* port fails or two threads miss the same key.
LookupsAddUp ==
    sbCaching => \A p \in SbPorts :
        sbMisses[p] = sbAsked[p]
            + Cardinality({r \in Runners : SbAt(r, "ask") /\ sbRuns[r].port = p})

\* What the preview of a plan shows is what the command line runs, and what its
\* inspection counts, as long as nothing in the plan is explicitly null (the preview
\* keeps a null, the command replaces it by the default) and, for the inspection, the
\* defaults name no symbols (it does not apply them).
Explicit(fields) == \A f \in DOMAIN fields : fields[f] # Null

PlansAgree ==
    Previewed(sbPlan) /\ Explicit(sbPlan.defaults)
        /\ (\A n \in DOMAIN sbPlan.scenarios : Explicit(sbPlan.scenarios[n].given))
    => /\ CliBatch(sbPlan) = PreviewOf(sbPlan)
       /\ "commodity_symbols" \notin DOMAIN sbPlan.defaults =>
              InspectedGoods(sbPlan) = UNION {PreviewOf(sbPlan)[n].goods : n \in DOMAIN sbPlan.scenarios}

\* The caches, the batches and the plans together.
SnapshotsAreSound == FreshAfterReset /\ AnswersTheRequest /\ LookupsAddUp /\ PlansAgree
=============================================================================
