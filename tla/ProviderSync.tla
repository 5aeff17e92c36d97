---------------------------- MODULE ProviderSync ----------------------------
(***************************************************************************)
(* Synchronising reference data from providers: exchange rates with their  *)
(* backfill (routers/fx.py, services/fx_service.py), market prices         *)
(* (routers/market.py, services/market_service.py) and tax rules           *)
(* (routers/tax.py, services/tax_service.py), over the bounded client of   *)
(* plugins/provider_limits.py and the bundled providers.                   *)
(*                                                                         *)
(* One organization, one base currency, one symbol.  A rate is a quote and *)
(* a day, a price an instrument and a day; what distinguishes two answers  *)
(* of a provider for the same key is the sync that fetched them.           *)
(***************************************************************************)
EXTENDS Naturals, Sequences, FiniteSets

CONSTANTS
    Syncers,        \* requests that run at once
    Quotes,         \* the currencies a provider quotes
    SyncDays,       \* the days data is for, the last of them today
    RuleKeys,       \* jurisdiction, scope and validity of a tax rule
    OwnKeys,        \* the ones whose source is the provider's name
    MaxAttempts,    \* MAX_PROVIDER_ATTEMPTS
    MaxSyncs,       \* bound: payloads fetched and rule sets read
    MaxRules        \* bound: tax rules ever inserted

ASSUME SyncAssumption ==
    /\ \E today \in SyncDays : today \in Nat \ {0} /\ SyncDays = 1..today
    /\ OwnKeys \subseteq RuleKeys
    /\ MaxAttempts \in Nat \ {0} /\ MaxRules \in Nat

VARIABLES
    psEnabled,      \* whether the organization may use the provider
    psStored,       \* rows of Rate and Price: [key, by]
    psInstruments,  \* how many rows Instrument has for the symbol
    psRules,        \* rows of TaxRule: [id, key, version]
    psRuleIds,      \* the last id given to a tax rule
    psCalls,        \* what each syncer does
    psTasks,        \* the backfill days each syncer still has to do
    psLog,          \* witness: what each sync fetched, and whether it was answered
    psRaced,        \* witness: rules and instruments two overlapping syncs created
    psFeed          \* witness: the rules last synced from a current read

psVars == <<psEnabled, psStored, psInstruments, psRules, psRuleIds, psCalls,
            psTasks, psLog, psRaced, psFeed>>

Today == CHOOSE d \in SyncDays : \A e \in SyncDays : e <= d
NoFeed == {[key |-> "none", version |-> 0]}
NoSync == [kind |-> "none", step |-> "none", attempt |-> 0, day |-> Today, seen |-> {},
           batch |-> {}, instrument |-> 0, backfill |-> FALSE, stale |-> FALSE, allowed |-> FALSE]

PsInit ==
    /\ psEnabled = TRUE
    /\ psStored = {} /\ psInstruments = 0
    /\ psRules = {} /\ psRuleIds = 0
    /\ psCalls = [s \in Syncers |-> NoSync]
    /\ psTasks = [s \in Syncers |-> <<>>]
    /\ psLog = <<>> /\ psRaced = {} /\ psFeed = {}

psData == <<psStored, psInstruments, psRules, psRuleIds>>
psWitness == <<psLog, psRaced, psFeed>>

PsGo(s, step) == psCalls' = [psCalls EXCEPT ![s].step = step]
PsIdle(s) == psCalls[s].kind = "none"
PsAt(s, step) == psCalls[s].step = step

\* An exception ends the request, and with it the background tasks behind the
\* one that failed.
PsFail(s) ==
    /\ psCalls' = [psCalls EXCEPT ![s] = NoSync]
    /\ psTasks' = [psTasks EXCEPT ![s] = <<>>]

-----------------------------------------------------------------------------
\* Resolution refuses a provider the organization disabled (ProviderGovernance);
\* a refused request changes nothing and is left out.
PsBegin(s, kind, backfill) ==
    /\ PsIdle(s) /\ psTasks[s] = <<>> /\ psEnabled /\ Len(psLog) < MaxSyncs
    /\ psCalls' = [psCalls EXCEPT ![s] = [NoSync EXCEPT
           !.kind = kind, !.backfill = backfill, !.allowed = TRUE,
           !.step = CASE kind = "fx" -> "fetch" [] kind = "market" -> "lookup"
                      [] kind = "tax" -> "read"]]
    /\ UNCHANGED <<psEnabled, psData, psTasks, psWitness>>

PsSwitch(enabled) ==
    /\ psEnabled # enabled
    /\ psEnabled' = enabled
    /\ psCalls' = [s \in Syncers |->
                      [psCalls[s] EXCEPT !.allowed = ~PsIdle(s) /\ (@ \/ enabled)]]
    /\ UNCHANGED <<psData, psTasks, psWitness>>

-----------------------------------------------------------------------------
(* Prices: the instrument is found or created, in a commit of its own,     *)
(* before the prices are fetched.                                          *)

\* A slip: the symbol is not looked up again.
PsLookupNever(s) ==
    /\ PsAt(s, "lookup")
    /\ PsGo(s, "create")
    /\ UNCHANGED <<psEnabled, psData, psTasks, psWitness>>

PsLookup(s) ==
    /\ PsAt(s, "lookup")
    /\ IF psInstruments = 0 THEN PsGo(s, "create")
       ELSE \E i \in 1..psInstruments :
                psCalls' = [psCalls EXCEPT ![s].instrument = i, ![s].step = "fetch"]
    /\ UNCHANGED <<psEnabled, psData, psTasks, psWitness>>

PsCreate(s) ==
    /\ PsAt(s, "create")
    /\ psInstruments' = psInstruments + 1
    /\ psCalls' = [psCalls EXCEPT ![s].instrument = psInstruments', ![s].step = "fetch"]
    /\ psRaced' = IF \E t \in Syncers \ {s} : PsAt(t, "create")
                  THEN psRaced \cup {"instrument"} ELSE psRaced
    /\ UNCHANGED <<psEnabled, psStored, psRules, psRuleIds, psTasks, psLog, psFeed>>

-----------------------------------------------------------------------------
\* The rates of one answer are all of one day: the day the provider says, else the
\* day asked for, else today.  One bad entry spoils the whole answer, so nothing is
\* left out of what is returned.
EcbRates == {{<<q, d>> : q \in Q} : Q \in SUBSET Quotes, d \in SyncDays}

\* The other provider of rates, keyed by an application id, answers the same way.
OxrRates == EcbRates

\* Prices are of the days of the range asked for that the market was open; a demo
\* provider makes up one for each day.
YfPrices(instrument) == {{<<instrument, d>> : d \in D} : D \in SUBSET SyncDays}
FuturesPrices(instrument) == {{instrument} \X SyncDays}

Payloads(call) ==
    IF call.kind = "market"
    THEN YfPrices(call.instrument) \cup FuturesPrices(call.instrument)
    ELSE EcbRates \cup OxrRates

Attempts(kind) == IF kind = "market" THEN 1 ELSE MaxAttempts

PsFetch(s) ==
    LET call == psCalls[s]
    IN  /\ PsAt(s, "fetch") /\ Len(psLog) < MaxSyncs
        /\ \E payload \in Payloads(call) :
               /\ psCalls' = [psCalls EXCEPT ![s].batch = payload, ![s].step = "store"]
               /\ psLog' = Append(psLog, [batch |-> payload, by |-> s, answered |-> FALSE])
        /\ UNCHANGED <<psEnabled, psData, psTasks, psRaced, psFeed>>

\* A transient status, a timeout or a lost connection is tried once more.
PsRetry(s) ==
    /\ PsAt(s, "fetch") /\ psCalls[s].attempt + 1 < Attempts(psCalls[s].kind)
    /\ psCalls' = [psCalls EXCEPT ![s].attempt = @ + 1]
    /\ UNCHANGED <<psEnabled, psData, psTasks, psWitness>>

\* The attempts are used up, or the answer is an error, too long or malformed.
PsFetchFails(s) ==
    /\ PsAt(s, "fetch") /\ PsFail(s)
    /\ UNCHANGED <<psEnabled, psData, psWitness>>

-----------------------------------------------------------------------------
\* The number of the sync that s is in.
Number(s) == CHOOSE n \in DOMAIN psLog :
    psLog[n].by = s /\ \A k \in DOMAIN psLog : psLog[k].by = s => k <= n

\* The unique constraints of Rate and Price.
Violates(batch) == \E row \in psStored : row.key \in batch

\* A slip: rows that exist are skipped, and the rest is stored.
PsStoreNew(s) ==
    LET known == {row.key : row \in psStored}
    IN  /\ PsAt(s, "store")
        /\ psStored' = psStored
                \cup {[key |-> k, by |-> Number(s)] : k \in psCalls[s].batch \ known}
        /\ PsGo(s, "audit")
        /\ UNCHANGED <<psEnabled, psInstruments, psRules, psRuleIds, psTasks, psWitness>>

\* All rows of the batch are committed, or none is.
PsStore(s) ==
    LET batch == psCalls[s].batch
    IN  /\ PsAt(s, "store")
        /\ IF Violates(batch)
           THEN PsFail(s) /\ UNCHANGED psStored
           ELSE /\ psStored' = psStored \cup {[key |-> k, by |-> Number(s)] : k \in batch}
                /\ PsGo(s, "audit")
                /\ UNCHANGED psTasks
        /\ UNCHANGED <<psEnabled, psInstruments, psRules, psRuleIds, psWitness>>

\* The record is committed after the data.  The answered request for rates leaves
\* its backfill behind, one task for each day before today, the latest first.
Backwards == [offset \in 1..(Today - 1) |-> Today - offset]

PsAudit(s) ==
    /\ PsAt(s, "audit")
    /\ psLog' = [psLog EXCEPT ![Number(s)].answered = TRUE]
    /\ psTasks' = IF psCalls[s].backfill
                  THEN [psTasks EXCEPT ![s] = Backwards] ELSE psTasks
    /\ psCalls' = [psCalls EXCEPT ![s] = NoSync]
    /\ UNCHANGED <<psEnabled, psData, psRaced, psFeed>>

\* The record cannot be written: the client is told so, but the data stays.
PsAuditFails(s) ==
    /\ PsAt(s, "audit") /\ PsFail(s)
    /\ UNCHANGED <<psEnabled, psData, psWitness>>

\* A slip: the provider resolved for the request is used for the tasks.
PsTaskUnresolved(s) ==
    /\ PsIdle(s) /\ psTasks[s] # <<>>
    /\ psCalls' = [psCalls EXCEPT ![s] = [NoSync EXCEPT
           !.kind = "task", !.step = "fetch", !.day = Head(psTasks[s]), !.allowed = psEnabled]]
    /\ psTasks' = [psTasks EXCEPT ![s] = Tail(@)]
    /\ UNCHANGED <<psEnabled, psData, psWitness>>

\* The next task resolves the provider again, in a session of its own.
PsTask(s) ==
    /\ PsIdle(s) /\ psTasks[s] # <<>>
    /\ IF psEnabled
       THEN /\ psCalls' = [psCalls EXCEPT ![s] = [NoSync EXCEPT
                   !.kind = "task", !.step = "fetch", !.day = Head(psTasks[s]), !.allowed = TRUE]]
            /\ psTasks' = [psTasks EXCEPT ![s] = Tail(@)]
       ELSE PsFail(s)
    /\ UNCHANGED <<psEnabled, psData, psWitness>>

-----------------------------------------------------------------------------
(* Tax rules: the provider's rules are checked, the stored ones read, and  *)
(* the difference committed.                                               *)
Feeds == UNION {[K -> {1, 2}] : K \in SUBSET RuleKeys}

\* Stored rules are looked for by the provider's name; the sync has the rules of
\* its feed in hand before it reads them.
PsRead(s) ==
    /\ PsAt(s, "read")
    /\ \E feed \in Feeds :
           psCalls' = [psCalls EXCEPT ![s] = [@ EXCEPT
               !.batch = {[key |-> k, version |-> feed[k]] : k \in DOMAIN feed},
               !.seen = {r \in psRules : r.key \in OwnKeys}, !.step = "write"]]
    /\ UNCHANGED <<psEnabled, psData, psTasks, psWitness>>

\* A rule with an inverted window, an expression that is not supported or the
\* key of another rule refuses the whole feed.
PsRefuseFeed(s) ==
    /\ PsAt(s, "read") /\ PsFail(s)
    /\ UNCHANGED <<psEnabled, psData, psWitness>>

\* A slip: every row read counts as new.
IndexedNever(seen) == {}

\* existing_index: of the rows with one key, the last.
Indexed(seen) == {r \in seen : \A o \in seen : o.key = r.key => o.id <= r.id}

Same(r, o) == r.id = o.id /\ r.key = o.key
RulesFor(feed, key) == {n \in feed : n.key = key}

\* A rule after a sync that has found these changed.
Revised(r, changed, feed) ==
    [r EXCEPT !.version = IF \E o \in changed : Same(r, o)
                          THEN (CHOOSE n \in RulesFor(feed, r.key) : TRUE).version ELSE @]

\* A rule found is changed where it differs from the one read (which fails when its
\* row is gone), one that is not wanted any more is removed, the others inserted.
\* Rows inserted together share an id; an id and a key name a row.
PsWrite(s) ==
    LET call == psCalls[s]
        index == Indexed(call.seen)
        changed == {r \in index : \E n \in RulesFor(call.batch, r.key) : n.version # r.version}
        removed == {r \in index : RulesFor(call.batch, r.key) = {}}
        inserted == {n \in call.batch : \A r \in index : r.key # n.key}
        kept == {r \in psRules : \A o \in removed : ~Same(r, o)}
    IN  /\ PsAt(s, "write") /\ psRuleIds < MaxRules
        /\ IF \E o \in changed : \A r \in psRules : ~Same(r, o)
           THEN PsFail(s) /\ UNCHANGED <<psRules, psRuleIds, psRaced, psFeed>>
           ELSE /\ psRules' =
                     {Revised(r, changed, call.batch) : r \in kept}
                     \cup {[id |-> psRuleIds + 1, key |-> n.key, version |-> n.version] :
                               n \in inserted}
                /\ psRuleIds' = psRuleIds + (IF inserted = {} THEN 0 ELSE 1)
                /\ psRaced' = IF call.stale THEN psRaced \cup {n.key : n \in inserted} ELSE psRaced
                /\ psFeed' = IF call.stale THEN NoFeed ELSE call.batch
                /\ psCalls' = [t \in Syncers |->
                       IF t = s THEN NoSync
                       ELSE [psCalls[t] EXCEPT !.stale = @ \/ PsAt(t, "write")]]
                /\ UNCHANGED psTasks
        /\ UNCHANGED <<psEnabled, psStored, psInstruments, psLog>>

-----------------------------------------------------------------------------
PsRequests(s, kinds) ==
    \E kind \in kinds, backfill \in BOOLEAN :
        (backfill => kind = "fx") /\ PsBegin(s, kind, backfill)

PsWork(s) ==
    \/ PsLookup(s) \/ PsCreate(s)
    \/ PsFetch(s) \/ PsRetry(s) \/ PsFetchFails(s) \/ PsStore(s)
    \/ PsAudit(s) \/ PsAuditFails(s) \/ PsTask(s)
    \/ PsRead(s) \/ PsRefuseFeed(s) \/ PsWrite(s)

PsNext ==
    \/ \E s \in Syncers : PsRequests(s, {"fx", "market", "tax"}) \/ PsWork(s)
    \/ \E enabled \in BOOLEAN : PsSwitch(enabled)

PsSpec == PsInit /\ [][PsNext]_psVars

-----------------------------------------------------------------------------
\* The types of all variables.
PsTypeOK ==
    /\ psEnabled \in BOOLEAN
    /\ \A row \in psStored : row.by \in DOMAIN psLog /\ row.key \in psLog[row.by].batch
    /\ psInstruments \in Nat /\ psRuleIds \in 0..MaxRules
    /\ psRules \subseteq [id: 1..psRuleIds, key: RuleKeys, version: {1, 2}]
    /\ \A s \in Syncers :
           /\ psCalls[s].kind \in {"none", "fx", "task", "market", "tax"}
           /\ psCalls[s].step \in
                  {"none", "lookup", "create", "fetch", "store", "audit", "read", "write"}
           /\ psCalls[s].attempt \in 0..(MaxAttempts - 1)
           /\ psTasks[s] \in Seq(SyncDays \ {Today})
    /\ psRaced \subseteq RuleKeys \cup {"instrument"}

\* A sync stores all rows it fetched or none, and an answered one all of them,
\* whatever other syncs of the same days and the failures in between do: no day is
\* patched together from the answers of two requests for it.
SyncsAreWhole ==
    \A n \in DOMAIN psLog :
        LET mine == {row.key : row \in {row \in psStored : row.by = n}}
        IN  mine \in {{}, psLog[n].batch} /\ (psLog[n].answered => mine = psLog[n].batch)

\* A symbol gets a second instrument, and with it a second price for a day, only
\* from two requests that both found none.
InstrumentOnce == psInstruments <= 1 \/ "instrument" \in psRaced

\* The rules whose source is the provider's name follow its feed: after a sync that
\* read what it replaced they are the rules of the feed, each once, unless two
\* overlapping syncs have both inserted the rule.
RulesFollowFeed ==
    \A k \in OwnKeys \ psRaced :
        LET rows == {r \in psRules : r.key = k}
        IN  /\ Cardinality(rows) <= 1
            /\ psFeed # NoFeed =>
                   {r.version : r \in rows} = {n.version : n \in RulesFor(psFeed, k)}

\* A provider is asked only for a request, or one task of a backfill, since whose
\* beginning the organization allowed it: disabling it stops a backfill under way.
AskedWhileAllowed == \A s \in Syncers : PsAt(s, "fetch") => psCalls[s].allowed
=============================================================================
