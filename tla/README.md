# TLA+ models of the modular accounting toolkit

Specifications of the parts of this repository whose correctness depends on the
order in which concurrent requests, jobs and threads read and write, with TLC configurations that
check them on small instances and TLAPS proofs for every instance. All source
paths below are relative to the repository; the application is under `src/apps`
(`src/src/apps` in `PROJECT.json`, where the leading `src/` is the checkout).

## 1. The system

A FastAPI service over SQLModel and SQLite, a Streamlit front end that calls it,
a background scheduler, and a plugin SDK. Every request has its own database
session (`apps/api/db.py`). Four facts about those sessions shape every model:

* SQLite has one writer. The driver begins a transaction only before the first
  INSERT, UPDATE or DELETE, so a SELECT before it is not protected from a
  commit of another session, and the first write holds everybody else off until
  the commit or the rollback.
* `acquire_period_write_gate` (`period_lock.py`) is a no-op UPDATE whose only
  purpose is to take that writer position *before* reading.
* Sessions keep what they read (`expire_on_commit=False`): a row is not read
  again until a rollback expires it, and a flush writes only changed columns.
* Any exception rolls the session back. A request may end at any point.

### Inventory

| Component | State | Operations | What is hard | What makes it correct |
|---|---|---|---|---|
| Posting gate and periods (`period_lock.py`, `close_service.py`, `ledger_service.py`) | `AccountingPeriod.status`, dates, `ledger_activity_revision`; `Transaction` rows | `post_transaction`, `create_period`, `close`, `reopen`, the other cycle transitions | gated and ungated calls race; a period may be created over a closed one | no journal enters a ready or closed period; open periods are disjoint; no posting is missed by the revision |
| Close cycle (`close_service.py`, `routers/close.py`) | `CloseCycle.status`, `version`, `content_revision`; checklist tasks | `start`, `mark_ready`, `return_to_work`, `cancel`, `restart`, `close`, `reopen`, tasks, `readiness` | everything is decided on unlocked reads and committed by compare-and-swap | the books close only over complete and current controls |
| Reconciliations, variances, approvals (`reconciliation_service.py`) | `AccountReconciliation`, `VarianceReviewRun`, `JournalApproval` | prepare, approve, materialize, review, request, decide | balances and reports are read between the cycle and the commit | a stamp never claims a ledger that was not read; nobody approves their own work; caps hold |
| Close evidence (`close_evidence_service.py`) | latest `CloseEvidence` | `build_bundle`, `record_generation`, download | dozens of unlocked reads | evidence counted as current describes the state as it is |
| Staged workflow (`workflow_service.py`, `routers/workflow.py`) | `StagedTransaction`, `StagedPosting` | ingest, process, auto_process | stale copies, per-item commits, rollback in the middle of a batch | a row is posted once, with its journal; a batch is atomic with auto_process |
| Authentication sessions (`auth_session_service.py`, `routers/auth.py`, `scheduler.py`) | `AuthSession` | login, refresh, logout, revoke, cleanup | one token submitted twice; rows removed under a running call | rotation at most once; reuse kills the session; revocation is final and recorded once |
| Login throttling (`routers/auth.py`) | per-process failure counters and lockouts | check, register, clear | check and count are separate critical sections; the time is the request's | a lockout is earned by the limit's failures, and holds |
| Forecast plans (`budget_service.py`, `scheduler.py`) | `ForecastPlan`, outputs, a report cache | report, refresh, scheduled refresh, retry | two creators of a plan; a job over many plans on one session | one plan per budget; one failing plan does not stop the rest; refresh=true is current |
| Provider governance (`provider_governance_service.py`, `plugin_loader.py`) | registrations, policies, defaults, revisions | reconcile, set policy, set and clear default, resolve | guards on rows other than the one swapped; column-wise writes of two processes | nothing untrusted or disabled is resolved; no decision is overwritten unseen |
| Audit log (`audit.py`, `routers/audit.py`) | queue, worker thread, table | log, flush, close, paging | shutdown racing with `put`; a session of its own | nothing queued is lost or reordered; flush ends |
| Web session (`apps/web/api_session.py`, `app.py`) | token pair, results, upload in the browser session | sign in, request with one refresh on 401, sign out | a lost answer to a refresh | at most one refresh and one execution; nothing outlives its session |
| Close workspace (`apps/web/close_workspace.py`) | selected cycle, its record, drawn rows | select, lifecycle buttons, forms, verification | the page was drawn before others moved | a click acts on what was drawn |
| Reference data (`fx_service.py`, `market_service.py`, `tax_service.py`) | `Rate`, `Price`, `Instrument`, `TaxRule` | sync, backfill | read-then-insert; commit before the audit record | whole batches; rules follow their feed |
| Snapshots (`modular_accounting/application`, `snapshot_service.py`, `macli.py`) | three TTL caches with counters | preview, batch, inspect, reset | computes outside its lock; several readers of one plan format | no answer older than a reset; every reader means the same plan |
| Startup, health, extensions (`startup.py`, `main.py`, `health.py`, `extension_loader.py`) | startup records, registry, checks, gauges | start, load, probe, stop | one registry, reloaded by requests without a lock | nothing is served before startup; reports are true |
| Ledger validation (`ledger_service.py`) | none | `validate_transaction`, `trial_balance` | arithmetic | balanced journals give a balanced trial balance |
| Observability, presentation, SDK, tools | none a decision rests on | | | |

How they interact: posting (direct or staged) and the close cycle meet in the
writer position and in `ledger_activity_revision`; controls and evidence meet
the cycle in `content_revision`; the close cycle reads forecast reports; login
and refresh call the cleanup that the scheduler runs as well. Syncs and
snapshots resolve their provider through governance; the two workspaces talk to
the API through the web session, whose renewal of tokens clears what they keep.

`PROJECT.json` lists, under `hazards`, the lines at which each difficulty bites
and the properties that would catch it.

## 2. Modules

| Module | Models | Used by |
|---|---|---|
| `PeriodGate` | overlapping periods of one organization; every call that posts, creates a period or moves a cycle, in two halves | `MCPeriodGate`, `PeriodGate_proofs` |
| `CloseControl` | abstract: what a close promises about one period | refined by `CloseCycle` |
| `CloseCycle` | one period, its cycle, all controls, evidence | `MCCloseCycle`, `CloseCycle_proofs` |
| `EvidenceBundle` | how one bundle is read in sections, recorded and downloaded | `MCServices`, `Services_proofs` |
| `StagedPosting` | ingest and process over one period | `MCStagedPosting`, `StagedPosting_proofs` |
| `AuthSession` | sessions, tokens, cleanup, the clock | `MCAuthSession`, `MCRuntime`, `AuthSession_proofs` |
| `LoginThrottle` | the failures and lockout of one identifier | `MCRuntime`, `Runtime_proofs` |
| `WebApiSession` | one browser's session and results, the server's sessions | `MCRuntime`, `Runtime_proofs` |
| `ForecastPlan` | reports, plans, outputs, the answer cache, the scheduled refresh | `MCServices`, `MCRuntime`, run `SecondCashPlan`, `ForecastAudit_proofs` |
| `ProviderGovernance` | catalog, policies, defaults, resolution, the administrators' workspace | `MCServices`, `ProviderGovernance_proofs` |
| `CloseWorkspace` | several browsers over the cycles of the server | `MCServices`, run `StaleRowChange`, `Services_proofs` |
| `ProviderSync` | syncs of rates, prices and tax rules, backfills | `MCServices`, `Services_proofs` |
| `AuditWorker` | the logger, its thread, the paged list | `MCServices`, `MCRuntime`, `ForecastAudit_proofs` |
| `SnapshotBatch` | plans, batches, three caches | `MCServices`, `Services_proofs` |
| `ServiceHealth` | startup, extension registry, probes | `MCRuntime`, `Runtime_proofs` |
| `MCServices`, `MCRuntime` | instances of the components that share no state; `focus` names the one a behaviour runs | runs `Services`, `Runtime`; `Services_proofs`, `Runtime_proofs` |

Definitions called "a slip" or "a mutant" in a comment are not part of a specification. Each
is one action or operator with a plausible mistake; put in place of the original
it must make the property it is listed with fail (`mutants` in `PROJECT.json`).

### PeriodGate

`TakeGate` is the gate's UPDATE together with the reads under it; `writer` is
the session that holds the writer position. Gated calls (`EnsurePostingAllowed`
/ `RecordPosting`, `CreatePeriodGate` / `CreatePeriod`, `CloseGate` / `Close`,
`ReopenGate` / `Reopen`) keep it until they release it. Ungated transitions
`ReadTransition` without it and `Swap` on the version they read; `InsertCycle`
relies on the unique `period_id`. `Abort` may end any call. Whether a readiness
check finds a blocker is left open: a refused call aborts. Dates are days
`1..LastDay`, both ends inclusive, as in the queries. `before` is the one history
variable: a period may be created over dates that already hold journals.

### CloseCycle

A call reads the cycle and period (`Begin`), reads what it decides on (`Look*`),
and commits by comparing and advancing `content_revision` (the last step).
`mark_ready` evaluates `Ready` in its look, unlocked; `Close` evaluates it again
under the gate. A balance, report or bundle is represented by the state of the
ledger it was computed from (`LedgerState`): the period's revision plus the
journals posted on earlier dates, which a balance sums too but which do not
advance this period's revision. `cached` is the ledger state of the latest
persisted budget report, for `refresh=false`.

Simplifications: one variance row per run (a run with several is resolved when
all are); approvals are of posted journals (a staged reference takes the same
path under another key); custom tasks are required ones; users stay active;
`require_cycle_mutation` and `_transition` compare `version` and
`content_revision`, which move together.

`CloseControl` is the abstract promise: closing happens only from the frozen
phase and only while `proven`, and neither `ledger` nor `proven` moves unless
the phase is "working". `KeepsPromise` maps `READY_FOR_APPROVAL` to "ready",
`CLOSED` to "closed" and all else to "working".

### StagedPosting

`db` is what is committed, `draft` the writer's own copy. A call holds `view`,
the copies it read; `expired` names those a rollback made it read again. The
branches of `process_transactions` are actions of their own: `SkipPosted`,
`RefusedByPeriod`, `Reject`, `Validate`, `PostAgain`, `Post`, `PostingFails`
followed by `RecordFailure`. With `auto_process` one commit ends ingest and
process. A flush writes a status only if it differs from the one read
(`WithStatus`), as the unit of work does. What is left of a batch is the set `todo`;
its items are taken in the order of their numbers (`First`), as the query orders them.

Simplifications: all rows are dated in one period, whose status moves as
`PeriodGate` and `CloseCycle` allow; a payload is an account, whether it balances
and whether it names its currency; a batch-level source reference, which only
gives each transaction one, is left out.

### AuthSession

Reads and conditional UPDATEs are separate steps, and the clock may tick between
them. `Live` is the service's active-row condition, `Swaps` the WHERE clause of
the rotation. `consumed`, `issued`, `reused` and `audits` are history. Cleanup
selects (`BeginCleanup`) and then deletes by identifier (`DeleteExpired`); login
and refresh go on without it (`SkipCleanup`). Identifiers and tokens are fresh:
the code draws 256 random bits for them. Whether a user is active is constant.

### EvidenceBundle

What a section shows is the number of changes it has seen, so two bundles have
the same manifest when they show the same. `EvAsk` reads the cycle, `EvReadPeriod`
the period, `EvRead` one section after the other against the shared row limit,
`EvRecord` compares and records, `EvFindRecord` and `EvServe` are a download: it
finds the current record, rebuilds, compares, and records that it was served.
`EvWork`, `EvPost`, `EvLeave` and `EvClose` are the work revisions count;
`EvStage` and `EvCarry` the work they do not (staged rows, journals of earlier
dates). `disturbed` is history.

### LoginThrottle, WebApiSession

`LtCheck` and `LtFail`/`LtSucceed` are the two critical sections of `login`; a
request keeps the time at which it began, so failures are registered out of
order. In `WebApiSession` every answer may be lost after the server did the work;
`WebRefuse` leads to the one `WebRotate`, and that to "again", never to a second
rotation. Only one identifier and one browser are modelled: nothing of the code
relates two.

### ForecastPlan

A service call goes through find, insert, horizon, load or build, persist, each a
statement or a commit. The job runs the same steps with the horizons its session
read (`fcRun.copy`) until a rollback makes it read again (`reread`). A plan keeps
its newest output. Ages are counted up to the interval they are compared with.

### ProviderGovernance

Reconciliation reads all registrations and writes the columns it changed later
(`WriteColumns`). A request reads registrations, then policies, then its own row,
and writes with a comparison of that row's revision. The workspace pins the
revision it showed. An identity stands for the fingerprints of configuration and
manifest; a plugin's import and conformance are `Passing`.

### CloseWorkspace

A click starts a script: load the list, send, refresh, draw; those of other
browsers come between. A list stands for one of its rows.

### ProviderSync, SnapshotBatch

A rate or price is its key and the sync that fetched it. `PsStore` is one commit,
`PsAudit` the next. Stored tax rules are looked for by the provider's name
(`OwnKeys` are the rules so labelled). In `SnapshotBatch` a port's answer is the
set of symbols it has data for; `PreviewOf`, `CliBatch` and `InspectedGoods` are
three readers of one plan document; `SbHit`, `SbMiss`, `SbAsk` and `SbStore` are
the steps of a cached lookup.

### AuditWorker, ServiceHealth

An audit entry is its time stamp; its id is its place in the table. The worker's
loop is check, get, write, finish. A load of the extensions is a thread through
clear, forget, disable, load, contract, enable, read, interleaved with others and
with probes, which run on the event loop one at a time.

## 3. What is checked

| Run | Instance | Question and result |
|---|---|---|
| `PeriodGate` | 2 sessions, 2 periods, 2 days, 2 journals, version to 6 | holds: open periods are disjoint, period and cycle agree, the revision counts postings, ready and closed periods are frozen |
| `CloseControls` | 1 account, 2 users, cached reports, content to 7 | holds: current stamps of reconciliations and fresh variance runs miss no journal; duties are separate |
| `CloseApprovals` | 2 journals, 2 custom tasks, caps of 1, one earlier journal, content to 7 | holds: close is over complete controls, evidence is current only for the present state, frozen controls stay, caps hold |
| `CloseLifecycle` | every transition, the attestation, evidence, one staged journal, content to 8 | holds: final evidence is current exactly while closed; `CloseControl` is implemented |
| `StagedWorkflow` | 2 sessions, 1 reference, 2 rows, 2 journals; each behaviour is about retries of batches of 2 or about one repeated reference | holds: one journal per row that no two calls held at once; POSTED has its journal; frozen periods get none; auto_process is atomic; a refused repeat differs or left its currency out |
| `AuthRotation` | 2 clients, 2 sessions, 3 tokens, lifetime 1, time to 2 | holds: all safety of sessions |
| `Services` | see below | holds: seven components, in 16 situations |
| `Runtime` | see below, with fairness | holds: jobs, threads, the web client, startup, login |
| `VarianceFromCache` | one variance caller | violated, see below |
| `DoublePosting` | 1 row, 2 sessions | violated, see below |
| `StaleRowChange` | 2 browsers, 1 cycle, versions to 3 | violated, see below |
| `SecondCashPlan` | 2 requests, 2 plans | violated, see below |

`Services` and `Runtime` each compose components that share no state. Composing
them freely would multiply their states and show nothing, so a behaviour moves one
of them, in the situation its constant `focus` names, and the others stay at their
start. Each situation restricts who moves, never what a step does:

| focus | situation | states what |
|---|---|---|
| `trust` | operator, API and a command line reconcile while one administrator works | `IdentityNeedsAcceptance`, `ResolvedWasPermitted` |
| `policies`, `defaults` | two administrators on one policy, one default | `PolicyReplacedAsShown`, `DefaultReplacedAsShown` |
| `choice` | one changes, the other resolves | `ResolvedWasPermitted` |
| `reports` | two requests, 2 horizons, one posting, one lost commit | `BudgetPlanOnce`, `RefreshedIsCurrent` |
| `race`, `select` | two browsers on one cycle in progress; one browser on two, one of any status | `MovesAsOffered`, `RecordIsOfSelected` |
| `fx`, `market`, `tax` | two syncs at once, 2 days, 3 fetches (prices: 2 and those under way); a backfill while the provider is switched | `SyncsAreSound` |
| `audit` | two threads, 3 entries, pages of 1 | `AuditIsComplete`; in `Runtime`: `FlushReturns` |
| `plans`, `batch`, `caches` | every plan of two scenarios; a batch over expiring caches; two threads on them | `SnapshotsAreSound` |
| `evidence`, `unseen` | a bundle against work revisions count, or do not, while another records | `EvidenceIsSound` |
| `cleanup` | one client and the job, limit 1 | `ExpiredAreRemoved` |
| `refresh` | the job, a request, a broken budget, a failure | `DueIsRefreshed`, `StampedHasOutput` |
| `web` | 2 sign-ins, 3 token pairs, 3 files | `ResultsAreOfSession`, `NeverReplaysToken`, `AppliedAtMostOnce`, `SignedOutMeansRevoked`, `PreviewIsOfUpload` |
| `reload`, `probe` | two requests reload 2 extensions; one against probes | `HealthIsTrue` |
| `login` | 3 logins, 2 attempts, time to 4 | `LockoutIsEarned`, `OnlyEarlierFail` |

The properties named in the configurations (`AnswersAreCurrent`, `RetriedOnce`,
`NothingOutlived`, `WorkGetsDone`, ...) are conjunctions of these, each stated with
its component.

Bounds and why they are enough. Every race here is between two calls: one that
has read and one that commits in between; two sessions give every pair of calls
in every order, and a session may start any number of calls. Two periods on two
days give disjoint, equal, nested and touching ranges. The content revision is the
length of a history of committed changes: `AttestedInit`, a started cycle with its
attestation given, is at 3, and 7 leaves room for two changes, `mark_ready` and
`close` (request and approve a journal, or prepare and approve a balance); from
creation, 8 leaves room for start, attest, ready, close and reopen with three
changes more. Three tokens are a login and two racing rotations. All bounds are
CONSTANTS, declared as bounds and used in a guard of the action they limit.
Three logins at a limit of two leave one that passed the check before the lockout
and fails after it; three rows are one too few for a bundle of a busy cycle, so
the refusal happens; two plans are enough for a second one. `CHECK_DEADLOCK FALSE` where a bound that is used up
stops the model (and the program too may sit idle). Sessions, users, journals
of a cycle, custom tasks, references, identifiers and tokens are symmetric: no
specification distinguishes or orders them. `Services` and `Runtime` use none.

Fairness. Only `Runtime` assumes any, of jobs and threads of the program itself:
the scheduler keeps starting the hourly cleanup while there is something to remove
(weak fairness of `BeginJob`), and a cleanup that is started over and over does
not fail each time (strong fairness of its `DeleteExpired`; one that fails is
`Abort`); the refresh job runs on (`FcJobWork`), its failures and restarts being
bounded by `MaxFailures`; the audit thread runs on (`AwWork`). No client, clock or
administrator is assumed to do anything. All other properties are safety.

### Where the code and its documents part

* **A row posted twice** (`DoublePosting`). `process_transactions` reads a row and
  decides on its status before the write gate, and does not read it again under
  it (`workflow_service.py:173`). Two overlapping calls give it two journals.
  The tests state one journal for repeated calls. `PostedOnce` is what remains
  true: rows no two calls held at once.
* **A variance run stamped with a ledger it never saw** (`VarianceFromCache`).
  With `refresh=false` the report may predate postings, and the run is stamped
  with the period's present revision (`reconciliation_service.py:403`, 429);
  `docs/SECURITY.md:87` says runs record the revision they reviewed.
  `VarianceMatchesLedger` is what remains true: fresh reports.
* **A row changed that the user never saw** (`StaleRowChange`). A form of the close
  workspace loads its list again before it sends, and sends the version it then
  finds (`close_workspace.py`), so the comparison cannot fail for a row another
  session changed after it was drawn; `docs/SECURITY.md` says version comparisons
  keep two sessions from both succeeding. `MovesAsOffered` is what remains true:
  lifecycle buttons, which send what was drawn.
* **Two cash-flow plans** (`SecondCashPlan`). `_provision_plan` guards against
  concurrent creation by a unique constraint over a NULL `budget_id`
  (`budget_service.py:147`). `BudgetPlanOnce` is what remains true: budgets.
* Seen on the way, and stated by the properties as exceptions: two overlapping
  ingests stage a reference twice (`raced` in `ReferenceOnce`;
  `workflow_service.py:388`, no unique constraint); an identical repeat that left
  the currency out is refused after processing has filled it in
  (`ConflictExplained`; line 429); journals on earlier dates change a balance and
  no revision of this period (`Covers`; the documents promise staleness for
  posting in the period); a default that is cleared and set again begins at
  revision one, so a form opened before replaces a row its user never saw (hence
  the condition on the row's id in `DefaultReplacedAsShown`; `provider_governance_service.py:842`); audit pages skip entries stamped in another order than written
  (`PagesSkipOnlyReordered`); two overlapping syncs may create an instrument or a
  tax rule twice (`psRaced`); the preview and the command line read an explicit
  null of a plan differently (`PlansAgree`); staging a row or posting an earlier
  journal makes recorded evidence undownloadable (`RefusedForAChange`).

## 4. What is proved

Each `_proofs` module EXTENDS its specification and proves, for any values of the
constants satisfying the named ASSUMEs, an inductive invariant (`IInv`; where a
module treats several components `FcInv`, `AwInv`, ...), one lemma per action or
group of actions of one shape, and from it the theorems. The ASSUMEs say that bounds
are numbers, the "no such thing" values are outside the sets and administrators are
users; `SyncAssumption` that days are numbered up to today and a provider's own rules
are rules; `HealthAssumption` that extensions are finitely many (the loader counts the
failed ones) and the starting thread is not one of the reloading ones;
`SnapshotAssumption` that plans are lists of scenarios whose fields are lists of
symbols, or a currency; `ServicesAssumption` and `ReloadingThread` that the users,
browsers, cycles and callers the instances name exist. Nothing bounds how many there
are: only `RuntimeRetriesOnce`, which counts the logins past the check, supposes
finitely many.

`PeriodGate_proofs`. The properties are not inductive: that `Close` finds its
cycle ready depends on nobody having moved it since `CloseGate`. `IInv` adds
`GateDiscipline` (only the holder has a gated call under way),
`HolderDecided` (what the holder decided on is still so), `ReadsFresh` (a version
that is still what a call read means a cycle status that call accepts) and
`PeriodsWellFormed`. Theorems: `TypesHold`, `OpenPeriodsStayDisjoint`,
`PeriodAndCycleStayTogether`, `LedgerFrozen`, `RevisionIsACount`.

`CloseCycle_proofs`. `IInv` adds `CallsWellFormed` (a call looks only at items and
values of its kind), `ReadsFresh` (an unchanged content revision means an
unchanged status: the reason one compare-and-swap is enough) and
`EvidenceFromPast` (evidence names revisions that exist, so it cannot become
current later). Theorems: `TypesHold`, `ClosedPeriodsAreProven`,
`FinalEvidenceIsCurrent`, `FrozenControlsStay`, `EvidenceGoesStale`, and
`Refinement`: `CloseCycle` implements `CloseControl`. Three more need an invariant
of their own, carried along with `IInv`:

* `DutiesSeparated` by `DecisionsFresh`: what a decision saw of its row stays true
  until the content moves;
* `StampsAreHonest` (`ControlsMatchLedger`) and `EvidenceIsOfTheLedger` by
  `StampsInv`: whatever a call read, and whatever it stamped with the revision it
  had read before, misses no journal as long as that revision is the period's. It
  is the order of the two reads that makes this inductive: a call that reads
  numbers reads `LedgerState` at a revision not older than its own;
* `CapsStay` (`CapsHold`) by `CapsInv`: a count below the cap stays below while the
  content revision is the one the call read.

`AuthSession_proofs`. `IInv` adds `NothingBeforeLogin`, `RevocationsRecorded`,
`ReusedAreDead` and `CountsExact` (the counter as the cardinality of the exchanged
tokens). Theorems: `TypesHold`, `TokensAreConsumedOnce`, `CountersAddUp`,
`ReuseKillsTheSession`, `RevocationIsRecordedOnce`, `SessionsStaySound` (their
conjunction, which the run checks), `RevocationIsFinal`, and `CleanupIsNotEarly` by
`DoomedExpired`: what a call selected to delete was expired then, and neither the
clock nor an expiry goes back.

`ProviderGovernance_proofs`. A request decides on rows it reads in separate
statements, so nothing about the present follows from what it holds. `IInv` says
what does follow: its candidates were trusted, and later enabled, at a moment since
it began (`CandidatesSeen`), and every choice is among them. `RevisionInv` says
what a revision stands for: what a page or a request holds is the row as it is, or
an older revision of it, or a row that is gone, so an equal revision means an equal
row (`PinsSeen`, `MutationsSeen`). Theorems: `GovTypeCorrect`,
`ResolvedIsPermitted`, `DriftNeedsAcceptance`, `PolicyNeverOverwrittenUnseen`,
`DefaultNeverOverwrittenUnseen`, and `GovernanceStaysReviewed`, the conjunction of
the last three, which the run checks.

`StagedPosting_proofs`. The actions of a call write in three ways: they change the
draft, commit it, or drop it. The module first gives each its shape (`StepOf`: the call
`s` goes on as `o` and from then on sees `new`), so that every invariant is kept by
one lemma about such a step (`KeepData`, `KeepSingle`, ...) and a case for each shape.
The invariants build on each other:

* `Control`: what a call holds at each of its stages, and that only an ingest or a
  deferring call ever has a draft;
* `DraftedWhileOpen`: a draft with a new journal exists only while the period is
  open, because moving the period needs the writer position. It gives
  `FrozenLedgerHolds`;
* `Data`: a draft only extends the database (`Grows`), a copy a call holds is of a
  row that exists (`CopiesFit`), and rows and journals are well formed (`GoodDb`);
* `Single`: a row outside `contended` is held by one call (`Apart`), whose copy
  shows the row's journal (`FreshCopies`), so that it is not posted again. With
  `Data` it gives `RowsKeepOneJournal`;
* `DraftsFit`: a row that only a draft has was staged by that call and, once it is
  past the item, is posted or failed. It gives `AutoProcessHolds`;
* `References`: a reference that a call looked up and did not find is in nobody's
  rows, drafts or lookups, or in `raced`. With the payloads in `Data` it gives
  `RepeatsHold`.

`ForecastAudit_proofs`. A call of the forecast service works with what it saw of a
plan some statements ago while others change it. `FcInv` holds what cannot change
behind it: the plan is there, of its subject, and keeps an output once it has one
(`PlansGrow`), and what the call computes is of a ledger and a horizon seen since it
began (`Answering`). Theorems: `ForecastTyped`, `BudgetHasOnePlan`,
`RefreshAnswersCurrently`, `StampFollowsOutput`. In the audit log every entry is in one
place: a thread's hands, the queue, the worker, or tried (`EntriesApart`,
`QueueIsRest`, `DoneIsTried`); whoever waits in join() knows what was queued before
(`WaitersKnow`), and what the reader of the pages has not seen lies below its cursor or
was recorded out of order (`PagesReach`). `AwInv` puts these together. Theorems:
`AuditTyped`, `FlushWaitsForAll`, `WorkerKeepsOrder`, `PagesSkipNoOther`.

`Runtime_proofs`, component by component:

* `WebApiSession` (`WebInv`): a browser that is signed in holds the refresh token in
  force, as any answer that moves the token and is lost costs it its credentials
  (`TokenHeld`), and a request under way is of a session and was not carried out yet
  (`CallStands`). Theorems: `WebTypesHold`, `NothingShownOutlives`, `RetriesAreSafe`,
  `SignOutIsHonest`.
* `LoginThrottle` (`LtInv`): a request's time is not after the clock's (`BeganBefore`)
  and the list never holds more than the failures since the last success (`Earned`).
  `LockoutHolds` bounds the failures during a lockout by the requests that were past
  the check when it began: each fails once, and `WaitForTheEnd` counts those that have
  and those that still may. Theorems: `ThrottleTypes`, `LockoutsAreEarned`,
  `LockoutHolds`.
* `ServiceHealth` (`HsInv`): what a load has cleared and not yet registered is still to
  come in some thread, so when all loads are done the registry is whole, and while it is
  not, some thread excuses the probe (`RegistryFits`, `ProbeFits`); a load that overlaps
  no other finds each contract as often as it has registered it (`AloneFits`). Theorems:
  `HealthTyped`, `HealthHolds`.
* `MCRuntime`: a behaviour runs one component, so it is a behaviour of each. Theorems:
  `RuntimeTyped`, `RuntimeIsHealthy`, `RuntimeKeepsNothingOver`, `RuntimeRetriesOnce`,
  `RuntimeSignsOut`.

`Services_proofs`, in the same way:

* `CloseWorkspace` (`CwInv`): that a cycle moves only as offered depends on the records
  browsers keep while others move it on. A version that is still the cycle's stands for
  the cycle's status (`RecordsSeen`, `ClicksSeen`), so the service's comparison is
  enough; a renewal in the middle of a script drops the selection, and what the script
  loads afterwards is never taken for another cycle's (`ScriptsOnSelected`,
  `RecordsOnSelected`). Theorems: `CwTypesHold`, `RecordStaysOfSelected`,
  `ClicksMoveWhatTheyShowed`.
* `EvidenceBundle` (`EvInv`): what a request has read so far is what the sections show
  of the revision and the ledger it saw, as long as these are still the cycle's
  (`EvCallFits`), and everything it saw is as it was while nothing has disturbed it
  (`UndisturbedFits`). That is why comparing two numbers at the end is enough for a
  bundle that is read in pieces. Theorems: `EvidenceTyped`, `EvidenceHolds`.
* `ProviderSync` (`PsInv`): nothing is stored under the number of a sync before its own
  commit (`InLatest`); what a tax sync has read is the table as it is unless another has
  written since (`ReadsFit`); the table follows the feed of the last current sync, but
  for what two syncs raced for (`FeedFollowed`). Theorems: `SyncsTyped`, `SyncsHold`.
* `SnapshotBatch` (`SbInv`): what a cache holds fits its key, and was asked for since
  the cache was cleared or stored late (`CacheFits`); what a run has is of its scenario
  (`SbRunFits`); misses are calls but for who is about to ask (`CountsFit`). That the
  preview of a plan is what runs (`PlansAgree`) is shown of the document alone
  (`FieldsAgree`): where nothing is null, the two ways of filling in defaults give one
  mapping. Theorems: `SnapshotsTyped`, `SnapshotsHold`.
* `MCServices`: theorems `ServicesTyped`, `ServicesAnswerCurrently`,
  `ServicesAuditComplete`, `ServicesGoverned`, `ServicesClicksAsOffered`,
  `ServicesKeepEvidence`, `ServicesSyncSoundly`, `ServicesSnapshotSoundly`.

Every invariant and every action property that a passing run checks is thereby stated
by a theorem. Only model-checked: `WorkGetsDone`, liveness under fairness, which is
out of the prover's reach as are ENABLED and induction over data (what a recursive
definition computes for every input); and what the runs that expect a violation find,
which is a behaviour and not a theorem.

## 5. What could be proved next

That each component's specification implements an abstract one, as `CloseCycle` does
`CloseControl`: a promise of the audit log (a queue that forgets nothing it accepted)
or of the session service (a token is exchanged once) would be stated without the
steps.

## 6. Not modelled

* Arithmetic: forecasts, conversions, tax amounts, tolerances. Decimal computation
  over one request's data, with no state; a reconciliation's tolerance is the
  choice of `DerivedStatuses`, a report is the ledger it was computed from.
* Editing rows that nothing else decides on (accounts, budgets and their lines,
  organizations, forecast scenarios): one INSERT or UPDATE in one transaction.
* Metrics, tracing and log formatting: state no decision rests on.
* Layout and wording of the Streamlit pages.
* The provider SDK's contracts and conformance check: pure functions; their verdict
  is a constant of `ProviderGovernance`.
* Command line tools other than the plan commands, release, quality and demo
  scripts, generated documents: one process over files.
* The evidence archive's bytes: a bundle is what its sections show.
* The synchronous audit record commits with the mutation it records and is part of
  that mutation's action; asynchronous entries are modelled as they are queued and
  not joined with the mutations they describe: no document relates the two.
* APScheduler, SQLite, FastAPI and Streamlit are taken as documented; how the code
  relies on them is said in section 1 and in the module headers.
