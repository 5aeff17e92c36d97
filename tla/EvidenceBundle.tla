--------------------------- MODULE EvidenceBundle ---------------------------
(***************************************************************************)
(* Close evidence: how a bundle is put together, recorded and downloaded.  *)
(* Sources: services/close_evidence_service.py, readiness of services/     *)
(* close_service.py and the evidence endpoints of routers/close.py.        *)
(*                                                                         *)
(* A bundle is read section by section while others work.  What a section  *)
(* shows is the number of changes it has seen; two bundles have the same   *)
(* manifest when they show the same.  CloseCycle has the lifecycle and the *)
(* controls; here each of their changes is one step.                       *)
(***************************************************************************)
EXTENDS Naturals, Sequences, FiniteSets, SequencesExt

CONSTANTS
    EvCallers,    \* requests at work
    MaxRows,      \* MAX_EVIDENCE_ROWS
    MaxRevisions, \* bound: changes of the cycle
    MaxUnseen,    \* bound: changes no revision counts, of each kind
    MaxRecords    \* bound: bundles recorded

ASSUME RowsAllowed == MaxRows \in Nat

VARIABLES
    evStatus,     \* of the cycle
    evKinds,      \* the changes that made its content_revision
    evPosted,     \* journals of the period: ledger_activity_revision
    evStaged,     \* rows of the period that are staged and unresolved
    evCarried,    \* journals dated before the period
    evRecords,    \* CloseEvidence, with the bundle the manifest stands for
    evCalls       \* what each request does

evVars == <<evStatus, evKinds, evPosted, evStaged, evCarried, evRecords, evCalls>>

EvSections == {"readiness", "tasks", "balance", "controls", "checklist", "audit"}
EvBegun == {"IN_PROGRESS", "READY_FOR_APPROVAL"}
EvIdle == [step |-> "idle", download |-> FALSE, status |-> "none", revision |-> 0, ledger |-> 0,
           record |-> 0, seen |-> <<>>,
           disturbed |-> FALSE]

EvInit ==
    /\ evStatus \in EvBegun
    /\ evKinds = <<>> /\ evPosted = 0 /\ evStaged = 0 /\ evCarried = 0
    /\ evRecords = <<>>
    /\ evCalls = [r \in EvCallers |-> EvIdle]

-----------------------------------------------------------------------------
(* Work on the period and on the cycle.                                    *)
NumberOf(kind) == Cardinality({n \in DOMAIN evKinds : evKinds[n] = kind})

\* Witness: the requests at work know that something has changed.
Disturbed(calls) == [r \in EvCallers |-> [calls[r] EXCEPT !.disturbed = calls[r].step # "idle"]]
EvChanged == evCalls' = Disturbed(evCalls)

\* A reconciliation, a variance or an approval changes, or a task is added.
EvWork(kind) ==
    /\ evStatus = "IN_PROGRESS" /\ Len(evKinds) < MaxRevisions
    /\ evKinds' = Append(evKinds, kind)
    /\ EvChanged
    /\ UNCHANGED <<evStatus, evPosted, evStaged, evCarried, evRecords>>

EvPost ==
    /\ evStatus = "IN_PROGRESS" /\ evPosted < MaxUnseen
    /\ evPosted' = evPosted + 1
    /\ EvChanged
    /\ UNCHANGED <<evStatus, evKinds, evStaged, evCarried, evRecords>>

\* Rows are staged whatever the period's status, and no revision counts them;
\* nor does one count a journal dated before the period.
EvStage ==
    /\ \/ evStaged < MaxUnseen /\ evStaged' = evStaged + 1
       \/ evStaged > 0 /\ evStaged' = evStaged - 1
    /\ EvChanged
    /\ UNCHANGED <<evStatus, evKinds, evPosted, evCarried, evRecords>>

EvCarry ==
    /\ evCarried < MaxUnseen
    /\ evCarried' = evCarried + 1
    /\ EvChanged
    /\ UNCHANGED <<evStatus, evKinds, evPosted, evStaged, evRecords>>

EvMove(from, to) ==
    /\ evStatus = from /\ Len(evKinds) < MaxRevisions
    /\ evStatus' = to
    /\ evKinds' = Append(evKinds, "move")
    /\ EvChanged
    /\ UNCHANGED <<evPosted, evStaged, evCarried>>

EvLeave ==
    \/ evStaged = 0 /\ EvMove("IN_PROGRESS", "READY_FOR_APPROVAL") /\ UNCHANGED evRecords
    \/ EvMove("READY_FOR_APPROVAL", "IN_PROGRESS") /\ UNCHANGED evRecords
    \/ EvMove("CLOSED", "IN_PROGRESS") /\ UNCHANGED evRecords

-----------------------------------------------------------------------------
(* Bundles.                                                                *)
Freshness(revision, ledger) ==
    CASE evRecords = <<>> -> "MISSING"
      [] evRecords # <<>> /\ Last(evRecords).revision = revision
                          /\ Last(evRecords).ledger = ledger -> "CURRENT"
      [] OTHER -> "STALE"

\* A slip: the evidence control is shown as it is while the bundle is built.
EvidenceControlAsIs(freshness) == freshness

\* The bundle is being generated: the control that asks for it counts as done.
EvidenceControl(freshness) == "CURRENT"

\* What a section shows when it is read by a request that saw this head.
Shown(section, revision, ledger) ==
    CASE section = "readiness" -> <<evStaged, NumberOf("control")>>
      [] section = "tasks" -> <<NumberOf("task"), EvidenceControl(Freshness(revision, ledger))>>
      [] section = "balance" -> <<evPosted, evCarried>>
      [] section = "controls" -> NumberOf("control")
      [] section = "checklist" -> NumberOf("task")
      [] OTHER -> Len(evKinds)

\* The rows of the sections read, which share one limit.
RowsIn(seen) ==
    LET counted(section) == IF section \in DOMAIN seen THEN seen[section] ELSE 0
    IN  counted("controls") + counted("checklist") + counted("audit")

BundleOf(call) == [status |-> call.status, revision |-> call.revision, ledger |-> call.ledger,
                   seen |-> call.seen]

RecordOf(bundle) ==
    [revision |-> bundle.revision, ledger |-> bundle.ledger, final |-> bundle.status = "CLOSED",
     bundle |-> bundle]

\* What a bundle that is built at once shows.
BundleAtOnce(status, revision) ==
    [status |-> status, revision |-> revision, ledger |-> evPosted,
     seen |-> [s \in EvSections |-> Shown(s, revision, evPosted)]]

\* A slip: the cycle is closed and no final evidence recorded.
EvCloseBare ==
    /\ evStaged = 0 /\ Freshness(Len(evKinds), evPosted) = "CURRENT"
    /\ Len(evRecords) < MaxRecords
    /\ EvMove("READY_FOR_APPROVAL", "CLOSED")
    /\ UNCHANGED evRecords

\* close: nobody else writes between the transition and the commit of the final
\* evidence, which shows the transition.
EvClose ==
    /\ evStaged = 0 /\ Freshness(Len(evKinds), evPosted) = "CURRENT"
    /\ Len(evRecords) < MaxRecords
    /\ EvMove("READY_FOR_APPROVAL", "CLOSED")
    /\ LET bundle == BundleAtOnce("CLOSED", Len(evKinds) + 1)
           final == [bundle EXCEPT !.seen["audit"] = @ + 1]
       IN  /\ RowsIn(final.seen) <= MaxRows
           /\ evRecords' = Append(evRecords, RecordOf(final))

-----------------------------------------------------------------------------
(* Requests.                                                               *)
EvAt(r, step) == evCalls[r].step = step
EvStays == UNCHANGED <<evStatus, evKinds, evPosted, evStaged, evCarried>>
EvNow(r, call) == evCalls' = [evCalls EXCEPT ![r] = call]
EvEnd(r, end) == EvNow(r, [EvIdle EXCEPT !.step = end])

\* A request that ends as nobody wished remembers whether anything came between,
\* or keeps what it built and could not serve.
EvRefuse(r) == EvNow(r, [EvIdle EXCEPT !.step = "refused", !.disturbed = evCalls[r].disturbed])

\* The cycle and the period are read once; the bundle shows them as they were.
EvAsk(r, download) ==
    /\ EvAt(r, "idle")
    /\ EvNow(r, [EvIdle EXCEPT !.step = "period", !.download = download, !.status = evStatus,
                               !.revision = Len(evKinds)])
    /\ EvStays /\ UNCHANGED evRecords

EvReadPeriod(r) ==
    /\ EvAt(r, "period")
    /\ EvNow(r, [evCalls[r] EXCEPT !.ledger = evPosted,
                    !.step = IF evCalls[r].download THEN "record" ELSE "readiness"])
    /\ EvStays /\ UNCHANGED evRecords

IsCurrent(record, status, revision, ledger) ==
    /\ record.revision = revision
    /\ record.ledger = ledger
    /\ record.final = (status = "CLOSED")

EvFindRecord(r) ==
    LET c == evCalls[r]
    IN  /\ EvAt(r, "record")
        /\ IF evRecords # <<>> /\ IsCurrent(Last(evRecords), c.status, c.revision, c.ledger)
           THEN EvNow(r, [c EXCEPT !.record = Len(evRecords), !.step = "readiness"])
           ELSE EvEnd(r, "stale")
        /\ EvStays /\ UNCHANGED evRecords

EvFollowing(section) ==
    CASE section = "readiness" -> "tasks" [] section = "tasks" -> "balance"
      [] section = "balance" -> "controls" [] section = "controls" -> "checklist"
      [] section = "checklist" -> "audit" [] OTHER -> "built"

\* A task the checklist has and readiness had not is a KeyError.
EvRead(r) ==
    LET c == evCalls[r]
        section == c.step
        shown == Shown(section, c.revision, c.ledger)
        seen == [s \in DOMAIN c.seen \cup {section} |-> IF s = section THEN shown ELSE c.seen[s]]
        unknown == section = "checklist" /\ shown > c.seen["tasks"][1]
    IN  /\ section \in EvSections
        /\ CASE unknown -> EvRefuse(r)
             [] ~unknown /\ RowsIn(seen) > MaxRows -> EvEnd(r, "exceeded")
             [] OTHER -> EvNow(r, [c EXCEPT !.seen = seen, !.step = EvFollowing(section)])
        /\ EvStays /\ UNCHANGED evRecords

EvRecorded(r) == evCalls' = [Disturbed(evCalls) EXCEPT ![r] = EvIdle]

\* A slip: the content revision is not compared.
EvRecordAnyRevision(r) ==
    LET c == evCalls[r]
    IN  /\ EvAt(r, "built") /\ ~c.download
        /\ evStatus # "CLOSED" /\ c.status = evStatus /\ c.ledger = evPosted
        /\ Len(evRecords) < MaxRecords
        /\ evRecords' = Append(evRecords, RecordOf(BundleOf(c)))
        /\ EvRecorded(r)
        /\ EvStays

\* record_generation compares, and takes the two rows with updates that compare
\* again, in one transaction with the record.
EvRecord(r) ==
    LET c == evCalls[r]
    IN  /\ EvAt(r, "built") /\ ~c.download
        /\ \/ evStatus = "CLOSED" /\ EvEnd(r, "closed") /\ UNCHANGED evRecords
           \/ /\ evStatus # "CLOSED"
              /\ c.status = evStatus /\ c.revision = Len(evKinds) /\ c.ledger = evPosted
              /\ Len(evRecords) < MaxRecords
              /\ evRecords' = Append(evRecords, RecordOf(BundleOf(c)))
              /\ EvRecorded(r)
           \/ /\ evStatus # "CLOSED"
              /\ c.status # evStatus \/ c.revision # Len(evKinds) \/ c.ledger # evPosted
              /\ EvRefuse(r) /\ UNCHANGED evRecords
        /\ EvStays

\* A slip: the rebuilt bundle is served without a second look.
EvServeAtOnce(r) ==
    LET c == evCalls[r]
    IN  /\ EvAt(r, "built") /\ c.download
        /\ EvNow(r, [c EXCEPT !.step = "served"])
        /\ EvStays /\ UNCHANGED evRecords

\* A download that nothing disturbed and that is refused keeps its bundle.
EvServe(r) ==
    LET c == evCalls[r]
        last == Last(evRecords)
        current == /\ Len(evRecords) = c.record
                   /\ IsCurrent(last, evStatus, Len(evKinds), evPosted)
                   /\ IsCurrent(last, c.status, c.revision, c.ledger)
                   /\ BundleOf(c) = last.bundle
    IN  /\ EvAt(r, "built") /\ c.download
        /\ CASE current -> EvNow(r, [c EXCEPT !.step = "served"])
             [] ~current /\ c.disturbed -> EvRefuse(r)
             [] OTHER -> EvNow(r, [c EXCEPT !.step = "differs"])
        /\ EvStays /\ UNCHANGED evRecords

EvRest(r) ==
    /\ evCalls[r].step \in {"stale", "refused", "closed", "exceeded", "served", "differs"}
    /\ EvEnd(r, "idle")
    /\ EvStays /\ UNCHANGED evRecords

EvRequest(r) ==
    \/ \E download \in BOOLEAN : EvAsk(r, download)
    \/ EvReadPeriod(r) \/ EvFindRecord(r) \/ EvRead(r) \/ EvRecord(r) \/ EvServe(r) \/ EvRest(r)

EvOthers ==
    \/ \E kind \in {"control", "task"} : EvWork(kind)
    \/ EvPost \/ EvStage \/ EvCarry \/ EvLeave \/ EvClose

EvNext == EvOthers \/ \E r \in EvCallers : EvRequest(r)

EvSpec == EvInit /\ [][EvNext]_evVars

-----------------------------------------------------------------------------
\* The types of the variables.
EvTypeOK ==
    /\ evStatus \in EvBegun \cup {"CLOSED"}
    /\ evKinds \in Seq({"control", "task", "move"})
    /\ evPosted \in Nat /\ evStaged \in Nat /\ evCarried \in Nat
    /\ \A n \in DOMAIN evRecords : evRecords[n].final \in BOOLEAN
    /\ \A r \in EvCallers :
           /\ DOMAIN evCalls[r] = DOMAIN EvIdle
           /\ DOMAIN evCalls[r].seen \subseteq EvSections
           /\ evCalls[r].disturbed \in BOOLEAN

\* The changes of a kind among those that make up a revision.
Upto(revision, kind) == Cardinality({n \in 1..revision : evKinds[n] = kind})

\* What a recorded bundle shows of the controls, the tasks, the audit trail and the
\* journals of the period is of the one revision it names, although it was read in
\* pieces while others worked (record_generation compares and takes both rows).
RecordedIsOfOneRevision ==
    \A n \in DOMAIN evRecords :
        LET b == evRecords[n].bundle
        IN  /\ b.seen["controls"] = Upto(b.revision, "control")
            /\ b.seen["readiness"][2] = b.seen["controls"]
            /\ b.seen["checklist"] = Upto(b.revision, "task")
            /\ b.seen["audit"] = b.revision
            /\ b.seen["balance"][1] = b.ledger

\* A bundle that is served is the recorded one, and it was still the latest when the
\* last look was taken (require_current_recorded_bundle): what has come since is
\* not shown as evidence of it.
ServedIsRecorded ==
    \A r \in EvCallers : EvAt(r, "served") =>
        LET record == evRecords[evCalls[r].record]
        IN  BundleOf(evCalls[r]) = record.bundle

\* A request is refused after its bundle was begun only if something came between.
\* A download by itself is refused only if what no revision counts has changed
\* since the recording: rows staged, and journals dated before the period.
RefusedForAChange ==
    \A r \in EvCallers :
        /\ EvAt(r, "refused") => evCalls[r].disturbed
        /\ EvAt(r, "differs") =>
               LET was == evRecords[evCalls[r].record].bundle
               IN  \/ was.seen["readiness"][1] # evCalls[r].seen["readiness"][1]
                   \/ was.seen["balance"][2] # evCalls[r].seen["balance"][2]

\* While a cycle is closed its latest evidence is the final one of the close; a
\* request that began before the close does not put a draft in its place.
ClosedKeepsFinal ==
    evStatus = "CLOSED" =>
        /\ evRecords # <<>>
        /\ IsCurrent(Last(evRecords), "CLOSED", Len(evKinds), evPosted)

\* Evidence is what it says: recorded of one revision, served as recorded, kept while
\* the cycle is closed, and refused for a reason.
EvidenceIsSound ==
    RecordedIsOfOneRevision /\ ServedIsRecorded /\ RefusedForAChange /\ ClosedKeepsFinal
=============================================================================
