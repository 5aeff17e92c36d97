--------------------------- MODULE CloseWorkspace ---------------------------
(***************************************************************************)
(* The close workspace of the Streamlit application, in the browsers of    *)
(* several users, over the close API.                                      *)
(*                                                                         *)
(* A browser keeps the cycle it selected and the cycle record it loaded    *)
(* last, and draws one list each of reconciliations, variances, approvals  *)
(* and tasks.  A click starts a script: it loads the list, sends the       *)
(* mutation, loads the cycle again and draws everything; requests of other *)
(* browsers are served between any two of its own.  A list stands for one  *)
(* of its rows.  When the access token is renewed in the middle of a       *)
(* script, everything the browser keeps of the workspace is dropped.       *)
(***************************************************************************)
EXTENDS Integers

CONSTANTS
    Browsers,
    Cycles, NoCycle,   \* the close cycles of different periods
    Lists,             \* reconciliations, variances, approvals, checklist
    MaxVersion,        \* bound: of cycles
    MaxRowVersion,     \* bound: of rows
    MaxProbes          \* bound: journals posted by the verification form

ASSUME WorkspaceAssumption ==
    /\ NoCycle \notin Cycles
    /\ MaxVersion \in Nat /\ MaxRowVersion \in Nat /\ MaxProbes \in Nat

VARIABLES
    cwCycles,   \* the server's cycles: status and version
    cwRows,     \* the server's rows: the version of each
    cwProbes,   \* journals that verifications have posted
    cwKept,     \* session state: the selected cycle, the record loaded last
    cwScript,   \* the script each browser runs
    cwShown     \* history: the row versions each browser has drawn

cwVars == <<cwCycles, cwRows, cwProbes, cwKept, cwScript, cwShown>>

CwStatus == {"DRAFT", "IN_PROGRESS", "READY_FOR_APPROVAL", "CLOSED", "CANCELLED"}
Transitions == {"start", "ready", "return", "close", "reopen", "cancel", "restart"}

ASSUME ListsAssumption == Lists \cap (Transitions \cup {"none", "verify"}) = {}

NoRecord == [cycle |-> NoCycle, status |-> "NONE", version |-> 0]
NothingKept == [selected |-> NoCycle, record |-> NoRecord]
NothingShown == [l \in Lists |-> [cycle |-> NoCycle, version |-> 0]]
NoScript == [step |-> "idle", act |-> "none", cycle |-> NoCycle, version |-> 0,
             offered |-> "NONE"]

CwInit ==
    /\ cwCycles \in [Cycles -> [status: CwStatus, version: {1}]]
    /\ cwRows = [c \in Cycles |-> [l \in Lists |-> 1]]
    /\ cwProbes = 0
    /\ cwKept = [b \in Browsers |-> NothingKept]
    /\ cwScript = [b \in Browsers |-> NoScript]
    /\ cwShown = [b \in Browsers |-> NothingShown]

(* What the service lets a transition do, and what the workspace offers.   *)
From(t) == CASE t = "start" -> {"DRAFT"}
             [] t = "ready" -> {"IN_PROGRESS"}
             [] t \in {"return", "close"} -> {"READY_FOR_APPROVAL"}
             [] t = "reopen" -> {"CLOSED"}
             [] t = "cancel" -> {"DRAFT", "IN_PROGRESS"}
             [] t = "restart" -> {"CANCELLED"}

To(t) == CASE t = "ready" -> "READY_FOR_APPROVAL"
           [] t = "close" -> "CLOSED"
           [] t = "cancel" -> "CANCELLED"
           [] t \in {"start", "return", "reopen", "restart"} -> "IN_PROGRESS"

-----------------------------------------------------------------------------
(* The browser.                                                            *)

CwIdle(b) == cwScript[b].step = "idle"
Step(b, s) == cwScript' = [cwScript EXCEPT ![b].step = s]
Run(b, script) == cwScript' = [cwScript EXCEPT ![b] = script]

\* A slip: the record of the cycle left is kept.
CwSelectKeeping(b, c) ==
    /\ CwIdle(b) /\ cwKept[b].selected # c
    /\ cwKept' = [cwKept EXCEPT ![b].selected = c]
    /\ Run(b, [NoScript EXCEPT !.step = IF cwKept[b].record = NoRecord THEN "refresh" ELSE "draw",
                               !.cycle = c])
    /\ UNCHANGED <<cwCycles, cwRows, cwProbes, cwShown>>

(* Another period or cycle: what was kept of the last is cleared.  After a *)
(* renewal nothing is selected, and the page selects again.                *)
CwSelect(b, c) ==
    /\ CwIdle(b) /\ cwKept[b].selected # c
    /\ cwKept' = [cwKept EXCEPT ![b] = [selected |-> c, record |-> NoRecord]]
    /\ cwShown' = [cwShown EXCEPT ![b] = NothingShown]
    /\ Run(b, [NoScript EXCEPT !.step = "refresh", !.cycle = c])
    /\ UNCHANGED <<cwCycles, cwRows, cwProbes>>

OnPage(b) == CwIdle(b) /\ cwKept[b].selected # NoCycle /\ cwKept[b].record # NoRecord

CwRefreshReadiness(b) ==
    /\ OnPage(b)
    /\ Run(b, [NoScript EXCEPT !.step = "refresh", !.cycle = cwKept[b].selected])
    /\ UNCHANGED <<cwCycles, cwRows, cwProbes, cwKept, cwShown>>

\* A slip: the version is read when the button is pressed.
OfferReread(b, t) ==
    [step |-> "send", act |-> t, cycle |-> cwKept[b].selected,
     version |-> cwCycles[cwKept[b].selected].version, offered |-> cwKept[b].record.status]

(* A lifecycle button sends the version of the record kept, whose status   *)
(* decided that the button is there.                                       *)
Offer(b, t) ==
    [step |-> "send", act |-> t, cycle |-> cwKept[b].selected,
     version |-> cwKept[b].record.version, offered |-> cwKept[b].record.status]

CwOverviewClick(b, t) ==
    /\ OnPage(b)
    /\ t \in {"start", "ready", "return", "restart", "cancel"}
    /\ cwKept[b].record.status \in From(t)
    /\ Run(b, Offer(b, t))
    /\ UNCHANGED <<cwCycles, cwRows, cwProbes, cwKept, cwShown>>

CwCloseClick(b, t) ==
    /\ OnPage(b)
    /\ t \in {"close", "reopen"}
    /\ cwKept[b].record.status \in From(t)
    /\ Run(b, Offer(b, t))
    /\ UNCHANGED <<cwCycles, cwRows, cwProbes, cwKept, cwShown>>

(* A form of a list: the script it starts loads the list before it looks   *)
(* at what was submitted.                                                  *)
CwSubmit(b, l) ==
    /\ OnPage(b) /\ cwKept[b].record.status = "IN_PROGRESS"
    /\ cwShown[b][l].version > 0
    /\ Run(b, [NoScript EXCEPT !.step = "load", !.act = l, !.cycle = cwKept[b].selected])
    /\ UNCHANGED <<cwCycles, cwRows, cwProbes, cwKept, cwShown>>

LoadedVersion(b, l) == cwRows[cwScript[b].cycle][l]

CwLoadList(b) ==
    LET s == cwScript[b]
    IN  /\ s.step = "load"
        /\ Run(b, [s EXCEPT !.step = "send", !.version = LoadedVersion(b, s.act)])
        /\ UNCHANGED <<cwCycles, cwRows, cwProbes, cwKept, cwShown>>

(* The verification form of a closed cycle posts a journal and expects the *)
(* service to refuse it.                                                   *)
CwVerifyPosting(b) ==
    /\ OnPage(b) /\ cwKept[b].record.status = "CLOSED"
    /\ Run(b, [NoScript EXCEPT !.step = "send", !.act = "verify", !.cycle = cwKept[b].selected])
    /\ UNCHANGED <<cwCycles, cwRows, cwProbes, cwKept, cwShown>>

-----------------------------------------------------------------------------
(* The requests the script sends.                                          *)

(* After a success the script loads the cycle again; a refusal leaves the  *)
(* record as it is.  Marking ready, closing and reopening then need the    *)
(* selection, and fail if a renewal has dropped it.                        *)
Accepted(b) ==
    IF cwScript[b].act \in {"ready", "close", "reopen"} /\ cwKept[b].selected = NoCycle
    THEN Run(b, NoScript) ELSE Step(b, "refresh")

CwTransition(b) ==
    LET s == cwScript[b]
        cycle == cwCycles[s.cycle]
    IN  /\ s.step = "send" /\ s.act \in Transitions
        /\ IF cycle.version = s.version /\ cycle.status \in From(s.act)
           THEN /\ cycle.version < MaxVersion
                /\ cwCycles' = [cwCycles EXCEPT ![s.cycle] =
                       [status |-> To(s.act), version |-> cycle.version + 1]]
                /\ Accepted(b)
           ELSE Step(b, "draw") /\ UNCHANGED cwCycles
        /\ UNCHANGED <<cwRows, cwProbes, cwKept, cwShown>>

CwChangeRow(b) ==
    LET s == cwScript[b]
        version == cwRows[s.cycle][s.act]
    IN  /\ s.step = "send" /\ s.act \in Lists
        /\ IF version = s.version /\ cwCycles[s.cycle].status = "IN_PROGRESS"
           THEN /\ version < MaxRowVersion
                /\ cwRows' = [cwRows EXCEPT ![s.cycle][s.act] = version + 1]
                /\ Step(b, "refresh")
           ELSE Step(b, "draw") /\ UNCHANGED cwRows
        /\ UNCHANGED <<cwCycles, cwProbes, cwKept, cwShown>>

CwPostProbe(b) ==
    LET s == cwScript[b]
        open == cwCycles[s.cycle].status \notin {"CLOSED", "READY_FOR_APPROVAL"}
    IN  /\ s.step = "send" /\ s.act = "verify"
        /\ open => cwProbes < MaxProbes
        /\ cwProbes' = IF open THEN cwProbes + 1 ELSE cwProbes
        /\ Step(b, "draw")
        /\ UNCHANGED <<cwCycles, cwRows, cwKept, cwShown>>

CwRefreshCycle(b) ==
    LET c == cwScript[b].cycle
    IN  /\ cwScript[b].step = "refresh"
        /\ cwKept' = [cwKept EXCEPT ![b].record =
               [cycle |-> c, status |-> cwCycles[c].status, version |-> cwCycles[c].version]]
        /\ Step(b, "draw")
        /\ UNCHANGED <<cwCycles, cwRows, cwProbes, cwShown>>

CwDraw(b) ==
    LET c == cwScript[b].cycle
    IN  /\ cwScript[b].step = "draw"
        /\ cwShown' = [cwShown EXCEPT ![b] =
               [l \in Lists |-> [cycle |-> c, version |-> cwRows[c][l]]]]
        /\ Run(b, NoScript)
        /\ UNCHANGED <<cwCycles, cwRows, cwProbes, cwKept>>

(* A request that renews the access token, or finds the cycle gone, drops  *)
(* everything kept; the request itself, whose body is made, goes on.       *)
CwRenew(b) ==
    /\ ~CwIdle(b) /\ cwKept[b] # NothingKept
    /\ cwKept' = [cwKept EXCEPT ![b] = NothingKept]
    /\ UNCHANGED <<cwCycles, cwRows, cwProbes, cwScript, cwShown>>

(* An error or a session that ended: the script gives up.                  *)
CwFail(b) ==
    /\ ~CwIdle(b)
    /\ Run(b, NoScript)
    /\ UNCHANGED <<cwCycles, cwRows, cwProbes, cwKept, cwShown>>

CwClicks(b) ==
    \/ \E c \in Cycles : CwSelect(b, c)
    \/ \E t \in Transitions : CwOverviewClick(b, t) \/ CwCloseClick(b, t)
    \/ \E l \in Lists : CwSubmit(b, l)
    \/ CwRefreshReadiness(b) \/ CwVerifyPosting(b)

CwRequests(b) ==
    \/ CwLoadList(b) \/ CwTransition(b) \/ CwChangeRow(b) \/ CwPostProbe(b)
    \/ CwRefreshCycle(b) \/ CwDraw(b) \/ CwRenew(b) \/ CwFail(b)

CwNext == \E b \in Browsers : CwClicks(b) \/ CwRequests(b)

CwSpec == CwInit /\ [][CwNext]_cwVars

-----------------------------------------------------------------------------
(* The types of all variables.                                             *)
CwTypeOK ==
    /\ cwCycles \in [Cycles -> [status: CwStatus, version: Nat]]
    /\ cwRows \in [Cycles -> [Lists -> Nat]]
    /\ cwProbes \in Nat
    /\ cwKept \in [Browsers ->
           [selected: Cycles \cup {NoCycle},
            record: [cycle: Cycles \cup {NoCycle}, status: CwStatus \cup {"NONE"},
                     version: Nat]]]
    /\ cwScript \in [Browsers ->
           [step: {"idle", "load", "send", "refresh", "draw"},
            act: Transitions \cup Lists \cup {"none", "verify"},
            cycle: Cycles \cup {NoCycle}, version: Nat,
            offered: CwStatus \cup {"NONE"}]]
    /\ cwShown \in [Browsers -> [Lists -> [cycle: Cycles \cup {NoCycle}, version: Nat]]]

(* A cycle moves only on a click that was offered for the status it has:   *)
(* nobody cancels, closes or reopens what another browser has moved on,    *)
(* and no click on one cycle moves another.                                *)
MovesAsOffered ==
    [][\A c \in Cycles : cwCycles'[c] # cwCycles[c] =>
          \E b \in Browsers : /\ cwScript[b].step = "send"
                              /\ cwScript[b].cycle = c
                              /\ cwScript[b].offered = cwCycles[c].status]_cwVars

(* The record kept while a cycle is selected is that cycle's: a version    *)
(* and a status are never sent to, or drawn for, another cycle.            *)
RecordIsOfSelected ==
    \A b \in Browsers :
        CwIdle(b) /\ cwKept[b].selected # NoCycle /\ cwKept[b].record # NoRecord =>
            cwKept[b].record.cycle = cwKept[b].selected

(* SECURITY.md: "Atomic version and content-revision compare-and-swap      *)
(* updates prevent two sessions from both succeeding."  A row changes only *)
(* from the version the browser that changes it has drawn.                 *)
ActsOnWhatWasDrawn ==
    [][\A c \in Cycles, l \in Lists : cwRows'[c][l] # cwRows[c][l] =>
          \E b \in Browsers : /\ cwScript[b].step = "send" /\ cwScript[b].act = l
                              /\ cwShown[b][l] = [cycle |-> c, version |-> cwRows[c][l]]]_cwVars
=============================================================================
