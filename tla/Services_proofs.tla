---------------------------- MODULE Services_proofs ----------------------------
(***************************************************************************)
(* Proofs about the close workspace, close evidence, reference data and    *)
(* snapshots, and about the instance that runs the components that share   *)
(* no state (MCServices), for any values of their constants.               *)
(***************************************************************************)
EXTENDS MCServices, ProviderGovernance_proofs, ForecastAudit_proofs

-----------------------------------------------------------------------------
(* The close workspace.  A browser keeps a record that others overtake.    *)
(* The service compares versions, which never come back: what a browser    *)
(* knows under a version that is still the cycle's is still the cycle's    *)
(* status (Knows).                                                         *)

\* A version that is still the cycle's stands for the cycle's status.
Knows(cycles, c, version, status) ==
    /\ version <= cycles[c].version
    /\ version = cycles[c].version => status = cycles[c].status

\* The record kept was the cycle's at its version.
RecordsSeen ==
    \A b \in Browsers : LET r == cwKept[b].record
                        IN  r # NoRecord => r.cycle \in Cycles /\ Knows(cwCycles, r.cycle, r.version, r.status)

\* A click that is on its way was offered for the status of the version it sends.
ClicksSeen ==
    \A b \in Browsers : LET s == cwScript[b]
                        IN  s.step = "send" /\ s.act \in Transitions => Knows(cwCycles, s.cycle, s.version, s.offered)

\* A script is about the cycle selected, unless a renewal has dropped the selection,
\* and loads the list its form is of.
ScriptsOnSelected ==
    \A b \in Browsers :
        ~CwIdle(b) => /\ cwScript[b].cycle \in Cycles
                      /\ cwKept[b].selected \in {cwScript[b].cycle, NoCycle}
                      /\ cwScript[b].step = "load" => cwScript[b].act \in Lists

\* The record is of the cycle selected, also while a script runs.
RecordsOnSelected ==
    \A b \in Browsers : cwKept[b].selected # NoCycle /\ cwKept[b].record # NoRecord =>
                            cwKept[b].record.cycle = cwKept[b].selected

CwInv == CwTypeOK /\ RecordsSeen /\ ClicksSeen /\ ScriptsOnSelected /\ RecordsOnSelected

Kept == [selected: Cycles \cup {NoCycle},
         record: [cycle: Cycles \cup {NoCycle}, status: CwStatus \cup {"NONE"}, version: Nat]]
Script == [step: {"idle", "load", "send", "refresh", "draw"},
           act: Transitions \cup Lists \cup {"none", "verify"},
           cycle: Cycles \cup {NoCycle}, version: Nat, offered: CwStatus \cup {"NONE"}]

LEMMA CwStartTypes == NoRecord.cycle = NoCycle /\ NothingKept \in Kept /\ NoScript \in Script
  BY DEF NoRecord, NothingKept, Kept, NoScript, Script

LEMMA ToTypes == \A t \in Transitions : To(t) \in CwStatus
  BY DEF Transitions, To, CwStatus

LEMMA OneBrowser ==
    ASSUME CwTypeOK, NEW b \in Browsers
    PROVE  /\ cwKept[b] \in Kept /\ cwScript[b] \in Script
           /\ \A k : cwKept' = [cwKept EXCEPT ![b] = k] =>
                        cwKept'[b] = k /\ \A a \in Browsers \ {b} : cwKept'[a] = cwKept[a]
           /\ \A s : Run(b, s) => cwScript'[b] = s /\ \A a \in Browsers \ {b} : cwScript'[a] = cwScript[a]
           /\ \A st : Step(b, st) => /\ cwScript'[b] = [cwScript[b] EXCEPT !.step = st]
                                     /\ \A a \in Browsers \ {b} : cwScript'[a] = cwScript[a]
  BY DEF CwTypeOK, Kept, Script, Run, Step

LEMMA CwInitInv == CwInit => CwInv
<1> SUFFICES ASSUME CwInit PROVE CwInv
  OBVIOUS
<1>1. CwTypeOK
  BY CwStartTypes DEF CwInit, CwTypeOK, Kept, Script, NothingShown
<1>2. \A b \in Browsers : cwKept[b].record = NoRecord /\ CwIdle(b)
  BY DEF CwInit, NothingKept, CwIdle, NoScript
<1> QED BY <1>1, <1>2 DEF CwInv, RecordsSeen, ClicksSeen, ScriptsOnSelected, RecordsOnSelected, CwIdle

(***************************************************************************)
(* A step of browser b that leaves the cycles alone, or moves one on.      *)
(***************************************************************************)
Onward == \A c \in Cycles : cwCycles'[c] = cwCycles[c] \/ cwCycles'[c].version > cwCycles[c].version

LEMMA StillKnown ==
    ASSUME CwTypeOK, CwTypeOK', Onward, NEW c \in Cycles, NEW version \in Nat, NEW status,
           Knows(cwCycles, c, version, status)
    PROVE  Knows(cwCycles', c, version, status)
  BY DEF Knows, Onward, CwTypeOK

LEMMA CwKeepInv ==
    ASSUME CwInv, CwTypeOK', Onward, NEW b \in Browsers, NEW k, NEW s,
           cwKept'[b] = k, cwScript'[b] = s,
           \A a \in Browsers \ {b} : cwKept'[a] = cwKept[a] /\ cwScript'[a] = cwScript[a],
           k.record # NoRecord => k.record.cycle \in Cycles /\ Knows(cwCycles', k.record.cycle, k.record.version, k.record.status),
           s.step = "send" /\ s.act \in Transitions => Knows(cwCycles', s.cycle, s.version, s.offered),
           s.step # "idle" => s.cycle \in Cycles /\ k.selected \in {s.cycle, NoCycle},
           s.step = "load" => s.act \in Lists,
           k.selected # NoCycle /\ k.record # NoRecord => k.record.cycle = k.selected
    PROVE  CwInv'
<1>1. /\ cwKept'[b] = k /\ \A a \in Browsers \ {b} : cwKept'[a] = cwKept[a]
      /\ cwScript'[b] = s /\ \A a \in Browsers \ {b} : cwScript'[a] = cwScript[a]
  OBVIOUS
<1>2. RecordsSeen'
  <2> SUFFICES ASSUME NEW a \in Browsers, cwKept'[a].record # NoRecord
               PROVE  /\ cwKept'[a].record.cycle \in Cycles
                      /\ Knows(cwCycles', cwKept'[a].record.cycle, cwKept'[a].record.version, cwKept'[a].record.status)
    BY DEF RecordsSeen, Knows
  <2>1. CASE a = b
    BY <1>1, <2>1 DEF Knows
  <2>2. CASE a # b
    <3>1. PICK r : r = cwKept[a].record /\ r = cwKept'[a].record
      BY <1>1, <2>2
    <3>2. r.cycle \in Cycles /\ Knows(cwCycles, r.cycle, r.version, r.status) /\ r.version \in Nat
      BY <3>1, OneBrowser DEF CwInv, RecordsSeen, Kept
    <3>3. Knows(cwCycles', r.cycle, r.version, r.status)
      BY <3>2, StillKnown DEF CwInv
    <3> QED BY <3>1, <3>2, <3>3 DEF Knows
  <2> QED BY <2>1, <2>2
<1>3. ClicksSeen'
  <2> SUFFICES ASSUME NEW a \in Browsers, cwScript'[a].step = "send", cwScript'[a].act \in Transitions
               PROVE  Knows(cwCycles', cwScript'[a].cycle, cwScript'[a].version, cwScript'[a].offered)
    BY DEF ClicksSeen, Knows
  <2>1. CASE a = b
    BY <1>1, <2>1 DEF Knows
  <2>2. CASE a # b
    <3>1. PICK r : r = cwScript[a] /\ r = cwScript'[a]
      BY <1>1, <2>2
    <3>2. r.cycle \in Cycles /\ Knows(cwCycles, r.cycle, r.version, r.offered) /\ r.version \in Nat
      <4>1. r.step = "send" /\ r.act \in Transitions
        BY <3>1
      <4>2. r.cycle \in Cycles
        BY <3>1, <4>1 DEF CwInv, ScriptsOnSelected, CwIdle
      <4>3. r.version \in Nat
        BY <3>1, OneBrowser DEF CwInv, Script
      <4> QED BY <3>1, <4>1, <4>2, <4>3 DEF CwInv, ClicksSeen
    <3>3. Knows(cwCycles', r.cycle, r.version, r.offered)
      BY <3>2, StillKnown DEF CwInv
    <3> QED BY <3>1, <3>3 DEF Knows
  <2> QED BY <2>1, <2>2
<1>4. ScriptsOnSelected' /\ RecordsOnSelected'
  <2>1. ASSUME NEW a \in Browsers
        PROVE  /\ cwScript'[a].step # "idle" => /\ cwScript'[a].cycle \in Cycles
                                                /\ cwKept'[a].selected \in {cwScript'[a].cycle, NoCycle}
               /\ cwScript'[a].step = "load" => cwScript'[a].act \in Lists
               /\ cwKept'[a].selected # NoCycle /\ cwKept'[a].record # NoRecord =>
                     cwKept'[a].record.cycle = cwKept'[a].selected
    BY <1>1 DEF CwInv, ScriptsOnSelected, RecordsOnSelected, CwIdle
  <2> QED BY <2>1 DEF ScriptsOnSelected, RecordsOnSelected, CwIdle
<1> QED BY <1>2, <1>3, <1>4 DEF CwInv

(***************************************************************************)
(* The steps.                                                              *)
(***************************************************************************)
LEMMA CwClickType == ASSUME CwTypeOK, NEW b \in Browsers, CwClicks(b) PROVE CwTypeOK'
<1>1. cwKept[b] \in Kept /\ cwScript[b] \in Script /\ NothingKept \in Kept /\ NoScript \in Script
  BY OneBrowser, CwStartTypes
<1>2. ASSUME NEW c \in Cycles, CwSelect(b, c) PROVE CwTypeOK'
  BY <1>1, <1>2 DEF CwSelect, CwTypeOK, Run, NoScript, NoRecord, NothingShown
<1>3. ASSUME NEW t \in Transitions, CwOverviewClick(b, t) \/ CwCloseClick(b, t) PROVE CwTypeOK'
  <2>1. Offer(b, t) \in Script
    BY <1>1 DEF Offer, Script, Kept
  <2>2. Run(b, Offer(b, t)) /\ UNCHANGED <<cwCycles, cwRows, cwProbes, cwKept, cwShown>>
    BY <1>3 DEF CwOverviewClick, CwCloseClick
  <2> QED BY <2>1, <2>2 DEF CwTypeOK, Run, Script
<1>4. ASSUME NEW l \in Lists, CwSubmit(b, l) PROVE CwTypeOK'
  <2>1. [NoScript EXCEPT !.step = "load", !.act = l, !.cycle = cwKept[b].selected] \in Script
    BY <1>1 DEF NoScript, Script, Kept
  <2> QED BY <1>4, <2>1 DEF CwSubmit, CwTypeOK, Run, Script
<1>5. CASE CwRefreshReadiness(b)
  <2>1. [NoScript EXCEPT !.step = "refresh", !.cycle = cwKept[b].selected] \in Script
    BY <1>1 DEF NoScript, Script, Kept
  <2> QED BY <1>5, <2>1 DEF CwRefreshReadiness, CwTypeOK, Run, Script
<1>6. CASE CwVerifyPosting(b)
  <2>1. [NoScript EXCEPT !.step = "send", !.act = "verify", !.cycle = cwKept[b].selected] \in Script
    BY <1>1 DEF NoScript, Script, Kept
  <2> QED BY <1>6, <2>1 DEF CwVerifyPosting, CwTypeOK, Run, Script
<1> QED BY <1>2, <1>3, <1>4, <1>5, <1>6 DEF CwClicks

LEMMA CwRequestType ==
    ASSUME CwTypeOK, ScriptsOnSelected, NEW b \in Browsers, CwRequests(b)
    PROVE  CwTypeOK' /\ Onward
<1>1. /\ cwKept[b] \in Kept /\ cwScript[b] \in Script /\ NothingKept \in Kept /\ NoScript \in Script
      /\ cwScript[b].step # "idle" => cwScript[b].cycle \in Cycles
  BY OneBrowser, CwStartTypes DEF ScriptsOnSelected, CwIdle
<1>2. \A st \in {"idle", "load", "send", "refresh", "draw"} :
        Step(b, st) => cwScript' \in [Browsers -> Script]
  <2> SUFFICES ASSUME NEW st \in {"idle", "load", "send", "refresh", "draw"}, Step(b, st)
               PROVE  cwScript' \in [Browsers -> Script]
    OBVIOUS
  <2>1. [cwScript[b] EXCEPT !.step = st] \in Script
    BY <1>1 DEF Script
  <2>2. cwScript \in [Browsers -> Script] /\ cwScript' = [cwScript EXCEPT ![b] = [cwScript[b] EXCEPT !.step = st]]
    BY DEF Step, CwTypeOK, Script
  <2> QED BY <2>1, <2>2
<1>3. \A s \in Script : Run(b, s) => cwScript' \in [Browsers -> Script]
  BY DEF Run, CwTypeOK, Script
<1>4. CASE CwLoadList(b)
  <2>1. [cwScript[b] EXCEPT !.step = "send", !.version = LoadedVersion(b, cwScript[b].act)] \in Script
    <3>1. LoadedVersion(b, cwScript[b].act) \in Nat
      BY <1>1, <1>4 DEF CwLoadList, LoadedVersion, ScriptsOnSelected, CwIdle, CwTypeOK
    <3> QED BY <1>1, <3>1 DEF Script
  <2> QED BY <1>3, <1>4, <2>1 DEF CwLoadList, CwTypeOK, Script, Onward
<1>5. CASE CwTransition(b)
  <2>1. cwScript' \in [Browsers -> Script]
    BY <1>1, <1>2, <1>3, <1>5 DEF CwTransition, Accepted
  <2>2. CASE UNCHANGED cwCycles
    BY <1>5, <2>1, <2>2 DEF CwTransition, CwTypeOK, Script, Onward
  <2>3. CASE cwCycles' = [cwCycles EXCEPT ![cwScript[b].cycle] =
                             [status |-> To(cwScript[b].act), version |-> cwCycles[cwScript[b].cycle].version + 1]]
    <3>1. cwScript[b].cycle \in Cycles /\ To(cwScript[b].act) \in CwStatus
      BY <1>1, <1>5, ToTypes DEF CwTransition
    <3>2. cwCycles[cwScript[b].cycle].version + 1 \in Nat
      BY <3>1 DEF CwTypeOK
    <3>3. cwCycles' \in [Cycles -> [status: CwStatus, version: Nat]]
      BY <2>3, <3>1, <3>2 DEF CwTypeOK
    <3>4. Onward
      BY <2>3, <3>1 DEF Onward, CwTypeOK
    <3> QED BY <1>5, <2>1, <3>3, <3>4 DEF CwTransition, CwTypeOK, Script
  <2> QED BY <1>5, <2>2, <2>3 DEF CwTransition
<1>6. CASE CwChangeRow(b)
  <2>1. cwScript' \in [Browsers -> Script]
    BY <1>2, <1>6 DEF CwChangeRow
  <2>2. cwRows' \in [Cycles -> [Lists -> Nat]]
    <3>1. cwScript[b].cycle \in Cycles /\ cwScript[b].act \in Lists
      BY <1>1, <1>6 DEF CwChangeRow
    <3>2. \A v \in Nat : [cwRows EXCEPT ![cwScript[b].cycle][cwScript[b].act] = v] \in [Cycles -> [Lists -> Nat]]
      <4>1. \A v \in Nat : [cwRows[cwScript[b].cycle] EXCEPT ![cwScript[b].act] = v] \in [Lists -> Nat]
        BY <3>1 DEF CwTypeOK
      <4> QED BY <3>1, <4>1 DEF CwTypeOK
    <3>3. cwRows[cwScript[b].cycle][cwScript[b].act] + 1 \in Nat
      BY <3>1 DEF CwTypeOK
    <3> QED BY <1>6, <3>2, <3>3 DEF CwChangeRow, CwTypeOK
  <2> QED BY <1>6, <2>1, <2>2 DEF CwChangeRow, CwTypeOK, Script, Onward
<1>7. CASE CwPostProbe(b)
  <2>1. cwScript' \in [Browsers -> Script]
    BY <1>2, <1>7 DEF CwPostProbe
  <2> QED BY <1>7, <2>1 DEF CwPostProbe, CwTypeOK, Script, Onward
<1>8. CASE CwRefreshCycle(b)
  <2>1. cwScript' \in [Browsers -> Script]
    BY <1>2, <1>8 DEF CwRefreshCycle
  <2>2. cwScript[b].cycle \in Cycles /\ cwCycles[cwScript[b].cycle] \in [status: CwStatus, version: Nat]
    BY <1>1, <1>8 DEF CwRefreshCycle, CwTypeOK
  <2>3. cwKept' \in [Browsers -> Kept]
    <3> DEFINE r == [cycle |-> cwScript[b].cycle, status |-> cwCycles[cwScript[b].cycle].status,
                     version |-> cwCycles[cwScript[b].cycle].version]
    <3>1. r \in [cycle: Cycles \cup {NoCycle}, status: CwStatus \cup {"NONE"}, version: Nat]
      BY <2>2
    <3>2. cwKept' = [cwKept EXCEPT ![b] = [cwKept[b] EXCEPT !.record = r]] /\ cwKept \in [Browsers -> Kept]
      BY <1>8 DEF CwRefreshCycle, CwTypeOK, Kept
    <3> HIDE DEF r
    <3>3. [cwKept[b] EXCEPT !.record = r] \in Kept
      BY <1>1, <3>1 DEF Kept
    <3> QED BY <3>2, <3>3
  <2> QED BY <1>8, <2>1, <2>3 DEF CwRefreshCycle, CwTypeOK, Script, Kept, Onward
<1>9. CASE CwDraw(b)
  <2>1. cwScript' \in [Browsers -> Script]
    BY <1>1, <1>3, <1>9 DEF CwDraw
  <2>2. cwScript[b].cycle \in Cycles
    BY <1>1, <1>9 DEF CwDraw
  <2>3. [l \in Lists |-> [cycle |-> cwScript[b].cycle, version |-> cwRows[cwScript[b].cycle][l]]]
            \in [Lists -> [cycle: Cycles \cup {NoCycle}, version: Nat]]
    BY <2>2 DEF CwTypeOK
  <2> QED BY <1>9, <2>1, <2>3 DEF CwDraw, CwTypeOK, Script, Onward
<1>10. CASE CwRenew(b)
  BY <1>1, <1>10 DEF CwRenew, CwTypeOK, Kept, Onward
<1>11. CASE CwFail(b)
  BY <1>1, <1>3, <1>11 DEF CwFail, CwTypeOK, Script, Onward
<1> QED BY <1>4, <1>5, <1>6, <1>7, <1>8, <1>9, <1>10, <1>11 DEF CwRequests

LEMMA CwClickKeeps == ASSUME CwInv, NEW b \in Browsers, CwClicks(b) PROVE CwInv'
<1>1. CwTypeOK' /\ Onward /\ cwCycles' = cwCycles /\ CwTypeOK
  <2>1. cwCycles' = cwCycles
    BY DEF CwClicks, CwSelect, CwOverviewClick, CwCloseClick, CwSubmit, CwRefreshReadiness, CwVerifyPosting
  <2> QED BY <2>1, CwClickType DEF CwInv, Onward
<1>2. PICK k, s : k = cwKept'[b] /\ s = cwScript'[b]
  OBVIOUS
<1>3. PICK j, r : j = cwKept[b] /\ r = cwKept[b].record /\ j \in Kept /\ r = j.record
  BY <1>1, OneBrowser
<1>4. /\ r # NoRecord => r.cycle \in Cycles /\ Knows(cwCycles', r.cycle, r.version, r.status)
      /\ j.selected # NoCycle /\ r # NoRecord => r.cycle = j.selected
  BY <1>1, <1>3 DEF CwInv, RecordsSeen, RecordsOnSelected
<1>5. ASSUME NEW c \in Cycles, CwSelect(b, c) PROVE CwInv'
  <2>1. k = [selected |-> c, record |-> NoRecord] /\ s = [NoScript EXCEPT !.step = "refresh", !.cycle = c]
    <3>1. PICK x, y : x = [selected |-> c, record |-> NoRecord] /\ y = [NoScript EXCEPT !.step = "refresh", !.cycle = c]
      OBVIOUS
    <3>2. cwKept' = [cwKept EXCEPT ![b] = x] /\ Run(b, y)
      BY <1>5, <3>1 DEF CwSelect
    <3> QED BY <1>1, <1>2, <3>1, <3>2, OneBrowser
  <2>2. \A a \in Browsers \ {b} : cwKept'[a] = cwKept[a] /\ cwScript'[a] = cwScript[a]
    BY <1>1, <1>5, OneBrowser DEF CwSelect
  <2>3. k.selected = c /\ k.record = NoRecord /\ s.step = "refresh" /\ s.cycle = c
    BY <2>1 DEF NoScript
  <2> QED BY <1>1, <1>2, <2>2, <2>3, CwKeepInv
<1>6. ASSUME NEW script, Run(b, script), UNCHANGED cwKept, OnPage(b),
             script.step \in {"load", "send", "refresh"}, script.cycle = j.selected,
             script.step = "send" /\ script.act \in Transitions =>
                 script.version = r.version /\ script.offered = r.status,
             script.step = "load" => script.act \in Lists
      PROVE  CwInv'
  <2>1. s = script /\ k = j /\ \A a \in Browsers \ {b} : cwKept'[a] = cwKept[a] /\ cwScript'[a] = cwScript[a]
    BY <1>1, <1>2, <1>3, <1>6, OneBrowser
  <2>2. j.selected \in Cycles /\ j.selected # NoCycle /\ r # NoRecord
    BY <1>3, <1>6 DEF OnPage, Kept
  <2>3. s.step = "send" /\ s.act \in Transitions => Knows(cwCycles', s.cycle, s.version, s.offered)
    BY <1>4, <1>6, <2>1, <2>2
  <2>4. k.record # NoRecord => /\ k.record.cycle \in Cycles
                               /\ Knows(cwCycles', k.record.cycle, k.record.version, k.record.status)
    BY <1>3, <1>4, <2>1
  <2>5. k.selected # NoCycle /\ k.record # NoRecord => k.record.cycle = k.selected
    BY <1>3, <1>4, <2>1
  <2>6. /\ s.step # "idle" => s.cycle \in Cycles /\ k.selected \in {s.cycle, NoCycle}
        /\ s.step = "load" => s.act \in Lists
    BY <1>6, <2>1, <2>2
  <2>7. cwKept'[b] = k /\ cwScript'[b] = s
    BY <1>2
  <2> QED BY <1>1, <2>1, <2>3, <2>4, <2>5, <2>6, <2>7, CwKeepInv
<1>7. ASSUME NEW t \in Transitions, CwOverviewClick(b, t) \/ CwCloseClick(b, t) PROVE CwInv'
  <2>1. /\ Offer(b, t).step = "send" /\ Offer(b, t).cycle = j.selected
        /\ Offer(b, t).version = r.version /\ Offer(b, t).offered = r.status
    BY <1>3 DEF Offer
  <2> QED BY <1>6, <1>7, <2>1 DEF CwOverviewClick, CwCloseClick
<1>8. ASSUME NEW l \in Lists, CwSubmit(b, l) PROVE CwInv'
  <2> DEFINE script == [NoScript EXCEPT !.step = "load", !.act = l, !.cycle = cwKept[b].selected]
  <2>1. script.step = "load" /\ script.act = l /\ script.cycle = j.selected
    BY <1>3 DEF NoScript
  <2>2. Run(b, script) /\ UNCHANGED cwKept /\ OnPage(b)
    BY <1>8 DEF CwSubmit
  <2> HIDE DEF script
  <2> QED BY <1>6, <2>1, <2>2
<1>9. CASE CwRefreshReadiness(b)
  <2> DEFINE script == [NoScript EXCEPT !.step = "refresh", !.cycle = cwKept[b].selected]
  <2>1. script.step = "refresh" /\ script.cycle = j.selected
    BY <1>3 DEF NoScript
  <2>2. Run(b, script) /\ UNCHANGED cwKept /\ OnPage(b)
    BY <1>9 DEF CwRefreshReadiness
  <2> HIDE DEF script
  <2> QED BY <1>6, <2>1, <2>2
<1>10. CASE CwVerifyPosting(b)
  <2> DEFINE script == [NoScript EXCEPT !.step = "send", !.act = "verify", !.cycle = cwKept[b].selected]
  <2>1. script.step = "send" /\ script.act \notin Transitions /\ script.cycle = j.selected
    BY <1>3 DEF NoScript, Transitions
  <2>2. Run(b, script) /\ UNCHANGED cwKept /\ OnPage(b)
    BY <1>10 DEF CwVerifyPosting
  <2> HIDE DEF script
  <2> QED BY <1>6, <2>1, <2>2
<1> QED BY <1>5, <1>7, <1>8, <1>9, <1>10 DEF CwClicks

LEMMA CwRequestKeeps == ASSUME CwInv, NEW b \in Browsers, CwRequests(b) PROVE CwInv'
<1>1. CwTypeOK' /\ Onward /\ CwTypeOK
  BY CwRequestType DEF CwInv
<1>2. PICK k, s : k = cwKept'[b] /\ s = cwScript'[b]
  OBVIOUS
<1>3. PICK j, z : j = cwKept[b] /\ z = cwScript[b] /\ j \in Kept /\ z \in Script
  BY <1>1, OneBrowser
<1>4. /\ j.record # NoRecord => /\ j.record.cycle \in Cycles
                                /\ Knows(cwCycles', j.record.cycle, j.record.version, j.record.status)
      /\ j.selected # NoCycle /\ j.record # NoRecord => j.record.cycle = j.selected
  <2>1. j.record.version \in Nat
    BY <1>3 DEF Kept
  <2>2. j.record # NoRecord => /\ j.record.cycle \in Cycles
                               /\ Knows(cwCycles, j.record.cycle, j.record.version, j.record.status)
    BY <1>3 DEF CwInv, RecordsSeen
  <2> QED BY <1>1, <1>3, <2>1, <2>2, StillKnown DEF CwInv, RecordsOnSelected
<1>5. z.step # "idle" => z.cycle \in Cycles /\ j.selected \in {z.cycle, NoCycle}
  BY <1>3 DEF CwInv, ScriptsOnSelected, CwIdle
<1>6. ASSUME k = j, \A a \in Browsers \ {b} : cwKept'[a] = cwKept[a] /\ cwScript'[a] = cwScript[a],
             \/ s = NoScript
             \/ z.step # "idle" /\ s = [z EXCEPT !.step = "refresh"]
             \/ z.step # "idle" /\ s = [z EXCEPT !.step = "draw"]
      PROVE  CwInv'
  <2>1. s.step \notin {"send", "load"} /\ (s.step # "idle" => z.step # "idle" /\ s.cycle = z.cycle)
    BY <1>3, <1>6 DEF NoScript, Script
  <2> QED BY <1>1, <1>2, <1>4, <1>5, <1>6, <2>1, CwKeepInv
<1>7. CASE CwLoadList(b)
  <2>1. /\ z.step = "load" /\ k = j /\ s = [z EXCEPT !.step = "send", !.version = LoadedVersion(b, z.act)]
        /\ \A a \in Browsers \ {b} : cwKept'[a] = cwKept[a] /\ cwScript'[a] = cwScript[a]
    BY <1>1, <1>2, <1>3, <1>7, OneBrowser DEF CwLoadList
  <2>2. s.step = "send" /\ s.act = z.act /\ s.cycle = z.cycle
    BY <1>3, <2>1 DEF Script
  <2>3. z.act \in Lists
    BY <1>3, <2>1 DEF CwInv, ScriptsOnSelected, CwIdle
  <2>4. z.act \notin Transitions
    BY <2>3, ListsAssumption
  <2> QED BY <1>1, <1>2, <1>4, <1>5, <2>1, <2>2, <2>4, CwKeepInv
<1>8. CASE CwTransition(b) \/ CwChangeRow(b) \/ CwPostProbe(b)
  <2>1. z.step = "send" /\ k = j /\ \A a \in Browsers : cwKept'[a] = cwKept[a]
    BY <1>2, <1>3, <1>8 DEF CwTransition, CwChangeRow, CwPostProbe
  <2>2. Step(b, "refresh") \/ Step(b, "draw") \/ Run(b, NoScript)
    BY <1>8 DEF CwTransition, CwChangeRow, CwPostProbe, Accepted
  <2>3. /\ s \in {NoScript, [z EXCEPT !.step = "refresh"], [z EXCEPT !.step = "draw"]}
        /\ \A a \in Browsers \ {b} : cwScript'[a] = cwScript[a]
    BY <1>1, <1>2, <1>3, <2>2, OneBrowser
  <2> QED BY <1>6, <2>1, <2>3
<1>9. CASE CwDraw(b) \/ CwFail(b)
  <2>1. /\ k = j /\ s = NoScript
        /\ \A a \in Browsers \ {b} : cwKept'[a] = cwKept[a] /\ cwScript'[a] = cwScript[a]
    BY <1>1, <1>2, <1>3, <1>9, OneBrowser DEF CwDraw, CwFail
  <2> QED BY <1>6, <2>1
<1>10. CASE CwRefreshCycle(b)
  <2>1. PICK c : c = z.cycle /\ z.step = "refresh" /\ c \in Cycles
    BY <1>3, <1>5, <1>10 DEF CwRefreshCycle
  <2>2. cwCycles' = cwCycles /\ s = [z EXCEPT !.step = "draw"]
    BY <1>1, <1>2, <1>3, <1>10, OneBrowser DEF CwRefreshCycle
  <2>3. PICK x : x = [cycle |-> c, status |-> cwCycles[c].status, version |-> cwCycles[c].version]
    OBVIOUS
  <2>4. cwKept' = [cwKept EXCEPT ![b] = [j EXCEPT !.record = x]]
    BY <1>3, <1>10, <2>1, <2>3 DEF CwRefreshCycle
  <2>5. k = [j EXCEPT !.record = x] /\ \A a \in Browsers \ {b} : cwKept'[a] = cwKept[a] /\ cwScript'[a] = cwScript[a]
    <3>1. PICK y : y = [j EXCEPT !.record = x]
      OBVIOUS
    <3>2. cwKept' = [cwKept EXCEPT ![b] = y] /\ Step(b, "draw")
      BY <1>10, <2>4, <3>1 DEF CwRefreshCycle
    <3> QED BY <1>1, <1>2, <3>1, <3>2, OneBrowser
  <2>6. k.selected = j.selected /\ k.record = x
    BY <1>3, <2>5 DEF Kept
  <2>7. x.cycle = c /\ Knows(cwCycles', x.cycle, x.version, x.status)
    <3>1. cwCycles[c].version \in Nat
      BY <1>1, <2>1 DEF CwTypeOK
    <3> QED BY <2>2, <2>3, <3>1 DEF Knows
  <2>8. s.step = "draw" /\ s.cycle = c
    BY <1>3, <2>1, <2>2 DEF Script
  <2>9. /\ k.record.cycle = c /\ Knows(cwCycles', k.record.cycle, k.record.version, k.record.status)
        /\ k.selected \in {c, NoCycle}
    BY <1>5, <2>1, <2>6, <2>7
  <2>10. /\ c \in Cycles /\ s.step # "idle" /\ s.step # "send" /\ s.step # "load"
         /\ k.selected \in {s.cycle, NoCycle} /\ s.cycle \in Cycles
    BY <2>1, <2>8, <2>9
  <2>11. \A a \in Browsers \ {b} : cwKept'[a] = cwKept[a] /\ cwScript'[a] = cwScript[a]
    BY <2>5
  <2>12. /\ k.record # NoRecord => k.record.cycle \in Cycles /\ Knows(cwCycles', k.record.cycle, k.record.version, k.record.status)
         /\ k.selected # NoCycle /\ k.record # NoRecord => k.record.cycle = k.selected
    BY <2>8, <2>9, <2>10
  <2> QED BY <1>1, <1>2, <2>10, <2>11, <2>12, CwKeepInv
<1>11. CASE CwRenew(b)
  <2>1. /\ k = NothingKept /\ s = z /\ z.step # "idle" /\ cwCycles' = cwCycles
        /\ \A a \in Browsers \ {b} : cwKept'[a] = cwKept[a] /\ cwScript'[a] = cwScript[a]
    BY <1>1, <1>2, <1>3, <1>11, OneBrowser DEF CwRenew, CwIdle
  <2>2. k.selected = NoCycle /\ k.record = NoRecord
    BY <2>1 DEF NothingKept
  <2>3. /\ s.step = "send" /\ s.act \in Transitions => Knows(cwCycles', s.cycle, s.version, s.offered)
        /\ s.step = "load" => s.act \in Lists
    BY <1>3, <2>1 DEF CwInv, ClicksSeen, ScriptsOnSelected, CwIdle
  <2> QED BY <1>1, <1>2, <1>5, <2>1, <2>2, <2>3, CwKeepInv
<1> QED BY <1>7, <1>8, <1>9, <1>10, <1>11 DEF CwRequests

LEMMA CwNextKeeps == CwInv /\ [CwNext]_cwVars => CwInv'
<1>1. CwInv /\ UNCHANGED cwVars => CwInv'
  BY DEF cwVars, CwInv, CwTypeOK, RecordsSeen, ClicksSeen, ScriptsOnSelected, RecordsOnSelected, CwIdle
<1> QED BY <1>1, CwClickKeeps, CwRequestKeeps DEF CwNext

LEMMA CwInvHolds == CwSpec => []CwInv
  BY CwInitInv, CwNextKeeps, PTL DEF CwSpec

(***************************************************************************)
(* CwTypeOK: every variable keeps its type, for any browsers and bounds.   *)
(***************************************************************************)
THEOREM CwTypesHold == CwSpec => []CwTypeOK
<1>1. CwInv => CwTypeOK
  BY DEF CwInv
<1> QED BY <1>1, CwInvHolds, PTL

(***************************************************************************)
(* RecordIsOfSelected: the record kept while a cycle is selected is that   *)
(* cycle's, whatever renewals and failures a script met.                   *)
(***************************************************************************)
THEOREM RecordStaysOfSelected == CwSpec => []RecordIsOfSelected
<1>1. CwInv => RecordIsOfSelected
  BY DEF CwInv, RecordsOnSelected, RecordIsOfSelected
<1> QED BY <1>1, CwInvHolds, PTL

\* Only the transition of a click that was offered for the present status moves a cycle.
CycleMoves ==
    \A c \in Cycles : cwCycles'[c] # cwCycles[c] =>
        \E b \in Browsers : /\ cwScript[b].step = "send"
                            /\ cwScript[b].cycle = c
                            /\ cwScript[b].offered = cwCycles[c].status

LEMMA OfferedMoves == ASSUME CwInv, CwNext PROVE CycleMoves
<1> SUFFICES ASSUME NEW c \in Cycles, cwCycles'[c] # cwCycles[c]
             PROVE  \E b \in Browsers : /\ cwScript[b].step = "send"
                                        /\ cwScript[b].cycle = c
                                        /\ cwScript[b].offered = cwCycles[c].status
  BY DEF CycleMoves
<1>1. PICK b \in Browsers : CwTransition(b)
  BY DEF CwNext, CwClicks, CwRequests, CwSelect, CwOverviewClick, CwCloseClick, CwSubmit,
         CwRefreshReadiness, CwVerifyPosting, CwLoadList, CwChangeRow, CwPostProbe,
         CwRefreshCycle, CwDraw, CwRenew, CwFail
<1>2. /\ cwScript[b].step = "send" /\ cwScript[b].act \in Transitions
      /\ cwCycles[cwScript[b].cycle].version = cwScript[b].version /\ cwScript[b].cycle = c
  BY <1>1 DEF CwTransition, CwInv, CwTypeOK
<1>3. cwScript[b].offered = cwCycles[c].status
  BY <1>2 DEF CwInv, ClicksSeen, Knows
<1> QED BY <1>2, <1>3

(***************************************************************************)
(* MovesAsOffered: nobody cancels, closes or reopens a cycle in a status   *)
(* other than the one the click was offered for.                           *)
(***************************************************************************)
THEOREM ClicksMoveWhatTheyShowed == CwSpec => MovesAsOffered
<1>1. CwInv /\ [CwNext]_cwVars => [CycleMoves]_cwVars
  BY OfferedMoves
<1>2. CwSpec => [][CycleMoves]_cwVars
  BY <1>1, CwInvHolds, PTL DEF CwSpec
<1> QED BY <1>2 DEF MovesAsOffered, CycleMoves

-----------------------------------------------------------------------------
(* Close evidence.  A bundle is read in pieces while others work, so it is *)
(* one of a revision only while the numbers it compares have not moved:    *)
(* what has been read so far is what the sections show of the revision and *)
(* the ledger the request saw, as long as these are still the cycle's      *)
(* (EvCallFits), and everything it saw is as it was while nothing has      *)
(* disturbed it (UndisturbedFits).  Of what no revision counts, a record   *)
(* shows some value x of the staged rows and y of the earlier journals.    *)
EvStatus == EvBegun \cup {"CLOSED"}
EvKind == {"control", "task", "move"}
EvStep == {"idle", "period", "record", "built", "stale", "refused", "closed", "exceeded", "served",
           "differs"} \cup EvSections

\* The changes of a kind among the first that make up a revision.
CountOf(kinds, m, kind) == Cardinality({n \in 1..m : kinds[n] = kind})

\* What a section shows of a revision and a ledger, when x rows are staged and y journals
\* are dated before the period.
SectionOf(kinds, section, m, p, x, y) ==
    CASE section = "readiness" -> <<x, CountOf(kinds, m, "control")>>
      [] section = "tasks" -> <<CountOf(kinds, m, "task"), "CURRENT">>
      [] section = "balance" -> <<p, y>>
      [] section = "controls" -> CountOf(kinds, m, "control")
      [] section = "checklist" -> CountOf(kinds, m, "task")
      [] OTHER -> m

WholeOf(kinds, m, p, x, y) == [s \in EvSections |-> SectionOf(kinds, s, m, p, x, y)]

\* The sections that are read before a step.
ReadBefore(step) ==
    CASE step = "tasks" -> {"readiness"}
      [] step = "balance" -> {"readiness", "tasks"}
      [] step = "controls" -> {"readiness", "tasks", "balance"}
      [] step = "checklist" -> {"readiness", "tasks", "balance", "controls"}
      [] step = "audit" -> {"readiness", "tasks", "balance", "controls", "checklist"}
      [] step = "built" -> EvSections
      [] OTHER -> {}

EvWorking == EvSections \cup {"period", "record", "built"}

\* A record stands for a bundle of one revision, which is the cycle's status' while no
\* further change has come.
BundleFits(b) ==
    /\ b.revision \in 0..Len(evKinds) /\ b.ledger \in 0..evPosted /\ b.status \in EvStatus
    /\ b.revision = Len(evKinds) => b.status = evStatus
    /\ \E x, y \in Nat : b = [status |-> b.status, revision |-> b.revision, ledger |-> b.ledger,
                              seen |-> WholeOf(evKinds, b.revision, b.ledger, x, y)]

RecordsFit ==
    \A n \in DOMAIN evRecords :
        BundleFits(evRecords[n].bundle) /\ evRecords[n] = RecordOf(evRecords[n].bundle)

EvValue == Nat \cup (Nat \X Nat) \cup (Nat \X {"CURRENT"})
EvBundle == [status: EvStatus, revision: Nat, ledger: Nat, seen: [EvSections -> EvValue]]
EvCallType ==
    [step: EvStep, download: BOOLEAN, status: EvStatus \cup {"none"}, revision: Nat, ledger: Nat,
     record: Nat, seen: UNION {[S -> EvValue] : S \in SUBSET EvSections}, disturbed: BOOLEAN]

\* What a request has read is of the revision and the ledger it saw, while no more
\* changes of either have come ...
EvCallFits(c) ==
    /\ c.revision <= Len(evKinds) /\ c.ledger <= evPosted
    /\ c.step \in EvWorking => DOMAIN c.seen = ReadBefore(c.step)
    /\ c.step \in EvWorking /\ c.revision = Len(evKinds) /\ c.ledger = evPosted =>
           \A s \in DOMAIN c.seen : \E x, y \in Nat :
               c.seen[s] = SectionOf(evKinds, s, c.revision, c.ledger, x, y)

\* ... and nothing it saw is past while nothing has disturbed it.
UndisturbedFits(c) ==
    c.step \in EvWorking /\ ~c.disturbed =>
        /\ c.status = evStatus /\ c.revision = Len(evKinds)
        /\ c.step # "period" => c.ledger = evPosted
        /\ c.download /\ c.step \notin {"period", "record"} =>
               /\ c.record = Len(evRecords)
               /\ IsCurrent(Last(evRecords), c.status, c.revision, c.ledger)

\* What a request is at the end.
EndFits(c) ==
    /\ c.step = "refused" => c.disturbed
    /\ c.download /\ c.step \in EvSections \cup {"built"} => c.record \in 1..Len(evRecords)
    /\ c.step \in {"served", "differs"} => c.record \in 1..Len(evRecords)
    /\ c.step = "served" => BundleOf(c) = evRecords[c.record].bundle
    /\ c.step = "differs" =>
           LET was == evRecords[c.record].bundle
           IN  \/ was.seen["readiness"][1] # c.seen["readiness"][1]
               \/ was.seen["balance"][2] # c.seen["balance"][2]

EvTypes ==
    /\ evStatus \in EvStatus /\ evKinds \in Seq(EvKind)
    /\ evPosted \in Nat /\ evStaged \in Nat /\ evCarried \in Nat
    /\ evRecords \in Seq([revision: Nat, ledger: Nat, final: BOOLEAN, bundle: EvBundle])
    /\ evCalls \in [EvCallers -> EvCallType]

EvInv ==
    /\ EvTypes /\ RecordsFit /\ ClosedKeepsFinal
    /\ \A r \in EvCallers : EvCallFits(evCalls[r]) /\ UndisturbedFits(evCalls[r]) /\ EndFits(evCalls[r])

LEMMA EvStart ==
    /\ EvIdle \in EvCallType /\ EvIdle.step = "idle"
    /\ UndisturbedFits(EvIdle) /\ EndFits(EvIdle) /\ ~EvIdle.disturbed
           /\ EvIdle.revision = 0 /\ EvIdle.ledger = 0 /\ ~EvIdle.download /\ DOMAIN EvIdle.seen = {}
<1>1. PICK none : none = <<>> /\ none \in [{} -> EvValue]
  <2>0. <<>> \in Seq(EvValue) /\ Len(<<>>) = 0
    BY EmptySeq
  <2>1. PICK none : none = <<>> /\ none \in Seq(EvValue) /\ Len(none) = 0
    BY <2>0
  <2>2. none \in [1..Len(none) -> EvValue]
    BY <2>1, LenProperties
  <2>3. 1..Len(none) = {}
    BY <2>1
  <2> QED BY <2>1, <2>2, <2>3
<1>2. EvIdle \in EvCallType
  <2>1. none \in UNION {[S -> EvValue] : S \in SUBSET EvSections}
    BY <1>1
  <2> QED BY <1>1, <2>1 DEF EvIdle, EvCallType, EvStep
<1>3. DOMAIN EvIdle.seen = {}
  BY <1>1 DEF EvIdle
<1> QED BY <1>2, <1>3 DEF EvIdle, UndisturbedFits, EndFits, EvWorking, EvSections

\* How often a kind is among the first changes.
LEMMA CountType ==
    ASSUME NEW kinds, NEW m \in Nat, NEW kind
    PROVE  CountOf(kinds, m, kind) \in Nat
<1>1. IsFiniteSet(1..m)
  BY Upward
<1>2. IsFiniteSet({n \in 1..m : kinds[n] = kind})
  BY <1>1, FS_Subset
<1> QED BY <1>2, FS_CardinalityType DEF CountOf

\* A change that comes later leaves what the earlier ones count.
LEMMA CountStays ==
    ASSUME NEW kinds \in Seq(EvKind), NEW new \in EvKind, NEW m \in Nat, m <= Len(kinds), NEW kind
    PROVE  CountOf(Append(kinds, new), m, kind) = CountOf(kinds, m, kind)
<1>1. PICK k : k = Append(kinds, new)
  OBVIOUS
<1>2. \A n \in 1..m : k[n] = kinds[n]
  BY <1>1, AppendProperties
<1>3. {n \in 1..m : k[n] = kind} = {n \in 1..m : kinds[n] = kind}
  BY <1>2
<1> QED BY <1>1, <1>3 DEF CountOf

LEMMA SectionStays ==
    ASSUME NEW kinds \in Seq(EvKind), NEW new \in EvKind, NEW m \in Nat, m <= Len(kinds),
           NEW p, NEW x, NEW y
    PROVE  /\ \A s \in EvSections :
                  SectionOf(Append(kinds, new), s, m, p, x, y) = SectionOf(kinds, s, m, p, x, y)
           /\ WholeOf(Append(kinds, new), m, p, x, y) = WholeOf(kinds, m, p, x, y)
<1>1. /\ CountOf(Append(kinds, new), m, "control") = CountOf(kinds, m, "control")
      /\ CountOf(Append(kinds, new), m, "task") = CountOf(kinds, m, "task")
  BY CountStays
<1>2. \A s \in EvSections :
          SectionOf(Append(kinds, new), s, m, p, x, y) = SectionOf(kinds, s, m, p, x, y)
  BY <1>1 DEF SectionOf
<1> QED BY <1>2 DEF WholeOf

LEMMA SectionType ==
    ASSUME NEW kinds, NEW m \in Nat, NEW p \in Nat, NEW x \in Nat, NEW y \in Nat
    PROVE  /\ \A s \in EvSections : SectionOf(kinds, s, m, p, x, y) \in EvValue
           /\ WholeOf(kinds, m, p, x, y) \in [EvSections -> EvValue]
<1>1. CountOf(kinds, m, "control") \in Nat /\ CountOf(kinds, m, "task") \in Nat
  BY CountType
<1>2. ASSUME NEW s \in EvSections PROVE SectionOf(kinds, s, m, p, x, y) \in EvValue
  <2>1. PICK a \in Nat, b \in Nat : a = CountOf(kinds, m, "control") /\ b = CountOf(kinds, m, "task")
    BY <1>1
  <2>2. /\ <<x, a>> \in EvValue /\ <<b, "CURRENT">> \in EvValue /\ <<p, y>> \in EvValue
        /\ a \in EvValue /\ b \in EvValue /\ m \in EvValue
    BY DEF EvValue
  <2> QED BY <2>1, <2>2 DEF SectionOf, EvSections
<1> QED BY <1>2 DEF WholeOf

\* What a section shows now.
LEMMA ShownNow ==
    ASSUME EvTypes, NEW s \in EvSections, NEW revision, NEW ledger
    PROVE  /\ Shown(s, revision, ledger) = SectionOf(evKinds, s, Len(evKinds), evPosted, evStaged, evCarried)
           /\ Shown(s, revision, ledger) \in EvValue
<1>1. Len(evKinds) \in Nat /\ DOMAIN evKinds = 1..Len(evKinds)
  BY LenProperties DEF EvTypes
<1>2. \A kind : NumberOf(kind) = CountOf(evKinds, Len(evKinds), kind)
  BY <1>1 DEF NumberOf, CountOf
<1>3. Shown(s, revision, ledger) = SectionOf(evKinds, s, Len(evKinds), evPosted, evStaged, evCarried)
  BY <1>2 DEF Shown, SectionOf, EvidenceControl, EvSections
<1>4. /\ Len(evKinds) \in Nat /\ evPosted \in Nat /\ evStaged \in Nat /\ evCarried \in Nat
  BY <1>1 DEF EvTypes
<1>5. SectionOf(evKinds, s, Len(evKinds), evPosted, evStaged, evCarried) \in EvValue
  BY <1>4, SectionType
<1> QED BY <1>3, <1>5

LEMMA EvParts ==
    ASSUME EvInv
    PROVE  /\ evKinds \in Seq(EvKind) /\ Len(evKinds) \in Nat /\ evPosted \in Nat
           /\ evStaged \in Nat /\ evCarried \in Nat /\ evStatus \in EvStatus
           /\ Len(evRecords) \in Nat /\ DOMAIN evRecords = 1..Len(evRecords)
           /\ evCalls \in [EvCallers -> EvCallType]
  BY LenProperties DEF EvInv, EvTypes

\* A request goes on; nothing else happens.
LEMMA EvCallMoves ==
    ASSUME EvInv, NEW r \in EvCallers, NEW new \in EvCallType, EvNow(r, new), EvStays,
           UNCHANGED evRecords, EvCallFits(new), UndisturbedFits(new), EndFits(new)
    PROVE  EvInv'
<1>1. UNCHANGED <<evStatus, evKinds, evPosted, evStaged, evCarried, evRecords>>
  BY DEF EvStays
<1>2. /\ evCalls' \in [EvCallers -> EvCallType] /\ evCalls'[r] = new
      /\ \A q \in EvCallers : q # r => evCalls'[q] = evCalls[q]
  BY EvParts DEF EvNow
<1>3. EvTypes'
  BY <1>1, <1>2 DEF EvInv, EvTypes
<1>4. RecordsFit'
  BY <1>1 DEF EvInv, RecordsFit, BundleFits
<1>5. ClosedKeepsFinal'
  BY <1>1 DEF EvInv, ClosedKeepsFinal
<1>6. ASSUME NEW q \in EvCallers
      PROVE  EvCallFits(evCalls[q])' /\ UndisturbedFits(evCalls[q])' /\ EndFits(evCalls[q])'
  <2>1. PICK c : /\ c = evCalls'[q] /\ EvCallFits(c) /\ UndisturbedFits(c) /\ EndFits(c)
    BY <1>2 DEF EvInv
  <2> QED BY <1>1, <2>1 DEF EvCallFits, UndisturbedFits, EndFits
<1> QED BY <1>3, <1>4, <1>5, <1>6 DEF EvInv

\* What a request saw before another change came.
LEMMA EvCallDisturbed ==
    ASSUME EvInv, NEW c \in EvCallType, EvCallFits(c), EndFits(c), NEW d \in EvCallType,
           d.step = c.step, d.download = c.download, d.status = c.status, d.revision = c.revision,
           d.ledger = c.ledger, d.record = c.record, d.seen = c.seen,
           c.step # "idle" => d.disturbed,
           \/ UNCHANGED evKinds
           \/ \E k \in EvKind : evKinds' = Append(evKinds, k),
           evPosted' \in Nat, evPosted' >= evPosted,
           Len(evRecords') >= Len(evRecords), Len(evRecords') \in Nat,
           \A n \in 1..Len(evRecords) : evRecords'[n] = evRecords[n]
    PROVE  EvCallFits(d)' /\ UndisturbedFits(d)' /\ EndFits(d)'
<1>1. /\ Len(evKinds) \in Nat /\ evKinds \in Seq(EvKind) /\ evPosted \in Nat /\ Len(evRecords) \in Nat
  BY EvParts
<1>2. c.revision \in Nat /\ c.ledger \in Nat /\ c.record \in Nat
  BY DEF EvCallType
<1>3. \/ evKinds' = evKinds /\ Len(evKinds') = Len(evKinds)
      \/ Len(evKinds') = Len(evKinds) + 1
  BY <1>1, AppendProperties
<1>4. EvCallFits(d)'
  <2>1. c.revision <= Len(evKinds') /\ c.ledger <= evPosted'
    BY <1>1, <1>2, <1>3 DEF EvCallFits
  <2>2. ASSUME c.step \in EvWorking, c.revision = Len(evKinds'), c.ledger = evPosted',
               NEW s \in DOMAIN c.seen
        PROVE  \E x, y \in Nat : c.seen[s] = SectionOf(evKinds', s, c.revision, c.ledger, x, y)
    <3>1. c.revision = Len(evKinds) /\ c.ledger = evPosted
      BY <1>1, <1>2, <1>3, <2>2 DEF EvCallFits
    <3>2. evKinds' = evKinds
      BY <1>1, <1>3, <2>2, <3>1
    <3> QED BY <2>2, <3>1, <3>2 DEF EvCallFits
  <2> QED BY <2>1, <2>2 DEF EvCallFits
<1>5. UndisturbedFits(d)'
  BY DEF UndisturbedFits, EvWorking, EvSections
<1>6. EndFits(d)'
  <2>1. ASSUME c.record \in 1..Len(evRecords)
        PROVE  c.record \in 1..Len(evRecords') /\ evRecords'[c.record] = evRecords[c.record]
    BY <1>1, <2>1
  <2>2. d.step = "refused" => d.disturbed
    OBVIOUS
  <2>3. BundleOf(d) = BundleOf(c)
    BY DEF BundleOf
  <2> QED BY <2>1, <2>2, <2>3 DEF EndFits
<1> QED BY <1>4, <1>5, <1>6

LEMMA DisturbedType ==
    ASSUME EvInv, NEW r \in EvCallers
    PROVE  LET c == evCalls[r]
               d == Disturbed(evCalls)[r]
           IN  /\ c \in EvCallType /\ d \in EvCallType
               /\ d.step = c.step /\ d.download = c.download /\ d.status = c.status
               /\ d.revision = c.revision /\ d.ledger = c.ledger /\ d.record = c.record
               /\ d.seen = c.seen /\ (c.step # "idle" => d.disturbed)
<1>1. PICK c : c = evCalls[r] /\ c \in EvCallType
  BY EvParts
<1>2. PICK d : d = [c EXCEPT !.disturbed = c.step # "idle"]
  OBVIOUS
<1>3. Disturbed(evCalls)[r] = d
  BY <1>1, <1>2 DEF Disturbed
<1>4. PICK b \in BOOLEAN : b = (c.step # "idle")
  <2>1. (c.step # "idle") \in BOOLEAN
    OBVIOUS
  <2> QED BY <2>1
<1>5. d = [c EXCEPT !.disturbed = b]
  BY <1>2, <1>4
<1>6. /\ d \in EvCallType /\ d.step = c.step /\ d.download = c.download /\ d.status = c.status
      /\ d.revision = c.revision /\ d.ledger = c.ledger /\ d.record = c.record
      /\ d.seen = c.seen /\ d.disturbed = b
  BY <1>1, <1>5 DEF EvCallType
<1>7. c.step # "idle" => d.disturbed
  BY <1>4, <1>6
<1> QED BY <1>1, <1>3, <1>6, <1>7

\* A change, which moves the status only when it is counted.
EvMoves ==
    /\ \/ UNCHANGED <<evKinds, evStatus>>
       \/ \E k \in EvKind : evKinds' = Append(evKinds, k)
    /\ evStatus' \in EvStatus
    /\ evPosted' \in Nat /\ evPosted' >= evPosted /\ evStaged' \in Nat /\ evCarried' \in Nat

LEMMA BundleStays ==
    ASSUME EvInv, EvMoves, NEW b, BundleFits(b)
    PROVE  BundleFits(b)'
<1>1. /\ evKinds \in Seq(EvKind) /\ Len(evKinds) \in Nat /\ evPosted \in Nat
  BY EvParts
<1>2. b.revision \in 0..Len(evKinds) /\ b.ledger \in 0..evPosted /\ b.status \in EvStatus
  BY DEF BundleFits
<1>3. PICK x \in Nat, y \in Nat :
          b = [status |-> b.status, revision |-> b.revision, ledger |-> b.ledger,
               seen |-> WholeOf(evKinds, b.revision, b.ledger, x, y)]
  BY DEF BundleFits
<1>4. CASE UNCHANGED <<evKinds, evStatus>>
  <2>1. b.ledger \in 0..evPosted'
    BY <1>1, <1>2 DEF EvMoves
  <2> QED BY <1>4, <2>1 DEF BundleFits
<1>5. ASSUME NEW k \in EvKind, evKinds' = Append(evKinds, k) PROVE BundleFits(b)'
  <2>1. Len(evKinds') = Len(evKinds) + 1
    BY <1>1, <1>5, AppendProperties
  <2>2. b.revision \in 0..Len(evKinds') /\ b.revision # Len(evKinds') /\ b.ledger \in 0..evPosted'
    BY <1>1, <1>2, <2>1 DEF EvMoves
  <2>3. b.revision \in Nat /\ b.revision <= Len(evKinds)
    BY <1>1, <1>2
  <2>4. WholeOf(evKinds', b.revision, b.ledger, x, y) = WholeOf(evKinds, b.revision, b.ledger, x, y)
    BY <1>1, <1>5, <2>3, SectionStays
  <2>5. b = [status |-> b.status, revision |-> b.revision, ledger |-> b.ledger,
             seen |-> WholeOf(evKinds', b.revision, b.ledger, x, y)]
    BY <1>3, <2>4
  <2> QED BY <1>2, <2>2, <2>5 DEF BundleFits
<1> QED BY <1>4, <1>5 DEF EvMoves

\* Whatever others do, a request at work keeps what it has.
LEMMA EvCallsStay ==
    ASSUME EvInv, EvMoves, NEW r \in EvCallers, evCalls'[r] = Disturbed(evCalls)[r],
           \/ UNCHANGED evRecords
           \/ \E rec : evRecords' = Append(evRecords, rec)
    PROVE  EvCallFits(evCalls[r])' /\ UndisturbedFits(evCalls[r])' /\ EndFits(evCalls[r])'
<1>1. PICK c, d : c = evCalls[r] /\ d = evCalls'[r]
  OBVIOUS
<1>2. /\ c \in EvCallType /\ d \in EvCallType
      /\ d.step = c.step /\ d.download = c.download /\ d.status = c.status
      /\ d.revision = c.revision /\ d.ledger = c.ledger /\ d.record = c.record
      /\ d.seen = c.seen /\ (c.step # "idle" => d.disturbed)
  BY <1>1, DisturbedType
<1>3. EvCallFits(c) /\ EndFits(c)
  BY <1>1 DEF EvInv
<1>4. /\ Len(evRecords') \in Nat /\ Len(evRecords') >= Len(evRecords)
      /\ \A n \in 1..Len(evRecords) : evRecords'[n] = evRecords[n]
  <2>1. PICK S, s : s = evRecords /\ s \in Seq(S) /\ Len(s) \in Nat
    BY LenProperties DEF EvInv, EvTypes
  <2>2. CASE UNCHANGED evRecords
    BY <2>1, <2>2
  <2>3. ASSUME NEW rec, evRecords' = Append(evRecords, rec)
        PROVE  /\ Len(evRecords') = Len(s) + 1
               /\ \A n \in 1..Len(evRecords) : evRecords'[n] = evRecords[n]
    <3>1. s \in Seq(S \cup {rec})
      BY <2>1
    <3> QED BY <2>1, <2>3, <3>1, AppendProperties
  <2> QED BY <2>1, <2>2, <2>3
<1>5. EvCallFits(d)' /\ UndisturbedFits(d)' /\ EndFits(d)'
  BY <1>2, <1>3, <1>4, EvCallDisturbed DEF EvMoves
<1>6. d = evCalls'[r]
  BY <1>1
<1> QED BY <1>5, <1>6 DEF EvCallFits, UndisturbedFits, EndFits

\* Work on the period and on the cycle, which records no bundle.
LEMMA EvWorldMoves ==
    ASSUME EvInv, EvMoves, EvChanged, UNCHANGED evRecords, ClosedKeepsFinal'
    PROVE  EvInv'
<1>1. \A r \in EvCallers : evCalls'[r] = Disturbed(evCalls)[r] /\ evCalls'[r] \in EvCallType
  BY DisturbedType DEF EvChanged
<1>2. evCalls' \in [EvCallers -> EvCallType]
  BY <1>1 DEF EvChanged, Disturbed
<1>3. evKinds' \in Seq(EvKind)
  <2>1. PICK kinds : kinds = evKinds /\ kinds \in Seq(EvKind)
    BY EvParts
  <2>2. \A k \in EvKind : Append(kinds, k) \in Seq(EvKind)
    BY <2>1, AppendProperties
  <2>3. evKinds' = kinds \/ \E k \in EvKind : evKinds' = Append(kinds, k)
    BY <2>1 DEF EvMoves
  <2> QED BY <2>1, <2>2, <2>3
<1>4. EvTypes'
  BY <1>2, <1>3 DEF EvInv, EvTypes, EvMoves
<1>5. RecordsFit'
  BY BundleStays DEF EvInv, RecordsFit
<1>6. \A r \in EvCallers :
          EvCallFits(evCalls[r])' /\ UndisturbedFits(evCalls[r])' /\ EndFits(evCalls[r])'
  BY <1>1, EvCallsStay
<1> QED BY <1>4, <1>5, <1>6 DEF EvInv

\* A further record of a bundle that fits.
LEMMA RecordsGrow ==
    ASSUME EvInv, EvMoves, NEW b \in EvBundle, BundleFits(b)', evRecords' = Append(evRecords, RecordOf(b))
    PROVE  /\ RecordsFit' /\ evRecords' # <<>> /\ Last(evRecords)' = RecordOf(b)
           /\ evRecords' \in Seq([revision: Nat, ledger: Nat, final: BOOLEAN, bundle: EvBundle])
<1>1. PICK rec : /\ rec = RecordOf(b)
                 /\ rec \in [revision: Nat, ledger: Nat, final: BOOLEAN, bundle: EvBundle]
  <2>1. PICK final \in BOOLEAN : final = (b.status = "CLOSED")
    <3>1. (b.status = "CLOSED") \in BOOLEAN
      OBVIOUS
    <3> QED BY <3>1
  <2>2. RecordOf(b) = [revision |-> b.revision, ledger |-> b.ledger, final |-> final, bundle |-> b]
    BY <2>1 DEF RecordOf
  <2> QED BY <2>2 DEF EvBundle
<1>2. PICK s, m : /\ s = evRecords /\ m = Len(s) /\ m \in Nat
                  /\ s \in Seq([revision: Nat, ledger: Nat, final: BOOLEAN, bundle: EvBundle])
  BY LenProperties DEF EvInv, EvTypes
<1>3. PICK new : new = Append(s, rec)
  OBVIOUS
<1>4. /\ new \in Seq([revision: Nat, ledger: Nat, final: BOOLEAN, bundle: EvBundle])
      /\ Len(new) = m + 1 /\ new[m + 1] = rec /\ \A n \in 1..m : new[n] = s[n]
  BY <1>1, <1>2, <1>3, AppendProperties
<1>5. DOMAIN s = 1..m /\ DOMAIN new = 1..(m + 1)
  BY <1>2, <1>4, LenProperties
<1>6. evRecords' = new
  BY <1>1, <1>2, <1>3
<1>7. \A n \in 1..(m + 1) : n \in 1..m \/ n = m + 1
  BY <1>2
<1>8. new # <<>>
  BY <1>2, <1>4, EmptySeq
<1>9. Last(new) = rec
  BY <1>4 DEF Last
<1>10. rec.bundle = b
  BY <1>1 DEF RecordOf
<1>11. ASSUME NEW n \in 1..(m + 1)
       PROVE  BundleFits(new[n].bundle)' /\ new[n] = RecordOf(new[n].bundle)
  <2>1. CASE n \in 1..m
    <3>1. PICK was : was = s[n].bundle /\ was = new[n].bundle
      BY <1>4, <2>1
    <3>2. BundleFits(was) /\ s[n] = RecordOf(was)
      BY <1>2, <1>5, <2>1, <3>1 DEF EvInv, RecordsFit
    <3>3. BundleFits(was)'
      BY <3>2, BundleStays
    <3> QED BY <1>4, <2>1, <3>1, <3>2, <3>3 DEF BundleFits
  <2>2. CASE n = m + 1
    <3>1. new[n] = rec /\ new[n].bundle = b
      BY <1>4, <1>10, <2>2
    <3> QED BY <1>1, <3>1 DEF BundleFits
  <2> QED BY <1>7, <2>1, <2>2
<1>12. RecordsFit'
  BY <1>5, <1>6, <1>11 DEF RecordsFit, BundleFits
<1>13. Last(evRecords)' = rec
  BY <1>6, <1>9
<1> QED BY <1>1, <1>4, <1>6, <1>8, <1>12, <1>13

LEMMA EvOpenWorks ==
    ASSUME EvInv,
           \/ \E kind \in {"control", "task"} : EvWork(kind)
           \/ EvPost \/ EvStage \/ EvCarry \/ EvLeave
    PROVE  EvInv'
<1>1. /\ Len(evKinds) \in Nat /\ evPosted \in Nat /\ evStaged \in Nat /\ evCarried \in Nat
      /\ evStatus \in EvStatus
  BY EvParts
<1>2. ASSUME NEW kind \in {"control", "task"}, EvWork(kind)
      PROVE  EvMoves /\ EvChanged /\ UNCHANGED evRecords /\ ClosedKeepsFinal'
  BY <1>1, <1>2 DEF EvWork, EvMoves, EvKind, ClosedKeepsFinal, EvStatus
<1>3. ASSUME EvPost PROVE EvMoves /\ EvChanged /\ UNCHANGED evRecords /\ ClosedKeepsFinal'
  BY <1>1, <1>3 DEF EvPost, EvMoves, ClosedKeepsFinal, EvStatus
<1>4. ASSUME EvStage \/ EvCarry
      PROVE  EvMoves /\ EvChanged /\ UNCHANGED evRecords /\ ClosedKeepsFinal'
  <2>1. evStaged' \in Nat /\ evCarried' \in Nat
    BY <1>1, <1>4 DEF EvStage, EvCarry
  <2>2. UNCHANGED <<evStatus, evKinds, evPosted, evRecords>> /\ EvChanged
    BY <1>4 DEF EvStage, EvCarry
  <2> QED BY <1>1, <2>1, <2>2 DEF EvMoves, EvInv, ClosedKeepsFinal
<1>5. ASSUME EvLeave PROVE EvMoves /\ EvChanged /\ UNCHANGED evRecords /\ ClosedKeepsFinal'
  <2>1. /\ evStatus' \in {"IN_PROGRESS", "READY_FOR_APPROVAL"} /\ evKinds' = Append(evKinds, "move")
        /\ EvChanged /\ UNCHANGED <<evPosted, evStaged, evCarried, evRecords>>
    BY <1>5 DEF EvLeave, EvMove
  <2> QED BY <1>1, <2>1 DEF EvMoves, EvKind, ClosedKeepsFinal, EvStatus, EvBegun
<1> QED BY <1>2, <1>3, <1>4, <1>5, EvWorldMoves

\* A move counts as neither a control nor a task.
LEMMA MoveCounts ==
    ASSUME NEW kinds \in Seq(EvKind), NEW kind \in {"control", "task"}
    PROVE  CountOf(Append(kinds, "move"), Len(kinds) + 1, kind) = CountOf(kinds, Len(kinds), kind)
<1>1. PICK k, m : k = Append(kinds, "move") /\ m = Len(kinds) /\ m \in Nat
  BY LenProperties
<1>2. k[m + 1] = "move" /\ \A n \in 1..m : k[n] = kinds[n]
  BY <1>1, AppendProperties
<1>3. \A n \in 1..(m + 1) : n \in 1..m \/ n = m + 1
  BY <1>1
<1>4. \A n \in 1..m : n \in 1..(m + 1)
  BY <1>1
<1>5. {n \in 1..(m + 1) : k[n] = kind} = {n \in 1..m : kinds[n] = kind}
  BY <1>2, <1>3, <1>4
<1> QED BY <1>1, <1>5 DEF CountOf

LEMMA EvCloses ==
    ASSUME EvInv, EvClose
    PROVE  EvInv'
<1>1. /\ Len(evKinds) \in Nat /\ evPosted \in Nat /\ evStaged \in Nat /\ evCarried \in Nat
      /\ evKinds \in Seq(EvKind)
  BY EvParts
<1>2. PICK m : m = Len(evKinds) /\ m \in Nat
  BY <1>1
<1>3. /\ evStatus' = "CLOSED" /\ evKinds' = Append(evKinds, "move") /\ EvChanged
      /\ UNCHANGED <<evPosted, evStaged, evCarried>>
  BY DEF EvClose, EvMove
<1>4. EvMoves
  BY <1>1, <1>3 DEF EvMoves, EvKind, EvStatus
<1>5. Len(evKinds') = m + 1 /\ evKinds' \in Seq(EvKind)
  BY <1>1, <1>2, <1>3, AppendProperties DEF EvKind
<1>6. PICK seen : seen = WholeOf(evKinds', m + 1, evPosted, evStaged, evCarried)
  OBVIOUS
<1>7. PICK b : b = [status |-> "CLOSED", revision |-> m + 1, ledger |-> evPosted, seen |-> seen]
  OBVIOUS
<1>8. b \in EvBundle
  <2>1. m + 1 \in Nat
    BY <1>2
  <2>2. PICK k : k = evKinds'
    OBVIOUS
  <2>3. WholeOf(k, m + 1, evPosted, evStaged, evCarried) \in [EvSections -> EvValue]
    BY <1>1, <2>1, SectionType
  <2>4. seen \in [EvSections -> EvValue]
    BY <1>6, <2>2, <2>3 DEF WholeOf, SectionOf
  <2> QED BY <1>1, <1>7, <2>1, <2>4 DEF EvBundle, EvStatus
<1>9. evRecords' = Append(evRecords, RecordOf(b))
  <2>1. PICK bundle : bundle = BundleAtOnce("CLOSED", m + 1)
    OBVIOUS
  <2>2. evRecords' = Append(evRecords, RecordOf([bundle EXCEPT !.seen["audit"] = @ + 1]))
    BY <1>2, <2>1 DEF EvClose
  <2>3. PICK old : old = [s \in EvSections |-> Shown(s, m + 1, evPosted)]
    OBVIOUS
  <2>4. bundle = [status |-> "CLOSED", revision |-> m + 1, ledger |-> evPosted, seen |-> old]
    BY <2>1, <2>3 DEF BundleAtOnce
  <2>5. [bundle EXCEPT !.seen["audit"] = @ + 1]
        = [status |-> "CLOSED", revision |-> m + 1, ledger |-> evPosted,
           seen |-> [old EXCEPT !["audit"] = @ + 1]]
    BY <2>4
  <2>6. [old EXCEPT !["audit"] = @ + 1] = seen
    <3>1. /\ CountOf(evKinds', m + 1, "control") = CountOf(evKinds, m, "control")
          /\ CountOf(evKinds', m + 1, "task") = CountOf(evKinds, m, "task")
      BY <1>1, <1>2, <1>3, MoveCounts
    <3>2. \A s \in EvSections : old[s] = SectionOf(evKinds, s, m, evPosted, evStaged, evCarried)
      BY <1>2, <2>3, ShownNow DEF EvInv
    <3>3. old["audit"] = m
      BY <3>2 DEF SectionOf, EvSections
    <3>4. \A s \in EvSections \ {"audit"} :
              SectionOf(evKinds, s, m, evPosted, evStaged, evCarried)
              = SectionOf(evKinds', s, m + 1, evPosted, evStaged, evCarried)
      BY <3>1 DEF SectionOf, EvSections
    <3>5. SectionOf(evKinds', "audit", m + 1, evPosted, evStaged, evCarried) = m + 1
      BY DEF SectionOf
    <3>6. seen = [s \in EvSections |-> SectionOf(evKinds', s, m + 1, evPosted, evStaged, evCarried)]
      BY <1>6 DEF WholeOf
    <3>7. DOMAIN old = EvSections /\ "audit" \in EvSections
      BY <2>3 DEF EvSections
    <3>8. \A s \in EvSections : [old EXCEPT !["audit"] = @ + 1][s] = seen[s]
      BY <3>2, <3>3, <3>4, <3>5, <3>6, <3>7
    <3> QED BY <2>3, <3>6, <3>8
  <2> QED BY <1>7, <2>2, <2>5, <2>6
<1>10. BundleFits(b)'
  <2>1. /\ b.revision = m + 1 /\ b.ledger = evPosted /\ b.status = "CLOSED" /\ b.seen = seen
    BY <1>7
  <2>2. m + 1 \in 0..Len(evKinds') /\ evPosted \in 0..evPosted'
    BY <1>1, <1>2, <1>3, <1>5
  <2>3. \E x, y \in Nat : b = [status |-> b.status, revision |-> b.revision, ledger |-> b.ledger,
                               seen |-> WholeOf(evKinds', b.revision, b.ledger, x, y)]
    BY <1>1, <1>6, <1>7, <2>1
  <2> QED BY <1>3, <1>7, <2>1, <2>2, <2>3 DEF BundleFits, EvStatus
<1>11. /\ RecordsFit' /\ evRecords' # <<>> /\ Last(evRecords)' = RecordOf(b)
       /\ evRecords' \in Seq([revision: Nat, ledger: Nat, final: BOOLEAN, bundle: EvBundle])
  BY <1>4, <1>8, <1>9, <1>10, RecordsGrow
<1>12. ClosedKeepsFinal'
  <2>1. /\ RecordOf(b).revision = Len(evKinds') /\ RecordOf(b).ledger = evPosted'
        /\ RecordOf(b).final = TRUE
    BY <1>3, <1>5, <1>7 DEF RecordOf
  <2>2. PICK last : last = RecordOf(b)
    OBVIOUS
  <2>3. Last(evRecords)' = last
    BY <1>11, <2>2
  <2>4. IsCurrent(last, "CLOSED", Len(evKinds'), evPosted')
    BY <2>1, <2>2 DEF IsCurrent
  <2> QED BY <1>11, <2>3, <2>4 DEF ClosedKeepsFinal, IsCurrent, Last
<1>13. \A r \in EvCallers : evCalls'[r] = Disturbed(evCalls)[r] /\ evCalls'[r] \in EvCallType
  BY <1>3, DisturbedType DEF EvChanged
<1>14. evCalls' \in [EvCallers -> EvCallType]
  BY <1>3, <1>13 DEF EvChanged, Disturbed
<1>15. EvTypes'
  BY <1>1, <1>3, <1>5, <1>11, <1>14 DEF EvTypes, EvStatus
<1>16. \A r \in EvCallers :
          EvCallFits(evCalls[r])' /\ UndisturbedFits(evCalls[r])' /\ EndFits(evCalls[r])'
  BY <1>4, <1>9, <1>13, EvCallsStay
<1> QED BY <1>11, <1>12, <1>15, <1>16 DEF EvInv


\* A request comes to its end, or to rest; it keeps nothing that it has read.
LEMMA EvEnds ==
    ASSUME EvInv, NEW r \in EvCallers, EvStays, UNCHANGED evRecords,
           NEW step \in {"stale", "closed", "exceeded", "idle"}, EvEnd(r, step)
    PROVE  EvInv'
<1>1. PICK idle : idle = EvIdle
  OBVIOUS
<1>2. /\ idle \in EvCallType /\ ~idle.disturbed
      /\ idle.revision = 0 /\ idle.ledger = 0 /\ ~idle.download
  BY <1>1, EvStart
<1>3. Len(evKinds) \in Nat /\ evPosted \in Nat
  BY EvParts
<1>4. PICK new : new = [idle EXCEPT !.step = step]
  OBVIOUS
<1>5. /\ new \in EvCallType /\ new.step = step /\ new.revision = 0 /\ new.ledger = 0
      /\ ~new.download
  BY <1>2, <1>4 DEF EvCallType, EvStep
<1>6. EvNow(r, new)
  BY <1>1, <1>4 DEF EvEnd
<1>7. EvCallFits(new)
  <2>1. new.step \notin EvWorking
    BY <1>5 DEF EvWorking, EvSections
  <2>2. new.revision <= Len(evKinds) /\ new.ledger <= evPosted
    <3>1. 0 <= Len(evKinds) /\ 0 <= evPosted
      BY <1>3
    <3> QED BY <1>5, <3>1
  <2> QED BY <2>1, <2>2 DEF EvCallFits
<1>8. UndisturbedFits(new)
  BY <1>5 DEF UndisturbedFits, EvWorking, EvSections
<1>9. EndFits(new)
  BY <1>5 DEF EndFits, EvSections
<1> QED BY <1>5, <1>6, <1>7, <1>8, <1>9, EvCallMoves

\* A request that something has disturbed may be refused.
LEMMA EvRefuses ==
    ASSUME EvInv, NEW r \in EvCallers, EvStays, UNCHANGED evRecords,
           evCalls[r].disturbed = TRUE, EvRefuse(r)
    PROVE  EvInv'
<1>1. PICK idle : idle = EvIdle
  OBVIOUS
<1>2. /\ idle \in EvCallType /\ ~idle.disturbed
      /\ idle.revision = 0 /\ idle.ledger = 0 /\ ~idle.download
  BY <1>1, EvStart
<1>3. Len(evKinds) \in Nat /\ evPosted \in Nat
  BY EvParts
<1>4. PICK new : new = [idle EXCEPT !.step = "refused", !.disturbed = TRUE]
  OBVIOUS
<1>5. /\ new \in EvCallType /\ new.step = "refused" /\ new.revision = 0 /\ new.ledger = 0
      /\ ~new.download /\ new.disturbed
  BY <1>2, <1>4 DEF EvCallType, EvStep
<1>6. EvNow(r, new)
  BY <1>1, <1>4 DEF EvRefuse
<1>7. EvCallFits(new)
  BY <1>3, <1>5 DEF EvCallFits, EvWorking, EvSections
<1>8. UndisturbedFits(new)
  BY <1>5 DEF UndisturbedFits, EvWorking, EvSections
<1>9. EndFits(new)
  BY <1>5 DEF EndFits, EvSections
<1> QED BY <1>5, <1>6, <1>7, <1>8, <1>9, EvCallMoves

LEMMA EvAsks ==
    ASSUME EvInv, NEW r \in EvCallers, NEW download \in BOOLEAN, EvAsk(r, download)
    PROVE  EvInv'
<1>1. PICK idle : idle = EvIdle
  OBVIOUS
<1>2. idle \in EvCallType /\ ~idle.disturbed /\ idle.ledger = 0 /\ DOMAIN idle.seen = {}
  BY <1>1, EvStart
<1>3. Len(evKinds) \in Nat /\ evPosted \in Nat /\ evStatus \in EvStatus
  BY EvParts
<1>4. PICK new : new = [idle EXCEPT !.step = "period", !.download = download, !.status = evStatus,
                                    !.revision = Len(evKinds)]
  OBVIOUS
<1>5. /\ new \in EvCallType /\ new.step = "period" /\ new.status = evStatus
      /\ new.revision = Len(evKinds) /\ new.ledger = 0 /\ DOMAIN new.seen = {}
  BY <1>2, <1>3, <1>4 DEF EvCallType, EvStep
<1>6. EvNow(r, new) /\ EvStays /\ UNCHANGED evRecords
  BY <1>1, <1>4 DEF EvAsk
<1>7. EvCallFits(new) /\ UndisturbedFits(new) /\ EndFits(new)
  BY <1>3, <1>5 DEF EvCallFits, UndisturbedFits, EndFits, EvSections, ReadBefore
<1> QED BY <1>5, <1>6, <1>7, EvCallMoves

LEMMA EvReadsPeriod ==
    ASSUME EvInv, NEW r \in EvCallers, EvReadPeriod(r)
    PROVE  EvInv'
<1>1. PICK c : c = evCalls[r]
  OBVIOUS
<1>2. /\ c \in EvCallType /\ c.step = "period" /\ EvCallFits(c) /\ UndisturbedFits(c)
      /\ Len(evKinds) \in Nat /\ evPosted \in Nat
  BY <1>1, EvParts DEF EvInv, EvReadPeriod, EvAt
<1>3. PICK next : next = IF c.download THEN "record" ELSE "readiness"
  OBVIOUS
<1>4. PICK new : new = [c EXCEPT !.ledger = evPosted, !.step = next]
  OBVIOUS
<1>5. /\ new \in EvCallType /\ new.step = next /\ new.ledger = evPosted /\ new.status = c.status
      /\ new.revision = c.revision /\ new.seen = c.seen /\ new.disturbed = c.disturbed
      /\ new.download = c.download /\ next \in {"record", "readiness"}
      /\ (next = "readiness" => ~c.download)
  BY <1>2, <1>3, <1>4 DEF EvCallType, EvStep, EvSections
<1>6. EvNow(r, new) /\ EvStays /\ UNCHANGED evRecords
  BY <1>1, <1>3, <1>4 DEF EvReadPeriod
<1>7. DOMAIN new.seen = {}
  BY <1>2, <1>5 DEF EvCallFits, EvWorking, ReadBefore
<1>8. EvCallFits(new)
  <2>1. new.revision <= Len(evKinds) /\ new.ledger <= evPosted
    BY <1>2, <1>5 DEF EvCallFits
  <2>2. ReadBefore(next) = {}
    BY <1>5 DEF ReadBefore
  <2> QED BY <1>5, <1>7, <2>1, <2>2 DEF EvCallFits
<1>9. UndisturbedFits(new)
  BY <1>2, <1>5 DEF UndisturbedFits, EvWorking
<1>10. EndFits(new)
  BY <1>5 DEF EndFits, EvSections
<1> QED BY <1>5, <1>6, <1>8, <1>9, <1>10, EvCallMoves

LEMMA EvFindsRecord ==
    ASSUME EvInv, NEW r \in EvCallers, EvFindRecord(r)
    PROVE  EvInv'
<1>1. PICK c : c = evCalls[r]
  OBVIOUS
<1>2. /\ c \in EvCallType /\ c.step = "record" /\ EvCallFits(c) /\ UndisturbedFits(c)
      /\ Len(evRecords) \in Nat /\ DOMAIN evRecords = 1..Len(evRecords)
      /\ EvStays /\ UNCHANGED evRecords
  BY <1>1, EvParts DEF EvInv, EvFindRecord, EvAt
<1>3. CASE evRecords # <<>> /\ IsCurrent(Last(evRecords), c.status, c.revision, c.ledger)
  <2>1. PICK n : n = Len(evRecords) /\ n \in 1..Len(evRecords) /\ n \in Nat
    <3>1. PICK S, s : s = evRecords /\ s \in Seq(S)
      BY DEF EvInv, EvTypes
    <3>2. s # <<>> => Len(s) # 0
      BY <3>1, EmptySeq
    <3> QED BY <1>2, <1>3, <3>1, <3>2
  <2>2. PICK new : new = [c EXCEPT !.record = n, !.step = "readiness"]
    OBVIOUS
  <2>3. /\ new \in EvCallType /\ new.step = "readiness" /\ new.ledger = c.ledger
        /\ new.status = c.status /\ new.revision = c.revision /\ new.seen = c.seen
        /\ new.disturbed = c.disturbed /\ new.download = c.download /\ new.record = n
    BY <1>2, <2>1, <2>2 DEF EvCallType, EvStep, EvSections
  <2>4. EvNow(r, new)
    BY <1>1, <1>3, <2>1, <2>2 DEF EvFindRecord
  <2>5. EvCallFits(new)
    BY <1>2, <2>3 DEF EvCallFits, EvWorking, EvSections, ReadBefore
  <2>6. UndisturbedFits(new)
    BY <1>2, <1>3, <2>1, <2>3 DEF UndisturbedFits, EvWorking
  <2>7. EndFits(new)
    BY <2>1, <2>3 DEF EndFits
  <2> QED BY <1>2, <2>3, <2>4, <2>5, <2>6, <2>7, EvCallMoves
<1>4. CASE ~(evRecords # <<>> /\ IsCurrent(Last(evRecords), c.status, c.revision, c.ledger))
  <2>1. EvEnd(r, "stale")
    BY <1>1, <1>4 DEF EvFindRecord
  <2> QED BY <1>2, <2>1, EvEnds
<1> QED BY <1>3, <1>4

\* The sections that are read are those before the step, and the one of the step itself.
LEMMA ReadsOn ==
    ASSUME NEW section \in EvSections
    PROVE  /\ ReadBefore(EvFollowing(section)) = ReadBefore(section) \cup {section}
           /\ EvFollowing(section) \in EvSections \cup {"built"}
           /\ EvFollowing(section) \in EvStep
           /\ ReadBefore(section) \subseteq EvSections
  BY DEF ReadBefore, EvFollowing, EvSections, EvStep

LEMMA EvReadsSection ==
    ASSUME EvInv, NEW r \in EvCallers, EvRead(r)
    PROVE  EvInv'
<1>1. PICK c : c = evCalls[r]
  OBVIOUS
<1>2. PICK section : section = c.step /\ section \in EvSections
  BY <1>1 DEF EvRead
<1>3. /\ c \in EvCallType /\ EvCallFits(c) /\ UndisturbedFits(c) /\ EndFits(c)
      /\ EvStays /\ UNCHANGED evRecords
  BY <1>1, EvParts DEF EvInv, EvRead
<1>4. PICK m, p : m = Len(evKinds) /\ m \in Nat /\ p = evPosted /\ p \in Nat
  BY EvParts
<1>5. c.step \in EvWorking /\ section \notin {"period", "record"}
  BY <1>2 DEF EvWorking, EvSections
<1>6. PICK value : value = Shown(section, c.revision, c.ledger)
  OBVIOUS
<1>7. value \in EvValue /\ value = SectionOf(evKinds, section, m, p, evStaged, evCarried)
  BY <1>2, <1>4, <1>6, ShownNow DEF EvInv
<1>8. PICK seen : seen = [s \in DOMAIN c.seen \cup {section} |->
                             IF s = section THEN value ELSE c.seen[s]]
  OBVIOUS
<1>9. PICK S \in SUBSET EvSections : c.seen \in [S -> EvValue]
  BY <1>3 DEF EvCallType
<1>10. S = ReadBefore(section) /\ DOMAIN c.seen = S
  BY <1>2, <1>3, <1>5, <1>9 DEF EvCallFits
<1>11. /\ seen \in [S \cup {section} -> EvValue] /\ DOMAIN seen = S \cup {section}
       /\ S \cup {section} \in SUBSET EvSections
       /\ seen[section] = value /\ \A s \in S : s # section => seen[s] = c.seen[s]
  BY <1>2, <1>7, <1>8, <1>9, <1>10
<1>12. ASSUME section = "checklist", value > c.seen["tasks"][1]
       PROVE  c.disturbed = TRUE
  <2>1. SUFFICES ASSUME ~c.disturbed PROVE FALSE
    BY <1>3 DEF EvCallType
  <2>2. c.revision = m /\ c.ledger = p
    BY <1>2, <1>3, <1>4, <1>5, <2>1 DEF UndisturbedFits
  <2>3. "tasks" \in DOMAIN c.seen
    BY <1>10, <1>12 DEF ReadBefore
  <2>4. PICK x \in Nat, y \in Nat : c.seen["tasks"] = SectionOf(evKinds, "tasks", m, p, x, y)
    BY <1>3, <1>4, <1>5, <2>2, <2>3 DEF EvCallFits
  <2>5. PICK n : n = CountOf(evKinds, m, "task") /\ n \in Nat
    BY <1>4, CountType
  <2>6. c.seen["tasks"] = <<n, "CURRENT">>
    BY <2>4, <2>5 DEF SectionOf
  <2>7. value = n
    BY <1>7, <1>12, <2>5 DEF SectionOf
  <2> QED BY <1>12, <2>5, <2>6, <2>7
<1>13. ASSUME EvNow(r, [c EXCEPT !.seen = seen, !.step = EvFollowing(section)])
       PROVE  EvInv'
  <2>1. PICK next : next = EvFollowing(section)
    OBVIOUS
  <2>2. /\ next \in EvSections \cup {"built"} /\ next \in EvStep
        /\ ReadBefore(next) = S \cup {section}
    BY <1>2, <1>10, <2>1, ReadsOn
  <2>3. PICK new : new = [c EXCEPT !.seen = seen, !.step = next]
    OBVIOUS
  <2>4. seen \in UNION {[T -> EvValue] : T \in SUBSET EvSections}
    BY <1>11
  <2>5. /\ new \in EvCallType /\ new.step = next /\ new.seen = seen /\ new.status = c.status
        /\ new.revision = c.revision /\ new.ledger = c.ledger /\ new.record = c.record
        /\ new.disturbed = c.disturbed /\ new.download = c.download
    BY <1>3, <2>2, <2>3, <2>4 DEF EvCallType
  <2>6. EvNow(r, new)
    BY <1>13, <2>1, <2>3
  <2>7. EvCallFits(new)
    <3>1. new.revision <= Len(evKinds) /\ new.ledger <= evPosted
      BY <1>3, <2>5 DEF EvCallFits
    <3>2. DOMAIN new.seen = ReadBefore(new.step)
      BY <1>11, <2>2, <2>5
    <3>3. ASSUME c.revision = m, c.ledger = p, NEW s \in S \cup {section}
          PROVE  \E x, y \in Nat : seen[s] = SectionOf(evKinds, s, m, p, x, y)
      <4>1. CASE s = section
        <5>1. evStaged \in Nat /\ evCarried \in Nat
          BY EvParts
        <5> QED BY <1>7, <1>11, <4>1, <5>1
      <4>2. CASE s # section
        <5>1. s \in DOMAIN c.seen /\ seen[s] = c.seen[s]
          BY <1>10, <1>11, <3>3, <4>2
        <5>2. \E x, y \in Nat : c.seen[s] = SectionOf(evKinds, s, m, p, x, y)
          BY <1>3, <1>4, <1>5, <3>3, <5>1 DEF EvCallFits
        <5> QED BY <5>1, <5>2
      <4> QED BY <4>1, <4>2
    <3>4. ASSUME new.revision = Len(evKinds), new.ledger = evPosted, NEW s \in DOMAIN new.seen
          PROVE  \E x, y \in Nat :
                     new.seen[s] = SectionOf(evKinds, s, new.revision, new.ledger, x, y)
      <4>1. s \in S \cup {section}
        BY <1>11, <2>5, <3>4
      <4>2. new.revision = m /\ new.ledger = p /\ c.revision = m /\ c.ledger = p
        BY <1>4, <2>5, <3>4
      <4>3. \E x, y \in Nat : seen[s] = SectionOf(evKinds, s, m, p, x, y)
        BY <3>3, <4>1, <4>2
      <4> QED BY <2>5, <4>2, <4>3
    <3> QED BY <3>1, <3>2, <3>4 DEF EvCallFits
  <2>8. UndisturbedFits(new)
    <3>1. ASSUME ~c.disturbed
          PROVE  /\ c.status = evStatus /\ c.revision = Len(evKinds) /\ c.ledger = evPosted
                 /\ c.download => /\ c.record = Len(evRecords)
                                  /\ IsCurrent(Last(evRecords), c.status, c.revision, c.ledger)
      BY <1>2, <1>3, <1>5, <3>1 DEF UndisturbedFits
    <3> QED BY <2>5, <3>1 DEF UndisturbedFits
  <2>9. EndFits(new)
    <3>1. c.download => c.record \in 1..Len(evRecords)
      BY <1>2, <1>3 DEF EndFits
    <3>2. next \notin {"refused", "served", "differs"}
      BY <2>2 DEF EvSections
    <3> QED BY <2>5, <3>1, <3>2 DEF EndFits
  <2> QED BY <1>3, <2>5, <2>6, <2>7, <2>8, <2>9, EvCallMoves
<1>14. PICK unknown \in BOOLEAN :
           unknown = (section = "checklist" /\ value > c.seen["tasks"][1])
  <2>1. (section = "checklist" /\ value > c.seen["tasks"][1]) \in BOOLEAN
    OBVIOUS
  <2> QED BY <2>1
<1>15. CASE unknown
  <2>1. EvRefuse(r)
    BY <1>1, <1>2, <1>6, <1>14, <1>15 DEF EvRead
  <2>2. evCalls[r].disturbed = TRUE
    BY <1>1, <1>12, <1>14, <1>15
  <2> QED BY <1>3, <2>1, <2>2, EvRefuses
<1>16. CASE ~unknown
  <2>1. \/ EvEnd(r, "exceeded")
        \/ EvNow(r, [c EXCEPT !.seen = seen, !.step = EvFollowing(section)])
    BY <1>1, <1>2, <1>6, <1>8, <1>14, <1>16 DEF EvRead
  <2>2. ASSUME EvEnd(r, "exceeded") PROVE EvInv'
    BY <1>3, <2>2, EvEnds
  <2> QED BY <1>13, <2>1, <2>2
<1> QED BY <1>15, <1>16

\* A bundle that is built, and nothing has changed since that a revision counts, is whole.
LEMMA BuiltIsWhole ==
    ASSUME EvInv, NEW c \in EvCallType, EvCallFits(c), c.step = "built",
           c.revision = Len(evKinds), c.ledger = evPosted
    PROVE  \E x, y \in Nat : c.seen = WholeOf(evKinds, c.revision, c.ledger, x, y)
<1>1. PICK m, p : m = Len(evKinds) /\ m \in Nat /\ p = evPosted /\ p \in Nat
  BY EvParts
<1>2. c.revision = m /\ c.ledger = p
  BY <1>1
<1>3. c.step \in EvWorking /\ ReadBefore(c.step) = EvSections
  BY DEF EvWorking, ReadBefore, EvSections
<1>4. DOMAIN c.seen = EvSections
  BY <1>3 DEF EvCallFits
<1>5. \A s \in EvSections : \E x, y \in Nat : c.seen[s] = SectionOf(evKinds, s, m, p, x, y)
  BY <1>1, <1>2, <1>3, <1>4 DEF EvCallFits
<1>6. PICK x \in Nat : \E y \in Nat : c.seen["readiness"] = SectionOf(evKinds, "readiness", m, p, x, y)
  BY <1>5 DEF EvSections
<1>7. PICK y \in Nat : \E z \in Nat : c.seen["balance"] = SectionOf(evKinds, "balance", m, p, z, y)
  BY <1>5 DEF EvSections
<1>8. ASSUME NEW s \in EvSections PROVE c.seen[s] = SectionOf(evKinds, s, m, p, x, y)
  <2>1. CASE s = "readiness"
    BY <1>6, <2>1 DEF SectionOf
  <2>2. CASE s = "balance"
    BY <1>7, <2>2 DEF SectionOf
  <2>3. CASE s \notin {"readiness", "balance"}
    <3>1. PICK v \in Nat, w \in Nat : c.seen[s] = SectionOf(evKinds, s, m, p, v, w)
      BY <1>5
    <3> QED BY <2>3, <3>1 DEF SectionOf, EvSections
  <2> QED BY <2>1, <2>2, <2>3
<1>9. c.seen = [s \in EvSections |-> c.seen[s]]
  <2>1. PICK T \in SUBSET EvSections : c.seen \in [T -> EvValue]
    BY DEF EvCallType
  <2> QED BY <1>4, <2>1
<1>10. c.seen = WholeOf(evKinds, m, p, x, y)
  BY <1>8, <1>9 DEF WholeOf
<1> QED BY <1>2, <1>10

LEMMA EvRecords ==
    ASSUME EvInv, NEW r \in EvCallers, EvRecord(r)
    PROVE  EvInv'
<1>1. PICK c : c = evCalls[r]
  OBVIOUS
<1>2. /\ c \in EvCallType /\ EvCallFits(c) /\ UndisturbedFits(c) /\ c.step = "built"
      /\ EvStays
  BY <1>1, EvParts DEF EvInv, EvRecord, EvAt
<1>3. CASE EvEnd(r, "closed") /\ UNCHANGED evRecords
  BY <1>2, <1>3, EvEnds
<1>4. CASE /\ c.status # evStatus \/ c.revision # Len(evKinds) \/ c.ledger # evPosted
           /\ EvRefuse(r) /\ UNCHANGED evRecords
  <2>1. c.disturbed
    BY <1>2, <1>4 DEF UndisturbedFits, EvWorking
  <2>2. evCalls[r].disturbed = TRUE
    BY <1>1, <1>2, <2>1 DEF EvCallType
  <2> QED BY <1>2, <1>4, <2>2, EvRefuses
<1>5. ASSUME evStatus # "CLOSED", c.status = evStatus, c.revision = Len(evKinds),
             c.ledger = evPosted, evRecords' = Append(evRecords, RecordOf(BundleOf(c))),
             EvRecorded(r)
      PROVE  EvInv'
  <2>1. /\ evStatus \in EvStatus /\ Len(evKinds) \in Nat /\ evPosted \in Nat
        /\ evStaged \in Nat /\ evCarried \in Nat
    BY EvParts
  <2>2. UNCHANGED <<evStatus, evKinds, evPosted, evStaged, evCarried>>
    BY <1>2 DEF EvStays
  <2>3. EvMoves
    BY <2>1, <2>2 DEF EvMoves
  <2>4. PICK b : b = BundleOf(c)
    OBVIOUS
  <2>5. PICK x \in Nat, y \in Nat : c.seen = WholeOf(evKinds, c.revision, c.ledger, x, y)
    BY <1>2, <1>5, BuiltIsWhole
  <2>6. c.seen \in [EvSections -> EvValue]
    BY <1>2, <2>5, SectionType DEF EvCallType
  <2>7. /\ b = [status |-> c.status, revision |-> c.revision, ledger |-> c.ledger, seen |-> c.seen]
        /\ b.status = c.status /\ b.revision = c.revision /\ b.ledger = c.ledger
        /\ b.seen = c.seen
    BY <2>4 DEF BundleOf
  <2>8. b \in EvBundle
    BY <1>2, <1>5, <2>1, <2>6, <2>7 DEF EvBundle, EvCallType
  <2>9. BundleFits(b)
    <3>1. b.revision \in 0..Len(evKinds) /\ b.ledger \in 0..evPosted /\ b.status \in EvStatus
      BY <1>5, <2>1, <2>7
    <3>2. b.status = evStatus
      BY <1>5, <2>7
    <3>3. b = [status |-> b.status, revision |-> b.revision, ledger |-> b.ledger,
               seen |-> WholeOf(evKinds, b.revision, b.ledger, x, y)]
      BY <2>5, <2>7
    <3> QED BY <3>1, <3>2, <3>3 DEF BundleFits
  <2>10. BundleFits(b)'
    BY <2>3, <2>9, BundleStays
  <2>11. evRecords' = Append(evRecords, RecordOf(b))
    BY <1>5, <2>4
  <2>12. /\ RecordsFit'
         /\ evRecords' \in Seq([revision: Nat, ledger: Nat, final: BOOLEAN, bundle: EvBundle])
    BY <2>3, <2>8, <2>10, <2>11, RecordsGrow
  <2>13. ClosedKeepsFinal'
    BY <1>5, <2>2 DEF ClosedKeepsFinal
  <2>14. PICK idle : idle = EvIdle
    OBVIOUS
  <2>15. idle \in EvCallType /\ idle.step = "idle" /\ idle.revision = 0 /\ idle.ledger = 0
    BY <2>14, EvStart
  <2>16. evCalls' = [Disturbed(evCalls) EXCEPT ![r] = idle]
    BY <1>5, <2>14 DEF EvRecorded
  <2>17. PICK all : all = Disturbed(evCalls) /\ DOMAIN all = EvCallers
    <3>1. DOMAIN Disturbed(evCalls) = EvCallers
      BY DEF Disturbed
    <3> QED BY <3>1
  <2>18. /\ evCalls'[r] = idle /\ \A q \in EvCallers : q # r => evCalls'[q] = all[q]
         /\ DOMAIN evCalls' = EvCallers /\ evCalls' = [q \in EvCallers |-> evCalls'[q]]
    BY <2>16, <2>17
  <2>19. \A q \in EvCallers : all[q] \in EvCallType
    BY <2>17, DisturbedType
  <2>20. evCalls' \in [EvCallers -> EvCallType]
    BY <2>15, <2>18, <2>19
  <2>21. evKinds' \in Seq(EvKind)
    BY <2>2 DEF EvInv, EvTypes
  <2>22. EvTypes'
    BY <2>1, <2>2, <2>12, <2>20, <2>21 DEF EvTypes
  <2>23. ASSUME NEW q \in EvCallers, q # r
         PROVE  EvCallFits(evCalls[q])' /\ UndisturbedFits(evCalls[q])' /\ EndFits(evCalls[q])'
    <3>1. evCalls'[q] = Disturbed(evCalls)[q]
      BY <2>17, <2>18, <2>23
    <3> QED BY <2>3, <2>11, <3>1, EvCallsStay
  <2>24. EvCallFits(evCalls[r])' /\ UndisturbedFits(evCalls[r])' /\ EndFits(evCalls[r])'
    <3>1. idle.step \notin EvWorking
      BY <2>15 DEF EvWorking, EvSections
    <3>2. PICK m \in Nat : m = Len(evKinds')
      BY <2>1, <2>2
    <3>3. idle.revision <= Len(evKinds') /\ idle.ledger <= evPosted'
      BY <2>1, <2>2, <2>15, <3>2
    <3>4. EvCallFits(evCalls[r])'
      BY <2>18, <3>1, <3>3 DEF EvCallFits
    <3>5. UndisturbedFits(evCalls[r])'
      BY <2>18, <3>1 DEF UndisturbedFits
    <3>6. EndFits(evCalls[r])'
      BY <2>15, <2>18, <3>1 DEF EndFits, EvWorking
    <3> QED BY <3>4, <3>5, <3>6
  <2>25. \A q \in EvCallers :
             EvCallFits(evCalls[q])' /\ UndisturbedFits(evCalls[q])' /\ EndFits(evCalls[q])'
    BY <2>23, <2>24
  <2> QED BY <2>12, <2>13, <2>22, <2>25 DEF EvInv
<1> QED BY <1>1, <1>3, <1>4, <1>5 DEF EvRecord

LEMMA EvServes ==
    ASSUME EvInv, NEW r \in EvCallers, EvServe(r)
    PROVE  EvInv'
<1>1. PICK c : c = evCalls[r]
  OBVIOUS
<1>2. /\ c \in EvCallType /\ EvCallFits(c) /\ UndisturbedFits(c) /\ EndFits(c)
      /\ c.step = "built" /\ c.download /\ EvStays /\ UNCHANGED evRecords
  BY <1>1, EvParts DEF EvInv, EvServe, EvAt
<1>3. c.record \in 1..Len(evRecords) /\ Len(evRecords) \in Nat
  BY <1>2, EvParts DEF EndFits
<1>4. PICK last : last = Last(evRecords) /\ last = evRecords[Len(evRecords)]
  BY DEF Last
<1>5. PICK current \in BOOLEAN :
          current = (/\ Len(evRecords) = c.record
                     /\ IsCurrent(last, evStatus, Len(evKinds), evPosted)
                     /\ IsCurrent(last, c.status, c.revision, c.ledger)
                     /\ BundleOf(c) = last.bundle)
  <2>1. (/\ Len(evRecords) = c.record
         /\ IsCurrent(last, evStatus, Len(evKinds), evPosted)
         /\ IsCurrent(last, c.status, c.revision, c.ledger)
         /\ BundleOf(c) = last.bundle) \in BOOLEAN
    BY DEF IsCurrent
  <2> QED BY <2>1
<1>6. ASSUME NEW next \in {"served", "differs"}, EvNow(r, [c EXCEPT !.step = next]),
             next = "served" => current, next = "differs" => ~current /\ ~c.disturbed
      PROVE  EvInv'
  <2>1. PICK new : new = [c EXCEPT !.step = next]
    OBVIOUS
  <2>2. /\ new \in EvCallType /\ new.step = next /\ new.seen = c.seen /\ new.status = c.status
        /\ new.revision = c.revision /\ new.ledger = c.ledger /\ new.record = c.record
    BY <1>2, <1>6, <2>1 DEF EvCallType, EvStep
  <2>3. EvNow(r, new)
    BY <1>6, <2>1
  <2>4. new.step \notin EvWorking
    BY <1>6, <2>2 DEF EvWorking, EvSections
  <2>5. EvCallFits(new)
    BY <1>2, <2>2, <2>4 DEF EvCallFits
  <2>6. UndisturbedFits(new)
    BY <2>4 DEF UndisturbedFits
  <2>7. ASSUME next = "served"
        PROVE  BundleOf(new) = evRecords[new.record].bundle
    <3>1. BundleOf(c) = last.bundle /\ Len(evRecords) = c.record
      BY <1>5, <1>6, <2>7
    <3> QED BY <1>4, <2>2, <3>1 DEF BundleOf
  <2>8. ASSUME next = "differs"
        PROVE  LET was == evRecords[new.record].bundle
               IN  \/ was.seen["readiness"][1] # new.seen["readiness"][1]
                   \/ was.seen["balance"][2] # new.seen["balance"][2]
    <3>1. /\ c.status = evStatus /\ c.revision = Len(evKinds) /\ c.ledger = evPosted
          /\ c.record = Len(evRecords) /\ IsCurrent(last, c.status, c.revision, c.ledger)
      BY <1>2, <1>4, <1>6, <2>8 DEF UndisturbedFits, EvWorking
    <3>2. PICK m, p : m = c.revision /\ p = c.ledger /\ m \in Nat /\ p \in Nat
      BY <1>2 DEF EvCallType
    <3>3. PICK x \in Nat, y \in Nat : c.seen = WholeOf(evKinds, m, p, x, y)
      BY <1>2, <3>1, <3>2, BuiltIsWhole
    <3>4. PICK was : was = last.bundle
      OBVIOUS
    <3>5. BundleFits(was) /\ last = RecordOf(was)
      <4>1. c.record \in DOMAIN evRecords /\ last = evRecords[c.record]
        BY <1>3, <1>4, <3>1, EvParts
      <4> QED BY <3>4, <4>1 DEF EvInv, RecordsFit
    <3>6. was.revision = m /\ was.ledger = p
      <4>1. last.revision = was.revision /\ last.ledger = was.ledger
        BY <3>5 DEF RecordOf
      <4> QED BY <3>1, <3>2, <4>1 DEF IsCurrent
    <3>7. was.status = c.status
      BY <3>1, <3>2, <3>5, <3>6 DEF BundleFits
    <3>8. PICK v \in Nat, w \in Nat :
              was = [status |-> was.status, revision |-> was.revision, ledger |-> was.ledger,
                     seen |-> WholeOf(evKinds, was.revision, was.ledger, v, w)]
      BY <3>5 DEF BundleFits
    <3>9. was.seen = WholeOf(evKinds, m, p, v, w)
      BY <3>6, <3>8
    <3>10. BundleOf(c) # was
      BY <1>4, <1>5, <1>6, <2>8, <3>1, <3>4
    <3>11. was.seen # c.seen
      <4>1. SUFFICES ASSUME was.seen = c.seen PROVE FALSE
        OBVIOUS
      <4>2. was = [status |-> c.status, revision |-> c.revision, ledger |-> c.ledger,
                   seen |-> c.seen]
        BY <3>2, <3>6, <3>7, <3>8, <3>9, <4>1
      <4> QED BY <3>10, <4>2 DEF BundleOf
    <3>12. v # x \/ w # y
      BY <3>3, <3>9, <3>11
    <3>13. /\ was.seen["readiness"] = SectionOf(evKinds, "readiness", m, p, v, w)
           /\ was.seen["balance"] = SectionOf(evKinds, "balance", m, p, v, w)
           /\ c.seen["readiness"] = SectionOf(evKinds, "readiness", m, p, x, y)
           /\ c.seen["balance"] = SectionOf(evKinds, "balance", m, p, x, y)
      BY <3>3, <3>9 DEF WholeOf, EvSections
    <3>14. /\ was.seen["readiness"][1] = v /\ was.seen["balance"][2] = w
           /\ c.seen["readiness"][1] = x /\ c.seen["balance"][2] = y
      BY <3>13 DEF SectionOf
    <3>15. evRecords[new.record].bundle = was
      BY <1>4, <2>2, <3>1, <3>4
    <3> QED BY <2>2, <3>12, <3>14, <3>15
  <2>9. EndFits(new)
    <3>1. new.step \notin EvSections \cup {"built", "refused"}
      BY <1>6, <2>2 DEF EvSections
    <3> QED BY <1>3, <1>6, <2>2, <2>7, <2>8, <3>1 DEF EndFits
  <2> QED BY <1>2, <2>2, <2>3, <2>5, <2>6, <2>9, EvCallMoves
<1>7. CASE current
  <2>1. EvNow(r, [c EXCEPT !.step = "served"])
    BY <1>1, <1>4, <1>5, <1>7 DEF EvServe
  <2> QED BY <1>6, <1>7, <2>1
<1>8. CASE ~current /\ c.disturbed
  <2>1. EvRefuse(r)
    BY <1>1, <1>4, <1>5, <1>8 DEF EvServe
  <2>2. evCalls[r].disturbed = TRUE
    BY <1>1, <1>2, <1>8 DEF EvCallType
  <2> QED BY <1>2, <2>1, <2>2, EvRefuses
<1>9. CASE ~current /\ ~c.disturbed
  <2>1. EvNow(r, [c EXCEPT !.step = "differs"])
    BY <1>1, <1>4, <1>5, <1>9 DEF EvServe
  <2> QED BY <1>6, <1>9, <2>1
<1> QED BY <1>7, <1>8, <1>9

LEMMA EvSteps ==
    ASSUME EvInv, [EvNext]_evVars
    PROVE  EvInv'
<1>1. ASSUME EvNext PROVE EvInv'
  <2>1. ASSUME EvOthers PROVE EvInv'
    BY <2>1, EvOpenWorks, EvCloses DEF EvOthers
  <2>2. ASSUME NEW r \in EvCallers, EvRequest(r) PROVE EvInv'
    <3>1. ASSUME EvRest(r) PROVE EvInv'
      BY <3>1, EvEnds DEF EvRest
    <3> QED BY <2>2, <3>1, EvAsks, EvReadsPeriod, EvFindsRecord, EvReadsSection, EvRecords,
               EvServes DEF EvRequest
  <2> QED BY <1>1, <2>1, <2>2 DEF EvNext
<1>2. ASSUME UNCHANGED evVars PROVE EvInv'
  <2>1. UNCHANGED <<evStatus, evKinds, evPosted, evStaged, evCarried, evRecords, evCalls>>
    BY <1>2 DEF evVars
  <2>2. EvTypes' /\ RecordsFit' /\ ClosedKeepsFinal'
    BY <2>1 DEF EvInv, EvTypes, RecordsFit, BundleFits, ClosedKeepsFinal
  <2>3. \A r \in EvCallers :
            EvCallFits(evCalls[r])' /\ UndisturbedFits(evCalls[r])' /\ EndFits(evCalls[r])'
    BY <2>1 DEF EvInv, EvCallFits, UndisturbedFits, EndFits
  <2> QED BY <2>2, <2>3 DEF EvInv
<1> QED BY <1>1, <1>2

LEMMA EvBegins ==
    ASSUME EvInit
    PROVE  EvInv
<1>1. /\ evStatus \in EvBegun /\ evKinds = <<>> /\ evPosted = 0 /\ evStaged = 0 /\ evCarried = 0
      /\ evRecords = <<>> /\ evCalls = [r \in EvCallers |-> EvIdle]
  BY DEF EvInit
<1>2. Len(evKinds) = 0 /\ evKinds \in Seq(EvKind)
  BY <1>1, EmptySeq
<1>3. PICK idle : idle = EvIdle
  OBVIOUS
<1>4. /\ idle \in EvCallType /\ idle.step = "idle" /\ idle.revision = 0 /\ idle.ledger = 0
      /\ UndisturbedFits(idle) /\ EndFits(idle)
  BY <1>3, EvStart
<1>5. \A r \in EvCallers : evCalls[r] = idle
  BY <1>1, <1>3
<1>6. evCalls \in [EvCallers -> EvCallType]
  BY <1>1, <1>3, <1>4
<1>7. evRecords \in Seq([revision: Nat, ledger: Nat, final: BOOLEAN, bundle: EvBundle])
  BY <1>1, EmptySeq
<1>8. EvTypes
  BY <1>1, <1>2, <1>6, <1>7 DEF EvTypes, EvStatus
<1>9. RecordsFit
  <2>1. PICK records : /\ records = evRecords /\ records \in Seq(Nat) /\ Len(records) = 0
                       /\ DOMAIN records = 1..Len(records)
    BY <1>1, EmptySeq, LenProperties
  <2>2. DOMAIN evRecords = {}
    BY <2>1
  <2> QED BY <2>2 DEF RecordsFit
<1>10. ClosedKeepsFinal
  BY <1>1 DEF ClosedKeepsFinal, EvBegun
<1>11. EvCallFits(idle)
  <2>1. idle.step \notin EvWorking
    BY <1>4 DEF EvWorking, EvSections
  <2>2. idle.revision <= Len(evKinds) /\ idle.ledger <= evPosted
    BY <1>1, <1>2, <1>4
  <2> QED BY <2>1, <2>2 DEF EvCallFits
<1> QED BY <1>4, <1>5, <1>8, <1>9, <1>10, <1>11 DEF EvInv

LEMMA EvInvHolds == EvSpec => []EvInv
<1> QED BY EvBegins, EvSteps, PTL DEF EvSpec

\* The variables of the close evidence keep their types (EvTypeOK).
THEOREM EvidenceTyped == EvSpec => []EvTypeOK
<1>1. ASSUME EvInv PROVE EvTypeOK
  <2>1. evStatus \in EvBegun \cup {"CLOSED"} /\ evKinds \in Seq({"control", "task", "move"})
    BY <1>1 DEF EvInv, EvTypes, EvStatus, EvKind
  <2>2. evPosted \in Nat /\ evStaged \in Nat /\ evCarried \in Nat
    BY <1>1 DEF EvInv, EvTypes
  <2>3. ASSUME NEW n \in DOMAIN evRecords PROVE evRecords[n].final \in BOOLEAN
    <3>1. PICK s : /\ s = evRecords /\ DOMAIN s = 1..Len(s)
                   /\ s \in Seq([revision: Nat, ledger: Nat, final: BOOLEAN, bundle: EvBundle])
      BY <1>1, LenProperties DEF EvInv, EvTypes
    <3>2. s[n] \in [revision: Nat, ledger: Nat, final: BOOLEAN, bundle: EvBundle]
      BY <2>3, <3>1, ElementOfSeq
    <3> QED BY <3>1, <3>2
  <2>4. ASSUME NEW r \in EvCallers
        PROVE  /\ DOMAIN evCalls[r] = DOMAIN EvIdle
               /\ DOMAIN evCalls[r].seen \subseteq EvSections
               /\ evCalls[r].disturbed \in BOOLEAN
    <3>1. PICK c : c = evCalls[r] /\ c \in EvCallType
      BY <1>1, EvParts
    <3>2. PICK idle : idle = EvIdle /\ idle \in EvCallType
      BY EvStart
    <3>3. DOMAIN c = DOMAIN idle /\ c.disturbed \in BOOLEAN
      BY <3>1, <3>2 DEF EvCallType
    <3>4. PICK S \in SUBSET EvSections : c.seen \in [S -> EvValue]
      BY <3>1 DEF EvCallType
    <3> QED BY <3>1, <3>2, <3>3, <3>4
  <2> QED BY <2>1, <2>2, <2>3, <2>4 DEF EvTypeOK
<1> QED BY <1>1, EvInvHolds, PTL

\* Evidence is what it says (EvidenceIsSound), however requests and changes interleave:
\* each record shows one revision, what is served is what was recorded, a closed cycle
\* keeps its final evidence, and no request is refused without a reason.
THEOREM EvidenceHolds == EvSpec => []EvidenceIsSound
<1>1. ASSUME EvInv PROVE RecordedIsOfOneRevision
  <2>1. SUFFICES ASSUME NEW n \in DOMAIN evRecords, NEW b, b = evRecords[n].bundle
                 PROVE  /\ b.seen["controls"] = Upto(b.revision, "control")
                        /\ b.seen["readiness"][2] = b.seen["controls"]
                        /\ b.seen["checklist"] = Upto(b.revision, "task")
                        /\ b.seen["audit"] = b.revision
                        /\ b.seen["balance"][1] = b.ledger
    BY DEF RecordedIsOfOneRevision
  <2>2. BundleFits(b)
    BY <1>1, <2>1 DEF EvInv, RecordsFit
  <2>3. PICK x \in Nat, y \in Nat :
            b = [status |-> b.status, revision |-> b.revision, ledger |-> b.ledger,
                 seen |-> WholeOf(evKinds, b.revision, b.ledger, x, y)]
    BY <2>2 DEF BundleFits
  <2>4. PICK seen : seen = b.seen /\ seen = WholeOf(evKinds, b.revision, b.ledger, x, y)
    BY <2>3
  <2>5. \A s \in EvSections : seen[s] = SectionOf(evKinds, s, b.revision, b.ledger, x, y)
    BY <2>4 DEF WholeOf
  <2>6. /\ seen["controls"] = CountOf(evKinds, b.revision, "control")
        /\ seen["readiness"] = <<x, CountOf(evKinds, b.revision, "control")>>
        /\ seen["checklist"] = CountOf(evKinds, b.revision, "task")
        /\ seen["audit"] = b.revision /\ seen["balance"] = <<b.ledger, y>>
    BY <2>5 DEF SectionOf, EvSections
  <2>7. \A kind : Upto(b.revision, kind) = CountOf(evKinds, b.revision, kind)
    BY DEF Upto, CountOf
  <2> QED BY <2>4, <2>6, <2>7
<1>2. ASSUME EvInv PROVE ServedIsRecorded /\ RefusedForAChange
  <2>1. \A r \in EvCallers : EndFits(evCalls[r])
    BY <1>2 DEF EvInv
  <2> QED BY <2>1 DEF EndFits, ServedIsRecorded, RefusedForAChange, EvAt
<1>3. EvInv => EvidenceIsSound
  BY <1>1, <1>2 DEF EvidenceIsSound, EvInv
<1> QED BY <1>3, EvInvHolds, PTL

-----------------------------------------------------------------------------
(* Reference data.  A request stores under the number of its latest sync,  *)
(* and until it has stored, nothing is stored under that number: so what a *)
(* sync stores is all it fetched or nothing (InLatest).  What a tax sync   *)
(* has read is the table as it is unless another has written since         *)
(* (ReadsFit), and the table follows the feed of the last sync that was    *)
(* current, but for what two syncs raced for (FeedFollowed).               *)
PsKey == (Quotes \cup Nat) \X SyncDays
PsRuleType == [id: Nat, key: RuleKeys, version: {1, 2}]
PsFeedType == [key: RuleKeys, version: {1, 2}]
PsStep == {"none", "lookup", "create", "fetch", "store", "audit", "read", "write"}
PsCallType ==
    [kind: {"none", "fx", "task", "market", "tax"}, step: PsStep, attempt: 0..(MaxAttempts - 1),
     day: SyncDays, seen: SUBSET PsRuleType, batch: SUBSET (PsKey \cup PsFeedType),
     instrument: Nat, backfill: BOOLEAN, stale: BOOLEAN, allowed: BOOLEAN]

PsTypes ==
    /\ psEnabled \in BOOLEAN
    /\ psInstruments \in Nat /\ psRuleIds \in 0..MaxRules
    /\ psRules \subseteq [id: 1..psRuleIds, key: RuleKeys, version: {1, 2}]
    /\ psCalls \in [Syncers -> PsCallType]
    /\ psTasks \in [Syncers -> Seq(SyncDays \ {Today})]
    /\ psLog \in Seq([batch: SUBSET (PsKey \cup PsFeedType), by: Syncers, answered: BOOLEAN])
    /\ psRaced \subseteq RuleKeys \cup {"instrument"}

\* A request at work is of some kind, and was allowed at some time since it began.
PsBusy == \A s \in Syncers : psCalls[s].step # "none" => ~PsIdle(s) /\ psCalls[s].allowed

\* The rows a sync has stored, and what it fetched.
StoredBy(n) == {row.key : row \in {row \in psStored : row.by = n}}
RowsOfSyncs ==
    \A row \in psStored : row.by \in DOMAIN psLog /\ row.key \in psLog[row.by].batch

IsLatestOf(s, n) ==
    /\ n \in DOMAIN psLog /\ psLog[n].by = s
    /\ \A k \in DOMAIN psLog : psLog[k].by = s => k <= n

\* A request that has fetched is in its latest sync, and has stored nothing of it or all.
InLatest(s) ==
    psCalls[s].step \in {"store", "audit"} =>
        \E n \in DOMAIN psLog :
            /\ IsLatestOf(s, n)
            /\ psLog[n].batch = psCalls[s].batch /\ ~psLog[n].answered
            /\ StoredBy(n) = IF psCalls[s].step = "store" THEN {} ELSE psLog[n].batch

\* Who is about to create an instrument although there is one has raced another.
CreatesRaced ==
    psInstruments >= 1 /\ (\E s \in Syncers : PsAt(s, "create")) => "instrument" \in psRaced

\* What a tax sync has read is the rules as they are, unless another has written since;
\* its feed has each rule once.
ReadsFit(s) ==
    PsAt(s, "write") =>
        /\ psCalls[s].batch \subseteq PsFeedType
        /\ \A n, o \in psCalls[s].batch : n.key = o.key => n = o
        /\ ~psCalls[s].stale => psCalls[s].seen = {r \in psRules : r.key \in OwnKeys}

RowsOf(k) == {r \in psRules : r.key = k}
FeedFollowed ==
    \A k \in OwnKeys \ psRaced :
        /\ \A r, o \in RowsOf(k) : r = o
        /\ psFeed # NoFeed =>
               {r.version : r \in RowsOf(k)} = {n.version : n \in RulesFor(psFeed, k)}

PsInv ==
    /\ PsTypes /\ PsBusy /\ RowsOfSyncs /\ SyncsAreWhole /\ InstrumentOnce /\ CreatesRaced
    /\ FeedFollowed
    /\ \A s \in Syncers : InLatest(s) /\ ReadsFit(s)

\* A table of rules, and the rules that a sync has found changed in it.
RuleRows(top) == [id: 1..top, key: RuleKeys, version: {1, 2}]

Touches(changed, r) == \E o \in changed : Same(r, o)
AllFound(changed, batch) == \A o \in changed : RulesFor(batch, o.key) # {}

LEMMA TodayIs == Today \in SyncDays /\ Today \in Nat \ {0} /\ SyncDays = 1..Today
<1>1. PICK d \in SyncDays : d \in Nat \ {0} /\ SyncDays = 1..d
  BY SyncAssumption
<1>2. \A e \in SyncDays : e <= d
  BY <1>1
<1>3. PICK t : t = Today /\ t \in SyncDays /\ \A e \in SyncDays : e <= t
  <2>1. Today \in SyncDays /\ \A e \in SyncDays : e <= Today
    BY <1>2 DEF Today
  <2> QED BY <2>1
<1>4. t = d
  BY <1>1, <1>2, <1>3
<1> QED BY <1>1, <1>3, <1>4

LEMMA BackwardsType == Backwards \in Seq(SyncDays \ {Today})
<1>1. PICK t : t = Today /\ t \in Nat \ {0} /\ SyncDays = 1..t
  BY TodayIs
<1>2. PICK m \in Nat : m = t - 1
  BY <1>1
<1>3. PICK f : f = [offset \in 1..m |-> t - offset]
  OBVIOUS
<1>4. \A offset \in 1..m : t - offset \in (1..t) \ {t}
  BY <1>1, <1>2
<1>5. f \in [1..m -> SyncDays \ {Today}]
  BY <1>1, <1>3, <1>4
<1>6. f \in Seq(SyncDays \ {Today})
  BY <1>2, <1>5, SeqDef
<1>7. Backwards = f
  BY <1>1, <1>2, <1>3 DEF Backwards
<1> QED BY <1>6, <1>7

LEMMA NoSyncIs ==
    /\ NoSync \in PsCallType /\ NoSync.kind = "none" /\ NoSync.step = "none"
    /\ NoSync.attempt = 0 /\ NoSync.stale = FALSE
<1>1. 0 \in 0..(MaxAttempts - 1) /\ Today \in SyncDays
  BY SyncAssumption, TodayIs
<1> QED BY <1>1 DEF NoSync, PsCallType, PsStep

LEMMA PsParts ==
    ASSUME PsInv
    PROVE  /\ psCalls \in [Syncers -> PsCallType]
           /\ psTasks \in [Syncers -> Seq(SyncDays \ {Today})]
           /\ Len(psLog) \in Nat /\ DOMAIN psLog = 1..Len(psLog)
           /\ psLog \in Seq([batch: SUBSET (PsKey \cup PsFeedType), by: Syncers, answered: BOOLEAN])
           /\ psInstruments \in Nat /\ psEnabled \in BOOLEAN
  BY LenProperties DEF PsInv, PsTypes

LEMMA FeedStays ==
    ASSUME FeedFollowed, UNCHANGED <<psRules, psRaced, psFeed>>
    PROVE  FeedFollowed'
  BY DEF FeedFollowed, RowsOf, RulesFor

psTables == <<psStored, psRules, psRuleIds, psLog, psRaced, psFeed>>

\* A request goes on; no table changes.
LEMMA PsCallMoves ==
    ASSUME PsInv, NEW s \in Syncers, NEW old, old = psCalls[s], NEW new \in PsCallType,
           psCalls' = [psCalls EXCEPT ![s] = new], UNCHANGED psTables, UNCHANGED psInstruments,
           psEnabled' \in BOOLEAN, psTasks' \in [Syncers -> Seq(SyncDays \ {Today})],
           new.step # "none" => new.kind # "none" /\ new.allowed,
           new.step \in {"store", "audit"} => new.step = old.step /\ new.batch = old.batch,
           new.step = "create" => psInstruments = 0,
           new.step = "write" =>
               /\ new.batch \subseteq PsFeedType
               /\ \A n, o \in new.batch : n.key = o.key => n = o
               /\ ~new.stale => new.seen = {r \in psRules : r.key \in OwnKeys}
    PROVE  PsInv'
<1>1. /\ UNCHANGED <<psStored, psRules, psRuleIds, psLog, psRaced, psFeed, psInstruments>>
  BY DEF psTables
<1>2. /\ psCalls' \in [Syncers -> PsCallType] /\ psCalls'[s] = new
      /\ \A t \in Syncers : t # s => psCalls'[t] = psCalls[t]
  BY PsParts
<1>3. PsTypes'
  BY <1>1, <1>2 DEF PsInv, PsTypes
<1>4. PsBusy'
  BY <1>2 DEF PsInv, PsBusy, PsIdle
<1>5. RowsOfSyncs' /\ SyncsAreWhole' /\ InstrumentOnce' /\ FeedFollowed'
  <2>1. RowsOfSyncs' /\ SyncsAreWhole'
    BY <1>1 DEF PsInv, RowsOfSyncs, SyncsAreWhole
  <2>2. InstrumentOnce'
    BY <1>1 DEF PsInv, InstrumentOnce
  <2>3. FeedFollowed
    BY DEF PsInv
  <2>4. FeedFollowed'
    BY <1>1, <2>3, FeedStays
  <2> QED BY <2>1, <2>2, <2>4
<1>6. CreatesRaced'
  BY <1>1, <1>2 DEF PsInv, CreatesRaced, PsAt
<1>7. ASSUME NEW t \in Syncers PROVE InLatest(t)'
  <2>1. InLatest(t)
    BY DEF PsInv
  <2>2. \A n : IsLatestOf(t, n)' <=> IsLatestOf(t, n)
    BY <1>1 DEF IsLatestOf
  <2>3. \A n : StoredBy(n)' = StoredBy(n)
    BY <1>1 DEF StoredBy
  <2>4. CASE t # s
    <3>1. psCalls'[t] = psCalls[t]
      BY <1>2, <2>4
    <3> QED BY <1>1, <2>1, <2>2, <2>3, <3>1 DEF InLatest
  <2>5. CASE t = s
    <3>1. ASSUME new.step \in {"store", "audit"}
          PROVE  \E n \in DOMAIN psLog :
                     /\ IsLatestOf(t, n) /\ psLog[n].batch = new.batch /\ ~psLog[n].answered
                     /\ StoredBy(n) = IF new.step = "store" THEN {} ELSE psLog[n].batch
      BY <2>1, <2>5, <3>1 DEF InLatest
    <3>2. psCalls'[t] = new
      BY <1>2, <2>5
    <3> QED BY <1>1, <2>2, <2>3, <3>1, <3>2 DEF InLatest
  <2> QED BY <2>4, <2>5
<1>8. ASSUME NEW t \in Syncers PROVE ReadsFit(t)'
  <2>1. CASE t # s
    BY <1>1, <1>2, <2>1 DEF PsInv, ReadsFit, PsAt
  <2>2. CASE t = s
    BY <1>1, <1>2, <2>2 DEF ReadsFit, PsAt
  <2> QED BY <2>1, <2>2
<1> QED BY <1>3, <1>4, <1>5, <1>6, <1>7, <1>8 DEF PsInv

\* A request that ends, and its tasks with it or not.
LEMMA PsCallEnds ==
    ASSUME PsInv, NEW s \in Syncers, psCalls' = [psCalls EXCEPT ![s] = NoSync],
           psTasks' \in [Syncers -> Seq(SyncDays \ {Today})],
           UNCHANGED psTables, UNCHANGED psInstruments, psEnabled' \in BOOLEAN
    PROVE  PsInv'
<1>1. PICK none : /\ none = NoSync /\ none \in PsCallType /\ none.kind = "none"
                  /\ none.step = "none"
  BY NoSyncIs
<1>2. psCalls' = [psCalls EXCEPT ![s] = none]
  BY <1>1
<1> QED BY <1>1, <1>2, PsCallMoves

LEMMA PsFails ==
    ASSUME PsInv, NEW s \in Syncers, PsFail(s), UNCHANGED psTables, UNCHANGED psInstruments,
           UNCHANGED psEnabled
    PROVE  PsInv'
<1>1. <<>> \in Seq(SyncDays \ {Today})
  BY EmptySeq
<1>2. PICK none : none = <<>> /\ none \in Seq(SyncDays \ {Today})
  BY <1>1
<1>3. psTasks' \in [Syncers -> Seq(SyncDays \ {Today})]
  BY <1>2, PsParts DEF PsFail
<1>4. psCalls' = [psCalls EXCEPT ![s] = NoSync] /\ psEnabled' \in BOOLEAN
  BY PsParts DEF PsFail
<1> QED BY <1>3, <1>4, PsCallEnds

LEMMA PsBegins ==
    ASSUME PsInv, NEW s \in Syncers, NEW kind \in {"fx", "market", "tax"}, NEW backfill \in BOOLEAN,
           PsBegin(s, kind, backfill)
    PROVE  PsInv'
<1>1. PICK none : /\ none = NoSync /\ none \in PsCallType
  BY NoSyncIs
<1>2. PICK step : step = CASE kind = "fx" -> "fetch" [] kind = "market" -> "lookup"
                           [] kind = "tax" -> "read"
  OBVIOUS
<1>3. step \in {"fetch", "lookup", "read"}
  BY <1>2
<1>4. PICK new : new = [none EXCEPT !.kind = kind, !.backfill = backfill, !.allowed = TRUE,
                                    !.step = step]
  OBVIOUS
<1>5. new \in PsCallType /\ new.kind = kind /\ new.step = step /\ new.allowed
  <2>1. step \in PsStep /\ kind \in {"none", "fx", "task", "market", "tax"}
    BY <1>3 DEF PsStep
  <2> QED BY <1>1, <1>4, <2>1 DEF PsCallType
<1>6. psCalls' = [psCalls EXCEPT ![s] = new] /\ UNCHANGED psTables
      /\ UNCHANGED <<psInstruments, psEnabled, psTasks>>
  BY <1>1, <1>2, <1>4 DEF PsBegin, psTables, psData, psWitness
<1>7. psEnabled' \in BOOLEAN /\ psTasks' \in [Syncers -> Seq(SyncDays \ {Today})]
  BY <1>6, PsParts
<1> QED BY <1>3, <1>5, <1>6, <1>7, PsCallMoves

LEMMA PsLooksUp ==
    ASSUME PsInv, NEW s \in Syncers, PsLookup(s)
    PROVE  PsInv'
<1>1. PICK c : c = psCalls[s] /\ c \in PsCallType
  BY PsParts
<1>2. c.step = "lookup" /\ c.kind # "none" /\ c.allowed
  BY <1>1 DEF PsLookup, PsAt, PsInv, PsBusy, PsIdle
<1>3. UNCHANGED psTables /\ UNCHANGED <<psInstruments, psEnabled, psTasks>>
  BY DEF PsLookup, psTables, psData, psWitness
<1>4. psEnabled' \in BOOLEAN /\ psTasks' \in [Syncers -> Seq(SyncDays \ {Today})]
  BY <1>3, PsParts
<1>5. CASE psInstruments = 0
  <2>1. PICK new : new = [c EXCEPT !.step = "create"]
    OBVIOUS
  <2>2. new \in PsCallType /\ new.step = "create" /\ new.kind = c.kind /\ new.allowed = c.allowed
    BY <1>1, <2>1 DEF PsCallType, PsStep
  <2>3. psCalls' = [psCalls EXCEPT ![s] = new]
    BY <1>1, <1>5, <2>1 DEF PsLookup, PsGo
  <2> QED BY <1>1, <1>2, <1>3, <1>4, <1>5, <2>2, <2>3, PsCallMoves
<1>6. CASE psInstruments # 0
  <2>1. PICK i \in 1..psInstruments :
            psCalls' = [psCalls EXCEPT ![s].instrument = i, ![s].step = "fetch"]
    BY <1>6 DEF PsLookup
  <2>2. PICK new : new = [c EXCEPT !.instrument = i, !.step = "fetch"]
    OBVIOUS
  <2>3. i \in Nat
    BY <2>1, PsParts
  <2>4. new \in PsCallType /\ new.step = "fetch" /\ new.kind = c.kind /\ new.allowed = c.allowed
    BY <1>1, <2>2, <2>3 DEF PsCallType, PsStep
  <2>5. psCalls' = [psCalls EXCEPT ![s] = new]
    BY <1>1, <2>1, <2>2
  <2> QED BY <1>1, <1>2, <1>3, <1>4, <2>4, <2>5, PsCallMoves
<1> QED BY <1>5, <1>6

LEMMA PsRetries ==
    ASSUME PsInv, NEW s \in Syncers, PsRetry(s)
    PROVE  PsInv'
<1>1. PICK c : c = psCalls[s] /\ c \in PsCallType
  BY PsParts
<1>2. /\ c.step = "fetch" /\ c.kind # "none" /\ c.allowed
      /\ c.attempt + 1 < Attempts(c.kind)
  BY <1>1 DEF PsRetry, PsAt, PsInv, PsBusy, PsIdle
<1>3. c.attempt + 1 \in 0..(MaxAttempts - 1)
  <2>1. c.attempt \in Nat
    BY <1>1, SyncAssumption DEF PsCallType
  <2> QED BY <1>2, <2>1, SyncAssumption DEF Attempts
<1>4. UNCHANGED psTables /\ UNCHANGED <<psInstruments, psEnabled, psTasks>>
  BY DEF PsRetry, psTables, psData, psWitness
<1>5. psEnabled' \in BOOLEAN /\ psTasks' \in [Syncers -> Seq(SyncDays \ {Today})]
  BY <1>4, PsParts
<1>6. PICK new : new = [c EXCEPT !.attempt = c.attempt + 1]
  OBVIOUS
<1>7. new \in PsCallType /\ new.step = "fetch" /\ new.kind = c.kind /\ new.allowed = c.allowed
  BY <1>1, <1>2, <1>3, <1>6 DEF PsCallType
<1>8. psCalls' = [psCalls EXCEPT ![s] = new]
  BY <1>1, <1>6 DEF PsRetry
<1> QED BY <1>1, <1>2, <1>4, <1>5, <1>7, <1>8, PsCallMoves

LEMMA PsTasksBegin ==
    ASSUME PsInv, NEW s \in Syncers, PsTask(s)
    PROVE  PsInv'
<1>1. UNCHANGED psTables /\ UNCHANGED <<psInstruments, psEnabled>> /\ psTasks[s] # <<>>
  BY DEF PsTask, psTables, psData, psWitness
<1>2. CASE psEnabled
  <2>1. PICK q : q = psTasks[s] /\ q \in Seq(SyncDays \ {Today})
    BY PsParts
  <2>2. Head(q) \in SyncDays /\ Tail(q) \in Seq(SyncDays \ {Today})
    BY <1>1, <2>1, HeadTailProperties
  <2>3. PICK none : none = NoSync /\ none \in PsCallType
    BY NoSyncIs
  <2>4. PICK new : new = [none EXCEPT !.kind = "task", !.step = "fetch", !.day = Head(q),
                                      !.allowed = TRUE]
    OBVIOUS
  <2>5. new \in PsCallType /\ new.step = "fetch" /\ new.kind = "task" /\ new.allowed
    BY <2>2, <2>3, <2>4 DEF PsCallType, PsStep
  <2>6. psCalls' = [psCalls EXCEPT ![s] = new]
    BY <1>2, <2>1, <2>3, <2>4 DEF PsTask
  <2>7. psTasks' = [psTasks EXCEPT ![s] = Tail(q)]
    BY <1>2, <2>1 DEF PsTask
  <2>8. psTasks' \in [Syncers -> Seq(SyncDays \ {Today})] /\ psEnabled' \in BOOLEAN
    BY <1>1, <2>2, <2>7, PsParts
  <2> QED BY <1>1, <2>5, <2>6, <2>8, PsCallMoves
<1>3. CASE ~psEnabled
  BY <1>1, <1>3, PsFails DEF PsTask
<1> QED BY <1>2, <1>3

LEMMA PsReads ==
    ASSUME PsInv, NEW s \in Syncers, PsRead(s)
    PROVE  PsInv'
<1>1. PICK c : c = psCalls[s] /\ c \in PsCallType
  BY PsParts
<1>2. c.step = "read" /\ c.kind # "none" /\ c.allowed
  BY <1>1 DEF PsRead, PsAt, PsInv, PsBusy, PsIdle
<1>3. UNCHANGED psTables /\ UNCHANGED <<psInstruments, psEnabled, psTasks>>
  BY DEF PsRead, psTables, psData, psWitness
<1>4. psEnabled' \in BOOLEAN /\ psTasks' \in [Syncers -> Seq(SyncDays \ {Today})]
  BY <1>3, PsParts
<1>5. PICK feed \in Feeds :
          psCalls' = [psCalls EXCEPT ![s] = [@ EXCEPT
               !.batch = {[key |-> k, version |-> feed[k]] : k \in DOMAIN feed},
               !.seen = {r \in psRules : r.key \in OwnKeys}, !.step = "write"]]
  BY DEF PsRead
<1>6. PICK K \in SUBSET RuleKeys : feed \in [K -> {1, 2}]
  BY DEF Feeds
<1>7. PICK batch : batch = {[key |-> k, version |-> feed[k]] : k \in DOMAIN feed}
  OBVIOUS
<1>8. batch \subseteq PsFeedType /\ \A n, o \in batch : n.key = o.key => n = o
  BY <1>6, <1>7 DEF PsFeedType
<1>9. PICK seen : seen = {r \in psRules : r.key \in OwnKeys}
  OBVIOUS
<1>10. seen \in SUBSET PsRuleType
  <2>1. psRuleIds \in Nat /\ psRules \subseteq [id: 1..psRuleIds, key: RuleKeys, version: {1, 2}]
    BY SyncAssumption DEF PsInv, PsTypes
  <2> QED BY <1>9, <2>1 DEF PsRuleType
<1>11. PICK new : new = [c EXCEPT !.batch = batch, !.seen = seen, !.step = "write"]
  OBVIOUS
<1>12. /\ new \in PsCallType /\ new.step = "write" /\ new.kind = c.kind /\ new.allowed = c.allowed
       /\ new.batch = batch /\ new.seen = seen
  BY <1>1, <1>8, <1>10, <1>11 DEF PsCallType, PsStep
<1>13. psCalls' = [psCalls EXCEPT ![s] = new]
  BY <1>1, <1>5, <1>7, <1>9, <1>11
<1> QED BY <1>1, <1>2, <1>3, <1>4, <1>8, <1>9, <1>12, <1>13, PsCallMoves

LEMMA PsSwitches ==
    ASSUME PsInv, NEW enabled \in BOOLEAN, PsSwitch(enabled)
    PROVE  PsInv'
<1>1. /\ UNCHANGED <<psStored, psInstruments, psRules, psRuleIds, psTasks, psLog, psRaced, psFeed>>
      /\ psEnabled' = enabled
  BY DEF PsSwitch, psData, psWitness
<1>2. ASSUME NEW t \in Syncers
      PROVE  /\ psCalls'[t] \in PsCallType
             /\ psCalls'[t].kind = psCalls[t].kind /\ psCalls'[t].step = psCalls[t].step
             /\ psCalls'[t].batch = psCalls[t].batch /\ psCalls'[t].seen = psCalls[t].seen
             /\ psCalls'[t].stale = psCalls[t].stale
             /\ psCalls[t].step # "none" => psCalls'[t].allowed
  <2>1. PICK c : c = psCalls[t] /\ c \in PsCallType
    BY PsParts
  <2>2. PICK allowed \in BOOLEAN : allowed = (~PsIdle(t) /\ (c.allowed \/ enabled))
    <3>1. (~PsIdle(t) /\ (c.allowed \/ enabled)) \in BOOLEAN
      OBVIOUS
    <3> QED BY <3>1
  <2>3. psCalls'[t] = [c EXCEPT !.allowed = allowed]
    BY <2>1, <2>2 DEF PsSwitch
  <2>4. c.step # "none" => allowed
    BY <2>1, <2>2 DEF PsInv, PsBusy
  <2> QED BY <2>1, <2>3, <2>4 DEF PsCallType
<1>3. psCalls' \in [Syncers -> PsCallType]
  BY <1>2 DEF PsSwitch
<1>4. PsTypes'
  BY <1>1, <1>3 DEF PsInv, PsTypes
<1>5. PsBusy'
  BY <1>2 DEF PsInv, PsBusy, PsIdle
<1>6. RowsOfSyncs' /\ SyncsAreWhole' /\ InstrumentOnce' /\ FeedFollowed'
  BY <1>1 DEF PsInv, RowsOfSyncs, SyncsAreWhole, InstrumentOnce, FeedFollowed, RowsOf
<1>7. CreatesRaced'
  BY <1>1, <1>2 DEF PsInv, CreatesRaced, PsAt
<1>8. ASSUME NEW t \in Syncers PROVE InLatest(t)' /\ ReadsFit(t)'
  <2>1. \A n : (IsLatestOf(t, n)' <=> IsLatestOf(t, n)) /\ StoredBy(n)' = StoredBy(n)
    BY <1>1 DEF IsLatestOf, StoredBy
  <2>2. InLatest(t) /\ ReadsFit(t)
    BY DEF PsInv
  <2>3. InLatest(t)'
    BY <1>1, <1>2, <2>1, <2>2 DEF InLatest
  <2>4. ReadsFit(t)'
    BY <1>1, <1>2, <2>2 DEF ReadsFit, PsAt
  <2> QED BY <2>3, <2>4
<1> QED BY <1>4, <1>5, <1>6, <1>7, <1>8 DEF PsInv

LEMMA PsCreates ==
    ASSUME PsInv, NEW s \in Syncers, PsCreate(s)
    PROVE  PsInv'
<1>1. PICK c : c = psCalls[s] /\ c \in PsCallType
  BY PsParts
<1>2. c.step = "create" /\ c.kind # "none" /\ c.allowed
  BY <1>1 DEF PsCreate, PsAt, PsInv, PsBusy, PsIdle
<1>3. /\ UNCHANGED <<psEnabled, psStored, psRules, psRuleIds, psTasks, psLog, psFeed>>
      /\ psInstruments' = psInstruments + 1
  BY DEF PsCreate
<1>4. PICK i \in Nat : i = psInstruments'
  BY <1>3, PsParts
<1>5. PICK new : new = [c EXCEPT !.instrument = i, !.step = "fetch"]
  OBVIOUS
<1>6. new \in PsCallType /\ new.step = "fetch" /\ new.kind = c.kind /\ new.allowed = c.allowed
  BY <1>1, <1>5 DEF PsCallType, PsStep
<1>7. psCalls' = [psCalls EXCEPT ![s] = new]
  BY <1>1, <1>4, <1>5 DEF PsCreate
<1>8. /\ psCalls' \in [Syncers -> PsCallType] /\ psCalls'[s] = new
      /\ \A t \in Syncers : t # s => psCalls'[t] = psCalls[t]
  BY <1>6, <1>7, PsParts
<1>9. psRaced \subseteq psRaced' /\ psRaced' \subseteq psRaced \cup {"instrument"}
  BY DEF PsCreate
<1>10. PsTypes'
  BY <1>3, <1>4, <1>8, <1>9 DEF PsInv, PsTypes
<1>11. PsBusy'
  BY <1>2, <1>6, <1>8 DEF PsInv, PsBusy, PsIdle
<1>12. RowsOfSyncs' /\ SyncsAreWhole'
  BY <1>3 DEF PsInv, RowsOfSyncs, SyncsAreWhole
<1>13. psInstruments >= 1 => "instrument" \in psRaced
  BY <1>1, <1>2 DEF PsInv, CreatesRaced, PsAt
<1>14. InstrumentOnce'
  BY <1>3, <1>9, <1>13, PsParts DEF InstrumentOnce
<1>15. CreatesRaced'
  <2>1. ASSUME NEW t \in Syncers, PsAt(t, "create")' PROVE "instrument" \in psRaced'
    <3>1. t # s /\ PsAt(t, "create")
      BY <1>6, <1>8, <2>1 DEF PsAt
    <3> QED BY <3>1 DEF PsCreate
  <2> QED BY <2>1 DEF CreatesRaced
<1>16. FeedFollowed'
  <2>1. UNCHANGED <<psRules, psFeed>>
    BY <1>3
  <2> QED BY <1>9, <2>1 DEF PsInv, FeedFollowed, RowsOf, RulesFor
<1>17. ASSUME NEW t \in Syncers PROVE InLatest(t)' /\ ReadsFit(t)'
  <2>1. \A n : (IsLatestOf(t, n)' <=> IsLatestOf(t, n)) /\ StoredBy(n)' = StoredBy(n)
    BY <1>3 DEF IsLatestOf, StoredBy
  <2>2. InLatest(t) /\ ReadsFit(t)
    BY DEF PsInv
  <2>3. InLatest(t)'
    BY <1>3, <1>6, <1>8, <2>1, <2>2 DEF InLatest
  <2>4. ReadsFit(t)'
    BY <1>3, <1>6, <1>8, <2>2 DEF ReadsFit, PsAt
  <2> QED BY <2>3, <2>4
<1> QED BY <1>10, <1>11, <1>12, <1>14, <1>15, <1>16, <1>17 DEF PsInv

LEMMA NumberIs ==
    ASSUME PsInv, NEW s, NEW n, IsLatestOf(s, n)
    PROVE  Number(s) = n
<1>1. \A k \in DOMAIN psLog : k \in Nat
  BY PsParts
<1>2. /\ n \in DOMAIN psLog /\ psLog[n].by = s
      /\ \A k \in DOMAIN psLog : psLog[k].by = s => k <= n
  BY DEF IsLatestOf
<1>3. \A m \in DOMAIN psLog :
          psLog[m].by = s /\ (\A k \in DOMAIN psLog : psLog[k].by = s => k <= m) => m = n
  BY <1>1, <1>2
<1> QED BY <1>2, <1>3 DEF Number

\* All or nothing, by the rows a sync has stored.
LEMMA WholeBy ==
    SyncsAreWhole <=>
        \A n \in DOMAIN psLog :
            /\ StoredBy(n) \in {{}, psLog[n].batch}
            /\ psLog[n].answered => StoredBy(n) = psLog[n].batch
  BY DEF SyncsAreWhole, StoredBy

LEMMA PayloadType ==
    ASSUME NEW c \in PsCallType
    PROVE  Payloads(c) \subseteq SUBSET PsKey
<1>1. PICK i \in Nat : i = c.instrument
  BY DEF PsCallType
<1>2. EcbRates \subseteq SUBSET PsKey
  BY DEF EcbRates, PsKey
<1>3. YfPrices(i) \subseteq SUBSET PsKey
  BY DEF YfPrices, PsKey
<1>4. FuturesPrices(i) \subseteq SUBSET PsKey
  BY DEF FuturesPrices, PsKey
<1> QED BY <1>1, <1>2, <1>3, <1>4 DEF Payloads, OxrRates

LEMMA PsFetches ==
    ASSUME PsInv, NEW s \in Syncers, PsFetch(s)
    PROVE  PsInv'
<1>1. PICK c : c = psCalls[s] /\ c \in PsCallType
  BY PsParts
<1>2. c.step = "fetch" /\ c.kind # "none" /\ c.allowed
  BY <1>1 DEF PsFetch, PsAt, PsInv, PsBusy, PsIdle
<1>3. UNCHANGED <<psEnabled, psStored, psInstruments, psRules, psRuleIds, psTasks, psRaced, psFeed>>
  BY DEF PsFetch, psData
<1>4. PICK payload \in Payloads(c) :
          /\ psCalls' = [psCalls EXCEPT ![s].batch = payload, ![s].step = "store"]
          /\ psLog' = Append(psLog, [batch |-> payload, by |-> s, answered |-> FALSE])
  BY <1>1 DEF PsFetch
<1>5. payload \subseteq PsKey
  BY <1>1, <1>4, PayloadType
<1>6. PICK new : new = [c EXCEPT !.batch = payload, !.step = "store"]
  OBVIOUS
<1>7. /\ new \in PsCallType /\ new.step = "store" /\ new.kind = c.kind /\ new.allowed = c.allowed
      /\ new.batch = payload
  BY <1>1, <1>5, <1>6 DEF PsCallType, PsStep
<1>8. psCalls' = [psCalls EXCEPT ![s] = new]
  BY <1>1, <1>4, <1>6
<1>9. /\ psCalls' \in [Syncers -> PsCallType] /\ psCalls'[s] = new
      /\ \A t \in Syncers : t # s => psCalls'[t] = psCalls[t]
  BY <1>7, <1>8, PsParts
<1>10. PICK entry : /\ entry = [batch |-> payload, by |-> s, answered |-> FALSE]
                    /\ entry \in [batch: SUBSET (PsKey \cup PsFeedType), by: Syncers,
                                  answered: BOOLEAN]
  <2>1. payload \in SUBSET (PsKey \cup PsFeedType) /\ FALSE \in BOOLEAN
    BY <1>5
  <2>2. [batch |-> payload, by |-> s, answered |-> FALSE]
            \in [batch: SUBSET (PsKey \cup PsFeedType), by: Syncers, answered: BOOLEAN]
    BY <2>1
  <2> QED BY <2>2
<1>11. PICK log, m : log = psLog /\ m = Len(log) /\ m \in Nat /\ DOMAIN log = 1..m
  BY PsParts
<1>12. PICK log2 : log2 = psLog'
  OBVIOUS
<1>13. /\ log2 \in Seq([batch: SUBSET (PsKey \cup PsFeedType), by: Syncers, answered: BOOLEAN])
       /\ Len(log2) = m + 1 /\ log2[m + 1] = entry /\ \A n \in 1..m : log2[n] = log[n]
  BY <1>4, <1>10, <1>11, <1>12, PsParts, AppendProperties
<1>14. DOMAIN log2 = 1..(m + 1)
  BY <1>13, LenProperties
<1>15. PsTypes'
  BY <1>3, <1>9, <1>12, <1>13 DEF PsInv, PsTypes
<1>16. PsBusy'
  BY <1>2, <1>7, <1>9 DEF PsInv, PsBusy, PsIdle
<1>17. InstrumentOnce' /\ FeedFollowed'
  <2>1. FeedFollowed
    BY DEF PsInv
  <2>2. FeedFollowed'
    BY <1>3, <2>1, FeedStays
  <2> QED BY <1>3, <2>2 DEF PsInv, InstrumentOnce
<1>18. CreatesRaced'
  BY <1>3, <1>7, <1>9 DEF PsInv, CreatesRaced, PsAt
<1>19. \A n \in 1..m : n \in 1..(m + 1)
  BY <1>11
<1>20. RowsOfSyncs'
  BY <1>3, <1>11, <1>12, <1>13, <1>14, <1>19 DEF PsInv, RowsOfSyncs
<1>21. \A n : StoredBy(n)' = StoredBy(n)
  BY <1>3 DEF StoredBy
<1>22. m + 1 \notin 1..m /\ \A n \in 1..(m + 1) : n \in 1..m \/ n = m + 1
  BY <1>11
<1>23. StoredBy(m + 1) = {}
  BY <1>11, <1>22 DEF StoredBy, PsInv, RowsOfSyncs
<1>24. SyncsAreWhole'
  <2>1. \A n \in 1..m : /\ StoredBy(n) \in {{}, log[n].batch}
                        /\ log[n].answered => StoredBy(n) = log[n].batch
    BY <1>11, WholeBy DEF PsInv
  <2>2. ~entry.answered
    BY <1>10
  <2>3. ASSUME NEW n \in 1..(m + 1)
        PROVE  /\ StoredBy(n) \in {{}, log2[n].batch}
               /\ log2[n].answered => StoredBy(n) = log2[n].batch
    BY <1>13, <1>22, <1>23, <2>1, <2>2
  <2>4. \A n \in DOMAIN psLog' :
            /\ StoredBy(n)' \in {{}, psLog'[n].batch}
            /\ psLog'[n].answered => StoredBy(n)' = psLog'[n].batch
    BY <1>12, <1>14, <1>21, <2>3
  <2> QED BY <2>4 DEF SyncsAreWhole, StoredBy
<1>25. ASSUME NEW t \in Syncers PROVE InLatest(t)'
  <2>1. CASE t # s
    <3>1. ASSUME NEW n \in 1..m, IsLatestOf(t, n) PROVE IsLatestOf(t, n)'
      <4>1. log[n].by = t /\ \A k \in 1..m : log[k].by = t => k <= n
        BY <1>11, <3>1 DEF IsLatestOf
      <4>2. log2[n].by = t /\ \A k \in 1..(m + 1) : log2[k].by = t => k <= n
        BY <1>10, <1>13, <1>22, <2>1, <4>1
      <4> QED BY <1>12, <1>14, <1>19, <4>2 DEF IsLatestOf
    <3>2. ASSUME psCalls'[t].step \in {"store", "audit"}
          PROVE  \E n \in DOMAIN psLog' :
                     /\ IsLatestOf(t, n)' /\ psLog'[n].batch = psCalls'[t].batch
                     /\ ~psLog'[n].answered
                     /\ StoredBy(n)' = IF psCalls'[t].step = "store" THEN {} ELSE psLog'[n].batch
      <4>1. PICK n \in 1..m :
                /\ IsLatestOf(t, n) /\ log[n].batch = psCalls[t].batch /\ ~log[n].answered
                /\ StoredBy(n) = IF psCalls[t].step = "store" THEN {} ELSE log[n].batch
        BY <1>9, <1>11, <2>1, <3>2 DEF PsInv, InLatest
      <4>2. log2[n] = log[n] /\ psCalls'[t] = psCalls[t] /\ n \in DOMAIN log2
        BY <1>9, <1>13, <1>14, <1>19, <2>1
      <4>3. IsLatestOf(t, n)'
        BY <3>1, <4>1
      <4> QED BY <1>12, <1>21, <4>1, <4>2, <4>3
    <3> QED BY <3>2 DEF InLatest
  <2>2. CASE t = s
    <3>1. \A k \in 1..(m + 1) : k <= m + 1
      BY <1>11
    <3>2. m + 1 \in 1..(m + 1)
      BY <1>11
    <3>3. entry.by = s /\ entry.batch = payload /\ ~entry.answered
      BY <1>10
    <3>4. IsLatestOf(t, m + 1)'
      BY <1>12, <1>13, <1>14, <2>2, <3>1, <3>2, <3>3 DEF IsLatestOf
    <3>5. StoredBy(m + 1)' = {}
      BY <1>21, <1>23
    <3>6. psLog'[m + 1].batch = psCalls'[t].batch /\ ~psLog'[m + 1].answered /\ m + 1 \in DOMAIN psLog'
          /\ psCalls'[t].step = "store"
      BY <1>7, <1>9, <1>12, <1>13, <1>14, <2>2, <3>2, <3>3
    <3> QED BY <3>4, <3>5, <3>6 DEF InLatest
  <2> QED BY <2>1, <2>2
<1>26. ASSUME NEW t \in Syncers PROVE ReadsFit(t)'
  <2>1. ReadsFit(t)
    BY DEF PsInv
  <2> QED BY <1>3, <1>7, <1>9, <2>1 DEF ReadsFit, PsAt
<1> QED BY <1>15, <1>16, <1>17, <1>18, <1>20, <1>24, <1>25, <1>26 DEF PsInv

LEMMA PsStores ==
    ASSUME PsInv, NEW s \in Syncers, PsStore(s)
    PROVE  PsInv'
<1>1. PICK c : c = psCalls[s] /\ c \in PsCallType
  BY PsParts
<1>2. c.step = "store" /\ c.kind # "none" /\ c.allowed
  BY <1>1 DEF PsStore, PsAt, PsInv, PsBusy, PsIdle
<1>3. UNCHANGED <<psEnabled, psInstruments, psRules, psRuleIds, psLog, psRaced, psFeed>>
  BY DEF PsStore, psWitness
<1>4. PICK n \in DOMAIN psLog :
          /\ IsLatestOf(s, n) /\ psLog[n].batch = c.batch /\ ~psLog[n].answered
          /\ StoredBy(n) = {}
  BY <1>1, <1>2 DEF PsInv, InLatest
<1>5. CASE Violates(c.batch)
  <2>1. PsFail(s) /\ UNCHANGED psStored
    BY <1>1, <1>5 DEF PsStore
  <2> QED BY <1>3, <2>1, PsFails DEF psTables
<1>6. CASE ~Violates(c.batch)
  <2>1. /\ psStored' = psStored \cup {[key |-> k, by |-> n] : k \in c.batch}
        /\ PsGo(s, "audit") /\ UNCHANGED psTasks
    BY <1>1, <1>4, <1>6, NumberIs DEF PsStore
  <2>2. PICK new : new = [c EXCEPT !.step = "audit"]
    OBVIOUS
  <2>3. /\ new \in PsCallType /\ new.step = "audit" /\ new.kind = c.kind /\ new.allowed = c.allowed
        /\ new.batch = c.batch
    BY <1>1, <2>2 DEF PsCallType, PsStep
  <2>4. psCalls' = [psCalls EXCEPT ![s] = new]
    BY <1>1, <2>1, <2>2 DEF PsGo
  <2>5. /\ psCalls' \in [Syncers -> PsCallType] /\ psCalls'[s] = new
        /\ \A t \in Syncers : t # s => psCalls'[t] = psCalls[t]
    BY <2>3, <2>4, PsParts
  <2>6. StoredBy(n)' = c.batch
    <3>1. StoredBy(n)' \subseteq c.batch
      BY <1>4, <2>1 DEF StoredBy
    <3>2. ASSUME NEW k \in c.batch PROVE k \in StoredBy(n)'
      <4>1. PICK row : row = [key |-> k, by |-> n]
        OBVIOUS
      <4>2. row \in psStored' /\ row.by = n /\ row.key = k
        BY <2>1, <3>2, <4>1
      <4> QED BY <4>2 DEF StoredBy
    <3> QED BY <3>1, <3>2
  <2>7. \A m : m # n => StoredBy(m)' = StoredBy(m)
    BY <2>1 DEF StoredBy
  <2>8. PsTypes'
    BY <1>3, <2>1, <2>5 DEF PsInv, PsTypes
  <2>9. PsBusy'
    BY <1>2, <2>3, <2>5 DEF PsInv, PsBusy, PsIdle
  <2>10. RowsOfSyncs'
    <3>1. ASSUME NEW row \in psStored'
          PROVE  row.by \in DOMAIN psLog /\ row.key \in psLog[row.by].batch
      <4>1. CASE row \in psStored
        BY <4>1 DEF PsInv, RowsOfSyncs
      <4>2. ASSUME NEW k \in c.batch, row = [key |-> k, by |-> n]
            PROVE  row.by \in DOMAIN psLog /\ row.key \in psLog[row.by].batch
        BY <1>4, <4>2
      <4> QED BY <2>1, <3>1, <4>1, <4>2
    <3> QED BY <1>3, <3>1 DEF RowsOfSyncs
  <2>11. SyncsAreWhole'
    <3>1. \A m \in DOMAIN psLog :
              /\ StoredBy(m) \in {{}, psLog[m].batch}
              /\ psLog[m].answered => StoredBy(m) = psLog[m].batch
      BY WholeBy DEF PsInv
    <3>2. \A m \in DOMAIN psLog :
              /\ StoredBy(m)' \in {{}, psLog[m].batch}
              /\ psLog[m].answered => StoredBy(m)' = psLog[m].batch
      BY <1>4, <2>6, <2>7, <3>1
    <3> QED BY <1>3, <3>2 DEF SyncsAreWhole, StoredBy
  <2>12. InstrumentOnce' /\ FeedFollowed'
    <3>1. FeedFollowed
      BY DEF PsInv
    <3>2. FeedFollowed'
      BY <1>3, <3>1, FeedStays
    <3> QED BY <1>3, <3>2 DEF PsInv, InstrumentOnce
  <2>13. CreatesRaced'
    BY <1>3, <2>3, <2>5 DEF PsInv, CreatesRaced, PsAt
  <2>14. ASSUME NEW t \in Syncers PROVE InLatest(t)'
    <3>1. \A m : IsLatestOf(t, m)' <=> IsLatestOf(t, m)
      BY <1>3 DEF IsLatestOf
    <3>2. CASE t = s
      BY <1>3, <1>4, <2>3, <2>5, <2>6, <3>1, <3>2 DEF InLatest
    <3>3. CASE t # s
      <4>1. \A m : IsLatestOf(t, m) => m # n
        BY <1>4, <3>3 DEF IsLatestOf
      <4>2. InLatest(t) /\ psCalls'[t] = psCalls[t]
        BY <2>5, <3>3 DEF PsInv
      <4> QED BY <1>3, <2>7, <3>1, <4>1, <4>2 DEF InLatest
    <3> QED BY <3>2, <3>3
  <2>15. ASSUME NEW t \in Syncers PROVE ReadsFit(t)'
    <3>1. ReadsFit(t)
      BY DEF PsInv
    <3> QED BY <1>3, <2>3, <2>5, <3>1 DEF ReadsFit, PsAt
  <2> QED BY <2>8, <2>9, <2>10, <2>11, <2>12, <2>13, <2>14, <2>15 DEF PsInv
<1> QED BY <1>5, <1>6

LEMMA PsAudits ==
    ASSUME PsInv, NEW s \in Syncers, PsAudit(s)
    PROVE  PsInv'
<1>1. PICK c : c = psCalls[s] /\ c \in PsCallType
  BY PsParts
<1>2. c.step = "audit"
  BY <1>1 DEF PsAudit, PsAt
<1>3. UNCHANGED <<psEnabled, psStored, psInstruments, psRules, psRuleIds, psRaced, psFeed>>
  BY DEF PsAudit, psData
<1>4. PICK n \in DOMAIN psLog :
          /\ IsLatestOf(s, n) /\ StoredBy(n) = psLog[n].batch
  BY <1>1, <1>2 DEF PsInv, InLatest
<1>5. PICK none : /\ none = NoSync /\ none \in PsCallType /\ none.step = "none"
  BY NoSyncIs
<1>6. /\ psCalls' \in [Syncers -> PsCallType] /\ psCalls'[s] = none
      /\ \A t \in Syncers : t # s => psCalls'[t] = psCalls[t]
  BY <1>5, PsParts DEF PsAudit
<1>7. psTasks' \in [Syncers -> Seq(SyncDays \ {Today})]
  <2>1. PICK q : q = Backwards /\ q \in Seq(SyncDays \ {Today})
    BY BackwardsType
  <2>2. psTasks' = [psTasks EXCEPT ![s] = q] \/ psTasks' = psTasks
    BY <2>1 DEF PsAudit
  <2> QED BY <2>1, <2>2, PsParts
<1>8. PICK log, log2, len : log = psLog /\ log2 = psLog' /\ len = Len(log) /\ len \in Nat
                            /\ DOMAIN log = 1..len
  BY PsParts
<1>9. PICK was : /\ was = log[n]
                 /\ was \in [batch: SUBSET (PsKey \cup PsFeedType), by: Syncers, answered: BOOLEAN]
  BY <1>8, PsParts, ElementOfSeq
<1>10. PICK entry : entry = [was EXCEPT !.answered = TRUE]
  OBVIOUS
<1>11. /\ entry \in [batch: SUBSET (PsKey \cup PsFeedType), by: Syncers, answered: BOOLEAN]
       /\ entry.batch = was.batch /\ entry.by = was.by /\ entry.answered
  BY <1>9, <1>10
<1>12. psLog' = [psLog EXCEPT ![n] = entry]
  <2>1. psLog' = [psLog EXCEPT ![n].answered = TRUE]
    BY <1>4, NumberIs DEF PsAudit
  <2> QED BY <1>8, <1>9, <1>10, <2>1
<1>13. /\ log2 \in Seq([batch: SUBSET (PsKey \cup PsFeedType), by: Syncers, answered: BOOLEAN])
       /\ DOMAIN log2 = 1..len /\ log2[n] = entry
       /\ \A m \in 1..len : m # n => log2[m] = log[m]
  <2>1. n \in 1..len
    BY <1>8
  <2>2. log2 = [log EXCEPT ![n] = entry]
    BY <1>8, <1>12
  <2>3. log2 \in Seq([batch: SUBSET (PsKey \cup PsFeedType), by: Syncers, answered: BOOLEAN])
    BY <1>8, <1>11, <2>1, <2>2, PsParts, ExceptSeq
  <2> QED BY <1>8, <2>1, <2>2, <2>3
<1>14. \A m \in 1..len : log2[m].by = log[m].by /\ log2[m].batch = log[m].batch
  BY <1>9, <1>11, <1>13
<1>15. PsTypes'
  BY <1>3, <1>6, <1>7, <1>8, <1>13 DEF PsInv, PsTypes
<1>16. PsBusy'
  BY <1>5, <1>6 DEF PsInv, PsBusy, PsIdle
<1>17. InstrumentOnce' /\ FeedFollowed'
  <2>1. FeedFollowed
    BY DEF PsInv
  <2>2. FeedFollowed'
    BY <1>3, <2>1, FeedStays
  <2> QED BY <1>3, <2>2 DEF PsInv, InstrumentOnce
<1>18. CreatesRaced'
  BY <1>3, <1>5, <1>6 DEF PsInv, CreatesRaced, PsAt
<1>19. RowsOfSyncs'
  BY <1>3, <1>8, <1>13, <1>14 DEF PsInv, RowsOfSyncs
<1>20. \A m : StoredBy(m)' = StoredBy(m)
  BY <1>3 DEF StoredBy
<1>21. SyncsAreWhole'
  <2>1. \A m \in 1..len : /\ StoredBy(m) \in {{}, log[m].batch}
                          /\ log[m].answered => StoredBy(m) = log[m].batch
    BY <1>8, WholeBy DEF PsInv
  <2>2. ASSUME NEW m \in 1..len
        PROVE  /\ StoredBy(m) \in {{}, log2[m].batch}
               /\ log2[m].answered => StoredBy(m) = log2[m].batch
    <3>1. CASE m = n
      BY <1>4, <1>8, <1>9, <1>11, <1>13, <3>1
    <3>2. CASE m # n
      BY <1>13, <2>1, <3>2
    <3> QED BY <3>1, <3>2
  <2>3. \A m \in DOMAIN psLog' :
            /\ StoredBy(m)' \in {{}, psLog'[m].batch}
            /\ psLog'[m].answered => StoredBy(m)' = psLog'[m].batch
    BY <1>8, <1>13, <1>20, <2>2
  <2> QED BY <2>3 DEF SyncsAreWhole, StoredBy
<1>22. ASSUME NEW t \in Syncers PROVE InLatest(t)'
  <2>1. CASE t = s
    BY <1>5, <1>6, <2>1 DEF InLatest
  <2>2. CASE t # s
    <3>1. \A m : IsLatestOf(t, m)' <=> IsLatestOf(t, m)
      BY <1>8, <1>13, <1>14 DEF IsLatestOf
    <3>2. ASSUME psCalls'[t].step \in {"store", "audit"}
          PROVE  \E m \in DOMAIN psLog' :
                     /\ IsLatestOf(t, m)' /\ psLog'[m].batch = psCalls'[t].batch
                     /\ ~psLog'[m].answered
                     /\ StoredBy(m)' = IF psCalls'[t].step = "store" THEN {} ELSE psLog'[m].batch
      <4>1. PICK m \in 1..len :
                /\ IsLatestOf(t, m) /\ log[m].batch = psCalls[t].batch /\ ~log[m].answered
                /\ StoredBy(m) = IF psCalls[t].step = "store" THEN {} ELSE log[m].batch
        BY <1>6, <1>8, <2>2, <3>2 DEF PsInv, InLatest
      <4>2. m # n
        BY <1>4, <2>2, <4>1 DEF IsLatestOf
      <4>3. log2[m] = log[m] /\ psCalls'[t] = psCalls[t] /\ m \in DOMAIN log2
        BY <1>6, <1>13, <2>2, <4>2
      <4> QED BY <1>8, <1>20, <3>1, <4>1, <4>3
    <3> QED BY <3>2 DEF InLatest
  <2> QED BY <2>1, <2>2
<1>23. ASSUME NEW t \in Syncers PROVE ReadsFit(t)'
  <2>1. ReadsFit(t)
    BY DEF PsInv
  <2> QED BY <1>3, <1>5, <1>6, <2>1 DEF ReadsFit, PsAt
<1> QED BY <1>15, <1>16, <1>17, <1>18, <1>19, <1>21, <1>22, <1>23 DEF PsInv

LEMMA RevisedIs ==
    ASSUME NEW top \in Nat, NEW r \in RuleRows(top),
           NEW batch \in SUBSET PsFeedType, NEW changed, AllFound(changed, batch)
    PROVE  /\ Revised(r, changed, batch) \in RuleRows(top)
           /\ Revised(r, changed, batch).id = r.id /\ Revised(r, changed, batch).key = r.key
           /\ ~Touches(changed, r) => Revised(r, changed, batch).version = r.version
           /\ Touches(changed, r) =>
                  \E n \in RulesFor(batch, r.key) : Revised(r, changed, batch).version = n.version
<1>1. CASE ~Touches(changed, r)
  <2>1. Revised(r, changed, batch) = r
    BY <1>1 DEF Revised, Touches, RuleRows
  <2> QED BY <1>1, <2>1 DEF RuleRows
<1>2. CASE Touches(changed, r)
  <2>1. RulesFor(batch, r.key) # {}
    BY <1>2 DEF Same, Touches, AllFound
  <2>2. PICK n : n = (CHOOSE o \in RulesFor(batch, r.key) : TRUE) /\ n \in RulesFor(batch, r.key)
    BY <2>1
  <2>3. PICK v : v = n.version /\ v \in {1, 2}
    BY <2>2 DEF RulesFor, PsFeedType
  <2>4. Revised(r, changed, batch) = [r EXCEPT !.version = v]
    BY <1>2, <2>2, <2>3 DEF Revised, Touches
  <2> QED BY <1>2, <2>2, <2>3, <2>4 DEF RuleRows
<1> QED BY <1>1, <1>2

LEMMA PsWrites ==
    ASSUME PsInv, NEW s \in Syncers, PsWrite(s)
    PROVE  PsInv'
<1>1. PICK c : c = psCalls[s] /\ c \in PsCallType
  BY PsParts
<1>2. c.step = "write" /\ psRuleIds < MaxRules
  BY <1>1 DEF PsWrite, PsAt
<1>3. /\ c.batch \subseteq PsFeedType /\ \A n, o \in c.batch : n.key = o.key => n = o
      /\ ~c.stale => c.seen = {r \in psRules : r.key \in OwnKeys}
  BY <1>1, <1>2 DEF PsInv, ReadsFit, PsAt
<1>4. PICK batch : batch = c.batch /\ batch \in SUBSET PsFeedType
  BY <1>3
<1> DEFINE call == psCalls[s]
           index == Indexed(call.seen)
           changed == {r \in index : \E n \in RulesFor(call.batch, r.key) : n.version # r.version}
           removed == {r \in index : RulesFor(call.batch, r.key) = {}}
           inserted == {n \in call.batch : \A r \in index : r.key # n.key}
           kept == {r \in psRules : \A o \in removed : ~Same(r, o)}
<1>5. \/ PsFail(s) /\ UNCHANGED <<psRules, psRuleIds, psRaced, psFeed>>
      \/ /\ psRules' = {Revised(r, changed, call.batch) : r \in kept}
                        \cup {[id |-> psRuleIds + 1, key |-> n.key, version |-> n.version] :
                                  n \in inserted}
         /\ psRuleIds' = psRuleIds + (IF inserted = {} THEN 0 ELSE 1)
         /\ psRaced' = IF call.stale THEN psRaced \cup {n.key : n \in inserted} ELSE psRaced
         /\ psFeed' = IF call.stale THEN NoFeed ELSE call.batch
         /\ psCalls' = [t \in Syncers |->
                            IF t = s THEN NoSync
                            ELSE [psCalls[t] EXCEPT !.stale = @ \/ PsAt(t, "write")]]
         /\ UNCHANGED psTasks
  BY Zenon DEF PsWrite
<1>6. index = Indexed(c.seen)
  BY <1>1
<1>7. /\ \A r \in changed : r \in index /\ \E n \in RulesFor(batch, r.key) : n.version # r.version
      /\ \A r \in index : \A n \in RulesFor(batch, r.key) : n.version # r.version => r \in changed
  BY <1>1, <1>4
<1>8. /\ \A r : r \in removed <=> r \in index /\ RulesFor(batch, r.key) = {}
      /\ \A n : n \in inserted <=> n \in batch /\ \A r \in index : r.key # n.key
  BY <1>1, <1>4
<1>9. \A r : r \in kept <=> r \in psRules /\ \A o \in removed : ~Same(r, o)
  OBVIOUS
<1> HIDE DEF index, changed, removed, inserted, kept
<1>10. UNCHANGED <<psEnabled, psStored, psInstruments, psLog>>
  BY DEF PsWrite
<1>11. CASE PsFail(s) /\ UNCHANGED <<psRules, psRuleIds, psRaced, psFeed>>
  BY <1>10, <1>11, PsFails DEF psTables
<1>12. CASE /\ psRules' = {Revised(r, changed, call.batch) : r \in kept}
                          \cup {[id |-> psRuleIds + 1, key |-> n.key, version |-> n.version] :
                                    n \in inserted}
            /\ psRuleIds' = psRuleIds + (IF inserted = {} THEN 0 ELSE 1)
            /\ psRaced' = IF call.stale THEN psRaced \cup {n.key : n \in inserted} ELSE psRaced
            /\ psFeed' = IF call.stale THEN NoFeed ELSE call.batch
            /\ psCalls' = [t \in Syncers |->
                               IF t = s THEN NoSync
                               ELSE [psCalls[t] EXCEPT !.stale = @ \/ PsAt(t, "write")]]
            /\ UNCHANGED psTasks
  <2>2. /\ psRuleIds' = psRuleIds + (IF inserted = {} THEN 0 ELSE 1)
        /\ psRaced' = IF c.stale THEN psRaced \cup {n.key : n \in inserted} ELSE psRaced
        /\ psFeed' = IF c.stale THEN NoFeed ELSE batch
        /\ psCalls' = [t \in Syncers |->
                           IF t = s THEN NoSync
                           ELSE [psCalls[t] EXCEPT !.stale = @ \/ PsAt(t, "write")]]
        /\ UNCHANGED psTasks
    BY <1>1, <1>4, <1>12
  <2>3. psRules' = {Revised(r, changed, batch) : r \in kept}
                   \cup {[id |-> psRuleIds + 1, key |-> n.key, version |-> n.version] :
                             n \in inserted}
    BY <1>1, <1>4, <1>12
  <2>4. PICK top, top2 : /\ top = psRuleIds /\ top2 = psRuleIds' /\ top \in Nat
                         /\ top2 \in 0..MaxRules /\ top <= top2
                         /\ inserted # {} => top2 = top + 1
    <3>1. psRuleIds \in 0..MaxRules /\ MaxRules \in Nat
      BY SyncAssumption DEF PsInv, PsTypes
    <3>2. PICK top \in Nat : top = psRuleIds /\ top + 1 \in 0..MaxRules /\ top \in 0..MaxRules
      BY <1>2, <3>1
    <3>3. CASE inserted = {}
      BY <2>2, <3>2, <3>3
    <3>4. CASE inserted # {}
      BY <2>2, <3>2, <3>4
    <3> QED BY <3>3, <3>4
  <2>5. \A r \in psRules : r \in RuleRows(top)
    BY <2>4 DEF PsInv, PsTypes, RuleRows
  <2>6. AllFound(changed, batch)
    BY <1>7 DEF AllFound
  <2>7. \A r \in psRules :
            /\ Revised(r, changed, batch) \in RuleRows(top)
            /\ Revised(r, changed, batch).key = r.key
            /\ ~Touches(changed, r) => Revised(r, changed, batch).version = r.version
            /\ Touches(changed, r) =>
                  \E n \in RulesFor(batch, r.key) : Revised(r, changed, batch).version = n.version
    <3>1. SUFFICES ASSUME NEW r \in psRules
                   PROVE  /\ Revised(r, changed, batch) \in RuleRows(top)
                          /\ Revised(r, changed, batch).key = r.key
                          /\ ~Touches(changed, r) =>
                                 Revised(r, changed, batch).version = r.version
                          /\ Touches(changed, r) =>
                                 \E n \in RulesFor(batch, r.key) :
                                     Revised(r, changed, batch).version = n.version
      BY Zenon
    <3>2. r \in RuleRows(top)
      BY <2>5
    <3>3. top \in Nat
      BY <2>4
    <3>4. /\ Revised(r, changed, batch) \in RuleRows(top)
          /\ Revised(r, changed, batch).key = r.key
      BY <1>4, <2>6, <3>2, <3>3, RevisedIs
    <3>5. /\ ~Touches(changed, r) => Revised(r, changed, batch).version = r.version
          /\ Touches(changed, r) =>
                 \E n \in RulesFor(batch, r.key) : Revised(r, changed, batch).version = n.version
      BY <1>4, <2>6, <3>2, <3>3, RevisedIs DEF Touches
    <3> QED BY <3>4, <3>5
  <2>8. psRules' \subseteq [id: 1..top2, key: RuleKeys, version: {1, 2}]
    <3>1. ASSUME NEW r \in kept
          PROVE  Revised(r, changed, batch) \in [id: 1..top2, key: RuleKeys, version: {1, 2}]
      <4>1. Revised(r, changed, batch) \in RuleRows(top)
        BY <1>9, <2>7
      <4>2. top2 \in Nat /\ \A i \in 1..top : i \in 1..top2
        BY <2>4, SyncAssumption
      <4> QED BY <4>1, <4>2 DEF RuleRows
    <3>2. ASSUME NEW n \in inserted
          PROVE  [id |-> psRuleIds + 1, key |-> n.key, version |-> n.version]
                     \in [id: 1..top2, key: RuleKeys, version: {1, 2}]
      <4>1. n.key \in RuleKeys /\ n.version \in {1, 2}
        BY <1>4, <1>8 DEF PsFeedType
      <4>2. psRuleIds + 1 \in 1..top2
        BY <2>4, SyncAssumption
      <4> QED BY <4>1, <4>2
    <3> QED BY <2>3, <3>1, <3>2
  <2>9. ASSUME NEW t \in Syncers, t # s
        PROVE  /\ psCalls'[t] \in PsCallType
               /\ psCalls'[t].kind = psCalls[t].kind /\ psCalls'[t].step = psCalls[t].step
               /\ psCalls'[t].batch = psCalls[t].batch /\ psCalls'[t].allowed = psCalls[t].allowed
               /\ psCalls[t].step = "write" => psCalls'[t].stale
    <3>1. PICK d : d = psCalls[t] /\ d \in PsCallType
      BY PsParts
    <3>2. PICK stale \in BOOLEAN : stale = (d.stale \/ PsAt(t, "write"))
      <4>1. (d.stale \/ PsAt(t, "write")) \in BOOLEAN
        OBVIOUS
      <4> QED BY <4>1
    <3>3. psCalls'[t] = [d EXCEPT !.stale = stale]
      BY <2>2, <2>9, <3>1, <3>2
    <3>4. d.step = "write" => stale
      BY <3>1, <3>2 DEF PsAt
    <3> QED BY <3>1, <3>3, <3>4 DEF PsCallType
  <2>10. psCalls'[s] \in PsCallType /\ psCalls'[s].step = "none"
    <3>1. PICK none : none = NoSync /\ none \in PsCallType /\ none.step = "none"
      BY NoSyncIs
    <3>2. psCalls'[s] = none
      BY <2>2, <3>1
    <3> QED BY <3>1, <3>2
  <2>11. psCalls' \in [Syncers -> PsCallType]
    <3>1. \A t \in Syncers : psCalls'[t] \in PsCallType
      BY <2>9, <2>10
    <3>2. psCalls' = [t \in Syncers |-> psCalls'[t]]
      BY <2>2
    <3> QED BY <3>1, <3>2
  <2>12. psRaced \subseteq psRaced' /\ psRaced' \subseteq RuleKeys \cup {"instrument"}
    <3>1. \A n \in inserted : n.key \in RuleKeys
      BY <1>4, <1>8 DEF PsFeedType
    <3> QED BY <2>2, <3>1 DEF PsInv, PsTypes
  <2>13. PsTypes'
    BY <1>10, <2>2, <2>4, <2>8, <2>11, <2>12 DEF PsInv, PsTypes
  <2>14. PsBusy'
    BY <2>9, <2>10 DEF PsInv, PsBusy, PsIdle
  <2>15. RowsOfSyncs' /\ SyncsAreWhole'
    BY <1>10 DEF PsInv, RowsOfSyncs, SyncsAreWhole
  <2>16. InstrumentOnce'
    BY <1>10, <2>12 DEF PsInv, InstrumentOnce
  <2>17. CreatesRaced'
    BY <1>10, <2>9, <2>10, <2>12 DEF PsInv, CreatesRaced, PsAt
  <2>18. ASSUME NEW t \in Syncers PROVE InLatest(t)'
    <3>1. \A n : (IsLatestOf(t, n)' <=> IsLatestOf(t, n)) /\ StoredBy(n)' = StoredBy(n)
      BY <1>10 DEF IsLatestOf, StoredBy
    <3>2. InLatest(t)
      BY DEF PsInv
    <3> QED BY <1>10, <2>9, <2>10, <3>1, <3>2 DEF InLatest
  <2>19. ASSUME NEW t \in Syncers PROVE ReadsFit(t)'
    <3>1. CASE t = s
      BY <2>10, <3>1 DEF ReadsFit, PsAt
    <3>2. CASE t # s
      <4>1. ReadsFit(t)
        BY DEF PsInv
      <4> QED BY <2>9, <3>2, <4>1 DEF ReadsFit, PsAt
    <3> QED BY <3>1, <3>2
  <2>20. ASSUME NEW k \in OwnKeys \ psRaced', NEW r \in RowsOf(k), ~c.stale
         PROVE  /\ r \in index
                /\ \A o \in index : o.key = k => o = r
    <3>1. k \notin psRaced /\ r \in psRules /\ r.key = k
      BY <2>12, <2>20 DEF RowsOf
    <3>2. \A o, q \in RowsOf(k) : o = q
      BY <2>20, <3>1 DEF PsInv, FeedFollowed
    <3>3. c.seen = {o \in psRules : o.key \in OwnKeys}
      BY <1>3, <2>20
    <3>4. \A o \in c.seen : o.key = r.key => o = r
      BY <2>20, <3>1, <3>2, <3>3 DEF RowsOf
    <3>5. r.id <= r.id
      <4>1. r.id \in Nat
        BY <2>4, <2>5, <3>1 DEF RuleRows
      <4> QED BY <4>1
    <3>6. r \in c.seen
      BY <2>20, <3>1, <3>3
    <3> QED BY <1>6, <3>1, <3>4, <3>5, <3>6 DEF Indexed
  <2>21. ASSUME NEW k \in OwnKeys \ psRaced', NEW x \in RowsOf(k)', NEW y \in RowsOf(k)'
         PROVE  x = y
    <3>1. k \notin psRaced
      BY <2>12, <2>21
    <3>2. \A o, q \in RowsOf(k) : o = q
      BY <2>21, <3>1 DEF PsInv, FeedFollowed
    <3>3. ASSUME NEW z \in RowsOf(k)'
          PROVE  \/ \E r \in RowsOf(k) : z = Revised(r, changed, batch)
                 \/ \E n \in inserted :
                        n.key = k /\ z = [id |-> psRuleIds + 1, key |-> n.key, version |-> n.version]
      <4>1. z \in psRules' /\ z.key = k
        BY <3>3 DEF RowsOf
      <4>2. CASE \E r \in kept : z = Revised(r, changed, batch)
        <5>1. PICK r \in kept : z = Revised(r, changed, batch)
          BY <4>2
        <5>2. r \in psRules /\ r.key = k
          BY <1>9, <2>7, <4>1, <5>1
        <5> QED BY <5>1, <5>2 DEF RowsOf
      <4>3. CASE \E n \in inserted :
                     z = [id |-> psRuleIds + 1, key |-> n.key, version |-> n.version]
        BY <4>1, <4>3
      <4> QED BY <2>3, <4>1, <4>2, <4>3
    <3>4. ASSUME NEW r \in RowsOf(k), NEW n \in inserted, n.key = k PROVE FALSE
      <4>1. ~c.stale
        BY <2>2, <2>21, <3>4
      <4>2. r \in index /\ r.key = k
        BY <2>20, <2>21, <4>1 DEF RowsOf
      <4> QED BY <1>8, <3>4, <4>2
    <3>5. \A n, o \in inserted : n.key = k /\ o.key = k => n = o
      BY <1>3, <1>4, <1>8
    <3>6. CASE \E r \in RowsOf(k) : x = Revised(r, changed, batch)
      BY <2>21, <3>2, <3>3, <3>4, <3>6
    <3>7. CASE \E n \in inserted :
                   n.key = k /\ x = [id |-> psRuleIds + 1, key |-> n.key, version |-> n.version]
      <4>1. PICK n \in inserted :
                n.key = k /\ x = [id |-> psRuleIds + 1, key |-> n.key, version |-> n.version]
        BY <3>7
      <4>2. PICK o \in inserted :
                o.key = k /\ y = [id |-> psRuleIds + 1, key |-> o.key, version |-> o.version]
        BY <2>21, <3>3, <3>4, <4>1
      <4>3. n = o
        BY <3>5, <4>1, <4>2
      <4> QED BY <4>1, <4>2, <4>3
    <3> QED BY <2>21, <3>3, <3>6, <3>7
  <2>22. ASSUME NEW k \in OwnKeys \ psRaced', ~c.stale, NEW r \in RowsOf(k),
                NEW n \in RulesFor(batch, k)
         PROVE  r \in kept /\ Revised(r, changed, batch).version = n.version
    <3>1. r \in psRules /\ r.key = k /\ n \in batch /\ n.key = k
      BY <2>22 DEF RowsOf, RulesFor
    <3>2. r \in index
      BY <2>20, <2>22
    <3>3. r \in kept
      BY <1>8, <1>9, <2>22, <3>1 DEF Same
    <3>4. \A o \in RulesFor(batch, k) : o = n
      BY <1>3, <1>4, <3>1 DEF RulesFor
    <3>5. CASE Touches(changed, r)
      <4>1. PICK o \in RulesFor(batch, r.key) : Revised(r, changed, batch).version = o.version
        BY <2>7, <3>1, <3>5
      <4>2. o = n
        BY <3>1, <3>4, <4>1
      <4> QED BY <3>3, <4>1, <4>2
    <3>6. CASE ~Touches(changed, r)
      <4>1. r \notin changed
        BY <3>6 DEF Same, Touches
      <4>2. n.version = r.version
        BY <1>7, <2>22, <3>1, <3>2, <4>1
      <4>3. Revised(r, changed, batch).version = r.version
        BY <2>7, <3>1, <3>6
      <4> QED BY <3>3, <4>2, <4>3
    <3> QED BY <3>3, <3>5, <3>6
  <2>23. ASSUME NEW k \in OwnKeys \ psRaced', psFeed' # NoFeed
         PROVE  {r.version : r \in RowsOf(k)'} = {n.version : n \in RulesFor(psFeed', k)}
    <3>1. ~c.stale /\ psFeed' = batch
      BY <2>2, <2>23
    <3>2. ASSUME NEW x \in RowsOf(k)'
          PROVE  \E n \in RulesFor(batch, k) : x.version = n.version
      <4>1. x \in psRules' /\ x.key = k
        BY <3>2 DEF RowsOf
      <4>2. CASE \E r \in kept : x = Revised(r, changed, batch)
        <5>1. PICK r \in kept : x = Revised(r, changed, batch)
          BY <4>2
        <5>2. r \in psRules /\ r.key = k /\ r \in RowsOf(k)
          BY <1>9, <2>7, <4>1, <5>1 DEF RowsOf
        <5>3. r \in index
          BY <2>20, <2>23, <3>1, <5>2
        <5>4. r \notin removed
          BY <1>9, <5>1 DEF Same
        <5>5. PICK n \in RulesFor(batch, k) : TRUE
          BY <1>8, <5>2, <5>3, <5>4
        <5> QED BY <2>22, <2>23, <3>1, <5>1, <5>2, <5>5
      <4>3. CASE \E n \in inserted :
                     x = [id |-> psRuleIds + 1, key |-> n.key, version |-> n.version]
        BY <1>8, <4>1, <4>3 DEF RulesFor
      <4> QED BY <2>3, <4>1, <4>2, <4>3
    <3>3. ASSUME NEW n \in RulesFor(batch, k)
          PROVE  \E x \in RowsOf(k)' : x.version = n.version
      <4>1. n \in batch /\ n.key = k
        BY <3>3 DEF RulesFor
      <4>2. CASE \E r \in index : r.key = k
        <5>1. PICK r \in index : r.key = k
          BY <4>2
        <5>2. r \in psRules
          BY <1>3, <1>6, <3>1, <5>1 DEF Indexed
        <5>3. r \in RowsOf(k)
          BY <5>1, <5>2 DEF RowsOf
        <5>4. r \in kept /\ Revised(r, changed, batch).version = n.version
          BY <2>22, <2>23, <3>1, <3>3, <5>3
        <5>5. PICK x : x = Revised(r, changed, batch)
          OBVIOUS
        <5>6. x \in psRules' /\ x.key = k
          BY <2>3, <2>7, <5>1, <5>2, <5>4, <5>5
        <5> QED BY <5>4, <5>5, <5>6 DEF RowsOf
      <4>3. CASE ~\E r \in index : r.key = k
        <5>1. n \in inserted
          BY <1>8, <4>1, <4>3
        <5>2. PICK x : x = [id |-> psRuleIds + 1, key |-> n.key, version |-> n.version]
          OBVIOUS
        <5>3. x \in psRules' /\ x.key = k /\ x.version = n.version
          BY <2>3, <4>1, <5>1, <5>2
        <5> QED BY <5>3 DEF RowsOf
      <4> QED BY <4>2, <4>3
    <3> QED BY <3>1, <3>2, <3>3
  <2>24. FeedFollowed'
    BY <2>21, <2>23 DEF FeedFollowed
  <2> QED BY <2>13, <2>14, <2>15, <2>16, <2>17, <2>18, <2>19, <2>24 DEF PsInv
<1> QED BY <1>5, <1>11, <1>12

LEMMA PsStarts == PsInit => PsInv
<1> SUFFICES ASSUME PsInit PROVE PsInv
  OBVIOUS
<1>1. /\ psEnabled = TRUE /\ psStored = {} /\ psInstruments = 0 /\ psRules = {} /\ psRuleIds = 0
      /\ psCalls = [s \in Syncers |-> NoSync] /\ psTasks = [s \in Syncers |-> <<>>]
      /\ psLog = <<>> /\ psRaced = {} /\ psFeed = {}
  BY DEF PsInit
<1>2. PICK none : none = NoSync /\ none \in PsCallType /\ none.step = "none"
  BY NoSyncIs
<1>3. psCalls \in [Syncers -> PsCallType] /\ \A s \in Syncers : psCalls[s].step = "none"
  BY <1>1, <1>2
<1>4. DOMAIN psLog = {} /\ \A S : psLog \in Seq(S)
  BY <1>1, EmptySeq
<1>5. PsTypes
  <2>1. psTasks \in [Syncers -> Seq(SyncDays \ {Today})]
    BY <1>1, EmptySeq
  <2>2. psRuleIds \in 0..MaxRules /\ psInstruments \in Nat /\ psEnabled \in BOOLEAN
    BY <1>1, SyncAssumption
  <2> QED BY <1>1, <1>3, <1>4, <2>1, <2>2 DEF PsTypes
<1>6. PsBusy /\ RowsOfSyncs /\ SyncsAreWhole /\ InstrumentOnce /\ CreatesRaced
  BY <1>1, <1>3, <1>4 DEF PsBusy, RowsOfSyncs, SyncsAreWhole, InstrumentOnce, CreatesRaced
<1>7. FeedFollowed
  BY <1>1 DEF FeedFollowed, RowsOf, RulesFor
<1>8. \A s \in Syncers : InLatest(s) /\ ReadsFit(s)
  BY <1>3 DEF InLatest, ReadsFit, PsAt
<1> QED BY <1>5, <1>6, <1>7, <1>8 DEF PsInv

LEMMA PsWorks ==
    ASSUME PsInv, NEW s \in Syncers, PsWork(s)
    PROVE  PsInv'
<1>1. CASE PsFetchFails(s) \/ PsAuditFails(s) \/ PsRefuseFeed(s)
  <2>1. PsFail(s) /\ UNCHANGED psTables /\ UNCHANGED <<psInstruments, psEnabled>>
    BY <1>1 DEF PsFetchFails, PsAuditFails, PsRefuseFeed, psTables, psData, psWitness
  <2> QED BY <2>1, PsFails
<1> QED
  BY <1>1, PsLooksUp, PsCreates, PsFetches, PsRetries, PsStores, PsAudits, PsTasksBegin, PsReads,
     PsWrites
  DEF PsWork

LEMMA PsSteps == PsInv /\ [PsNext]_psVars => PsInv'
<1> SUFFICES ASSUME PsInv, [PsNext]_psVars PROVE PsInv'
  OBVIOUS
<1>1. CASE \E s \in Syncers : PsRequests(s, {"fx", "market", "tax"})
  BY <1>1, PsBegins DEF PsRequests
<1>2. CASE \E s \in Syncers : PsWork(s)
  BY <1>2, PsWorks
<1>3. CASE \E enabled \in BOOLEAN : PsSwitch(enabled)
  BY <1>3, PsSwitches
<1>4. CASE UNCHANGED psVars
  <2>1. /\ UNCHANGED <<psEnabled, psStored, psInstruments, psRules, psRuleIds, psCalls, psTasks>>
        /\ UNCHANGED <<psLog, psRaced, psFeed>>
    BY <1>4 DEF psVars
  <2>2. PsTypes' /\ PsBusy'
    BY <2>1 DEF PsInv, PsTypes, PsBusy, PsIdle
  <2>3. RowsOfSyncs' /\ SyncsAreWhole' /\ InstrumentOnce' /\ CreatesRaced' /\ FeedFollowed'
    BY <2>1 DEF PsInv, RowsOfSyncs, SyncsAreWhole, InstrumentOnce, CreatesRaced, PsAt,
                FeedFollowed, RowsOf
  <2>4. \A s \in Syncers : InLatest(s)' /\ ReadsFit(s)'
    BY <2>1 DEF PsInv, InLatest, IsLatestOf, StoredBy, ReadsFit, PsAt
  <2> QED BY <2>2, <2>3, <2>4 DEF PsInv
<1> QED BY <1>1, <1>2, <1>3, <1>4 DEF PsNext

LEMMA PsInvHolds == PsSpec => []PsInv
  BY PsStarts, PsSteps, PTL DEF PsSpec

\* The types of the rows, requests and tasks (PsTypeOK): a row is of a sync that fetched
\* it, and no request is tried more often than the client allows.
THEOREM SyncsTyped == PsSpec => []PsTypeOK
<1>1. ASSUME PsInv PROVE PsTypeOK
  <2>1. ASSUME NEW s \in Syncers
        PROVE  /\ psCalls[s].kind \in {"none", "fx", "task", "market", "tax"}
               /\ psCalls[s].step \in PsStep
               /\ psCalls[s].attempt \in 0..(MaxAttempts - 1)
               /\ psTasks[s] \in Seq(SyncDays \ {Today})
    <3>1. PICK c : c = psCalls[s] /\ c \in PsCallType
      BY <1>1, PsParts
    <3>2. psTasks[s] \in Seq(SyncDays \ {Today})
      BY <1>1, PsParts
    <3> QED BY <3>1, <3>2 DEF PsCallType
  <2> QED BY <1>1, <2>1 DEF PsTypeOK, PsInv, PsTypes, RowsOfSyncs, PsStep
<1> QED BY <1>1, PsInvHolds, PTL

\* Syncs are sound (SyncsAreWhole, InstrumentOnce, RulesFollowFeed, AskedWhileAllowed):
\* whatever others store in between, a sync stores all it fetched or nothing, a symbol
\* gets a second instrument and a rule a second row only from requests that raced, the
\* rules are those of the feed, and a request asks only a provider allowed since it began.
THEOREM SyncsHold ==
    PsSpec => []SyncsAreWhole /\ []InstrumentOnce /\ []RulesFollowFeed /\ []AskedWhileAllowed
<1>1. ASSUME PsInv PROVE RulesFollowFeed
  <2>1. ASSUME NEW k \in OwnKeys \ psRaced
        PROVE  Cardinality(RowsOf(k)) <= 1
    <3>1. \A r, o \in RowsOf(k) : r = o
      BY <1>1, <2>1 DEF PsInv, FeedFollowed
    <3>2. CASE RowsOf(k) = {}
      BY <3>2, FS_EmptySet
    <3>3. CASE RowsOf(k) # {}
      <4>1. PICK r : RowsOf(k) = {r}
        BY <3>1, <3>3
      <4> QED BY <4>1, FS_Singleton
    <3> QED BY <3>2, <3>3
  <2> QED BY <1>1, <2>1 DEF PsInv, FeedFollowed, RulesFollowFeed, RowsOf
<1>2. ASSUME PsInv PROVE AskedWhileAllowed
  BY <1>2 DEF PsInv, PsBusy, AskedWhileAllowed, PsAt
<1>3. PsInv => SyncsAreWhole /\ InstrumentOnce /\ RulesFollowFeed /\ AskedWhileAllowed
  BY <1>1, <1>2 DEF PsInv
<1> QED BY <1>3, PsInvHolds, PTL

-----------------------------------------------------------------------------
(* Snapshots.  What a cache holds fits its key, and was asked for since    *)
(* the cache was cleared or stored late (CacheFits); what a run has and    *)
(* answers is of its scenario and not from before its reset (SbRunFits);   *)
(* the misses counted are the calls made but for who is about to ask       *)
(* (CountsFit).  That plans agree is a fact of the document alone.         *)
\* What a plan's scenarios can be, and the symbols ports can answer about them.
SbScenes == {CliBatch(sbPlan)[n] : n \in DOMAIN sbPlan.scenarios}
                \cup {ApiBatch(sbPlan)[n] : n \in DOMAIN sbPlan.scenarios}
SbSymbols ==
    UNION {UNION (PortAnswers(s, 1) \cup PortAnswers(s, 2) \cup PortAnswers(s, 3)) : s \in SbScenes}
SbValues == [data: SUBSET SbSymbols, epoch: Nat, late: BOOLEAN]
SbKeys == {KeyOf(s, p) : s \in SbScenes, p \in SbPorts}
SbEntries == [key: SbKeys, value: SbValues, expires: Nat]

SbCounts == [SbPorts -> Nat]
SbSteps == {"idle", "clear", "look", "ask", "store", "diagnose", "answered", "failed"}
SbResultType(S, V) == [scenario: S, got: Seq(V), cleared: SbCounts, missing: SUBSET SbPorts]
SbRunType(S, V) ==
    [step: SbSteps, reset: BOOLEAN, todo: Seq(S), port: SbPorts, value: V, cleared: SbCounts,
     got: Seq(V), results: Seq(SbResultType(S, V))]

SbTypes ==
    /\ sbPlan \in Plans /\ sbCaching \in BOOLEAN /\ sbClock \in 0..MaxTicks
    /\ sbCaches \in [SbPorts -> SUBSET SbEntries]
    /\ sbHits \in SbCounts /\ sbMisses \in SbCounts /\ sbEpoch \in SbCounts /\ sbAsked \in SbCounts
    /\ sbRuns \in [Runners -> SbRunType(SbScenes, SbValues)]

\* A port's value is one of those for the scenario, and not from before the reset unless
\* it was stored late.
IsFresh(value, cleared) == value = Nothing \/ value.epoch >= cleared \/ value.late
Serves(value, scenario, p, cleared) ==
    value.data \in PortAnswers(scenario, p) /\ IsFresh(value, cleared)

ResultFits(result) ==
    /\ Len(result.got) = 3 /\ result.missing = Missing(result.got)
    /\ \A p \in SbPorts : Serves(result.got[p], result.scenario, p, result.cleared[p])

\* A run has asked the ports before its own for the scenario at hand, in their order.
SbRunFits(run, epochs) ==
    /\ \A p \in SbPorts : run.cleared[p] <= epochs[p]
    /\ run.step \in {"clear", "look", "ask", "store", "diagnose"} => run.todo # <<>>
    /\ run.step \in {"idle", "clear", "answered", "failed"} => run.got = <<>>
    /\ run.step \in {"look", "ask", "store"} => Len(run.got) = run.port - 1
    /\ run.step = "diagnose" => Len(run.got) = 3 /\ run.port = 1
    /\ \A p \in DOMAIN run.got : Serves(run.got[p], Head(run.todo), p, run.cleared[p])
    /\ run.step = "store" =>
           /\ run.value.data \in PortAnswers(Head(run.todo), run.port)
           /\ run.value.epoch >= run.cleared[run.port]
    /\ \A n \in DOMAIN run.results : ResultFits(run.results[n])

\* What a cache holds fits its key, and was asked for since it was cleared, or stored late.
CacheFits(p) ==
    \A e \in sbCaches[p] :
        /\ \A s \in SbScenes : KeyOf(s, p) = e.key => e.value.data \in PortAnswers(s, p)
        /\ e.value.late \/ e.value.epoch >= sbEpoch[p]

\* Who has missed and not been answered.
Asking(p) == {r \in Runners : SbAt(r, "ask") /\ sbRuns[r].port = p}
CountsFit(p) ==
    /\ IsFiniteSet(Asking(p))
    /\ sbCaching => sbMisses[p] = sbAsked[p] + Cardinality(Asking(p))

SbInv ==
    /\ SbTypes
    /\ \A r \in Runners : SbRunFits(sbRuns[r], sbEpoch)
    /\ \A p \in SbPorts : CacheFits(p) /\ CountsFit(p)

LEMMA PortsAre == SbPorts = {1, 2, 3}
  BY DEF SbPorts

LEMMA ScenesStay ==
    ASSUME UNCHANGED sbPlan
    PROVE  SbScenes' = SbScenes /\ SbValues' = SbValues /\ SbEntries' = SbEntries
<1>1. SbScenes' = SbScenes
  BY DEF SbScenes
<1>2. SbSymbols' = SbSymbols /\ SbKeys' = SbKeys
  BY <1>1 DEF SbSymbols, SbKeys
<1> QED BY <1>1, <1>2 DEF SbValues, SbEntries

LEMMA NothingFits ==
    /\ Nothing \in SbValues /\ Nothing.data = {}
    /\ \A s : {} \in PortAnswers(s, 1) /\ {} \in PortAnswers(s, 2) /\ {} \in PortAnswers(s, 3)
<1>1. Nothing \in SbValues /\ Nothing.data = {}
  BY DEF Nothing, SbValues
<1>2. ASSUME NEW s PROVE {} \in PortAnswers(s, 1) /\ {} \in PortAnswers(s, 2) /\ {} \in PortAnswers(s, 3)
  BY DEF PortAnswers, FxAnswers, CommodityAnswers, TaxAnswers
<1> QED BY <1>1, <1>2

LEMMA RestingIs ==
    ASSUME NEW S, NEW V, Nothing \in V
    PROVE  /\ Resting \in SbRunType(S, V)
           /\ Resting.step = "idle" /\ Resting.got = <<>> /\ Resting.results = <<>>
           /\ Resting.port = 1 /\ \A p \in SbPorts : Resting.cleared[p] = 0
<1>1. PICK zeros : zeros = <<0, 0, 0>>
  OBVIOUS
<1>2. zeros \in SbCounts /\ \A p \in SbPorts : zeros[p] = 0
  BY <1>1 DEF SbCounts, SbPorts
<1>3. /\ <<>> \in Seq(S) /\ <<>> \in Seq(V) /\ <<>> \in Seq(SbResultType(S, V))
  BY EmptySeq
<1>4. 1 \in SbPorts
  BY DEF SbPorts
<1>5. Resting = [step |-> "idle", reset |-> FALSE, todo |-> <<>>, port |-> 1, value |-> Nothing,
                 cleared |-> zeros, got |-> <<>>, results |-> <<>>]
  BY <1>1 DEF Resting
<1> QED BY <1>2, <1>3, <1>4, <1>5 DEF SbRunType, SbSteps

LEMMA SbParts ==
    ASSUME SbInv, NEW r \in Runners
    PROVE  /\ sbRuns \in [Runners -> SbRunType(SbScenes, SbValues)]
           /\ sbRuns[r] \in SbRunType(SbScenes, SbValues)
           /\ SbRunFits(sbRuns[r], sbEpoch)
  BY DEF SbInv, SbTypes

\* What a run has is fresh whatever is cleared by others.
LEMMA FitsOn ==
    ASSUME NEW run, NEW old \in SbCounts, NEW new \in SbCounts, SbRunFits(run, old),
           run.cleared \in SbCounts, \A p \in SbPorts : old[p] <= new[p]
    PROVE  SbRunFits(run, new)
<1>1. \A p \in SbPorts : run.cleared[p] <= new[p]
  BY DEF SbRunFits, SbCounts
<1> QED BY <1>1 DEF SbRunFits

\* One runner goes on.
LEMMA SbRunMoves ==
    ASSUME SbInv, NEW r \in Runners, NEW new \in SbRunType(SbScenes, SbValues),
           sbRuns' = [sbRuns EXCEPT ![r] = new], UNCHANGED sbGiven,
           sbClock' \in 0..MaxTicks, sbCaches' \in [SbPorts -> SUBSET SbEntries],
           sbHits' \in SbCounts, sbMisses' \in SbCounts, sbAsked' \in SbCounts,
           sbEpoch' \in SbCounts, \A p \in SbPorts : sbEpoch[p] <= sbEpoch'[p],
           SbRunFits(new, sbEpoch'), \A p \in SbPorts : CacheFits(p)' /\ CountsFit(p)'
    PROVE  SbInv'
<1>1. sbPlan' = sbPlan /\ sbCaching' = sbCaching
  BY DEF sbGiven
<1>2. /\ SbScenes' = SbScenes /\ SbValues' = SbValues /\ SbEntries' = SbEntries
  BY <1>1, ScenesStay
<1>3. sbRuns' \in [Runners -> SbRunType(SbScenes, SbValues)]
  BY SbParts
<1>4. SbTypes'
  BY <1>1, <1>2, <1>3 DEF SbTypes, SbInv
<1>5. ASSUME NEW o \in Runners PROVE SbRunFits(sbRuns'[o], sbEpoch')
  <2>1. CASE o = r
    BY <2>1, SbParts
  <2>2. CASE o # r
    <3>1. PICK run : run = sbRuns[o] /\ run = sbRuns'[o]
      BY <2>2, SbParts
    <3>2. run.cleared \in SbCounts /\ SbRunFits(run, sbEpoch) /\ sbEpoch \in SbCounts
      BY <3>1, SbParts DEF SbRunType, SbInv, SbTypes
    <3> QED BY <3>1, <3>2, FitsOn
  <2> QED BY <2>1, <2>2
<1> QED BY <1>4, <1>5 DEF SbInv

LEMMA AskingStays ==
    ASSUME SbInv, NEW r \in Runners, NEW new, sbRuns' = [sbRuns EXCEPT ![r] = new],
           new.step # "ask", sbRuns[r].step # "ask", UNCHANGED <<sbCaching, sbMisses, sbAsked>>
    PROVE  \A p \in SbPorts : CountsFit(p)'
<1>1. \A o \in Runners : sbRuns'[o] = IF o = r THEN new ELSE sbRuns[o]
  BY SbParts
<1>2. \A p : Asking(p)' = Asking(p)
  BY <1>1 DEF Asking, SbAt
<1> QED BY <1>2 DEF SbInv, CountsFit

LEMMA CachesStay ==
    ASSUME SbInv, UNCHANGED <<sbPlan, sbCaches, sbEpoch>>
    PROVE  /\ \A p \in SbPorts : CacheFits(p)'
           /\ sbCaches' \in [SbPorts -> SUBSET SbEntries] /\ sbEpoch' \in SbCounts
           /\ \A p \in SbPorts : sbEpoch[p] <= sbEpoch'[p]
<1>1. SbScenes' = SbScenes
  BY ScenesStay
<1>2. \A p \in SbPorts : sbEpoch[p] <= sbEpoch'[p]
  BY DEF SbInv, SbTypes, SbCounts
<1> QED BY <1>1, <1>2 DEF SbInv, SbTypes, CacheFits

LEMMA BatchTypes ==
    ASSUME SbInv
    PROVE  CliBatch(sbPlan) \in Seq(SbScenes) /\ ApiBatch(sbPlan) \in Seq(SbScenes)
<1>1. PICK m \in Nat : DOMAIN sbPlan.scenarios = 1..m
  BY SnapshotAssumption DEF SbInv, SbTypes
<1>2. ASSUME NEW batch, DOMAIN batch = 1..m, batch = [n \in 1..m |-> batch[n]],
             \A n \in 1..m : batch[n] \in SbScenes
      PROVE  batch \in Seq(SbScenes)
  <2>1. batch \in [1..m -> SbScenes]
    BY <1>2
  <2> QED BY <2>1, SeqDef
<1>3. PICK b : b = CliBatch(sbPlan)
  OBVIOUS
<1>4. PICK c : c = ApiBatch(sbPlan)
  OBVIOUS
<1>5. b = [n \in 1..m |-> b[n]] /\ c = [n \in 1..m |-> c[n]]
  BY <1>1, <1>3, <1>4 DEF CliBatch, ApiBatch
<1>6. \A n \in 1..m : b[n] \in SbScenes /\ c[n] \in SbScenes
  BY <1>1, <1>3, <1>4 DEF SbScenes
<1> QED BY <1>2, <1>3, <1>4, <1>5, <1>6

LEMMA SbStarts ==
    ASSUME SbInv, NEW r \in Runners, NEW batch \in Seq(SbScenes), NEW reset \in BOOLEAN,
           SbStart(r, batch, reset)
    PROVE  SbInv'
<1>1. PICK rest : /\ rest = Resting /\ rest \in SbRunType(SbScenes, SbValues)
                  /\ rest.got = <<>> /\ rest.results = <<>> /\ rest.port = 1
                  /\ \A p \in SbPorts : rest.cleared[p] = 0
  BY NothingFits, RestingIs
<1>2. PICK step : step = Opening(reset) /\ step \in {"clear", "look"}
  BY DEF Opening
<1>3. PICK new : new = [rest EXCEPT !.step = step, !.reset = reset, !.todo = batch]
  OBVIOUS
<1>4. sbRuns' = [sbRuns EXCEPT ![r] = new]
  BY <1>1, <1>2, <1>3 DEF SbStart
<1>5. /\ new \in SbRunType(SbScenes, SbValues) /\ new.step = step /\ new.got = <<>>
      /\ new.results = <<>> /\ new.port = 1 /\ new.todo = batch /\ new.cleared = rest.cleared
  BY <1>1, <1>2, <1>3 DEF SbRunType, SbSteps
<1>6. /\ UNCHANGED <<sbClock, sbCaches, sbHits, sbMisses, sbEpoch, sbAsked>>
      /\ UNCHANGED sbGiven /\ UNCHANGED <<sbPlan, sbCaching>>
      /\ batch # <<>> /\ sbRuns[r].step = "idle"
  BY DEF SbStart, sbGiven, SbAt
<1>7. SbRunFits(new, sbEpoch')
  <2>1. \A p \in SbPorts : new.cleared[p] <= sbEpoch'[p]
    BY <1>1, <1>5, <1>6 DEF SbInv, SbTypes, SbCounts
  <2>2. Len(new.got) = new.port - 1 /\ DOMAIN new.got = {} /\ DOMAIN new.results = {}
    BY <1>5
  <2> QED BY <1>2, <1>5, <1>6, <2>1, <2>2 DEF SbRunFits
<1>8. \A p \in SbPorts : CountsFit(p)'
  BY <1>2, <1>4, <1>5, <1>6, AskingStays
<1> QED BY <1>4, <1>5, <1>6, <1>7, <1>8, CachesStay, SbRunMoves DEF SbInv, SbTypes

LEMMA SbTicks ==
    ASSUME SbInv, SbTick
    PROVE  SbInv'
<1>1. /\ UNCHANGED <<sbPlan, sbCaching, sbCaches, sbHits, sbMisses, sbEpoch, sbAsked, sbRuns>>
      /\ sbClock' = sbClock + 1 /\ sbClock < MaxTicks
  BY DEF SbTick, sbGiven
<1>2. sbClock' \in 0..MaxTicks
  BY <1>1, SnapshotAssumption DEF SbInv, SbTypes
<1>3. SbTypes'
  BY <1>1, <1>2, ScenesStay DEF SbInv, SbTypes
<1>4. \A p \in SbPorts : CountsFit(p)'
  BY <1>1 DEF SbInv, CountsFit, Asking, SbAt
<1> QED BY <1>1, <1>3, <1>4, CachesStay DEF SbInv

LEMMA SbClears ==
    ASSUME SbInv, NEW r \in Runners, SbClear(r)
    PROVE  SbInv'
<1>1. PICK run : /\ run = sbRuns[r] /\ run \in SbRunType(SbScenes, SbValues)
                 /\ SbRunFits(run, sbEpoch)
  BY SbParts
<1>2. PICK p \in SbPorts : p = run.port
  BY <1>1 DEF SbRunType
<1>3. /\ sbCaches' = [sbCaches EXCEPT ![p] = {}] /\ sbEpoch' = [sbEpoch EXCEPT ![p] = @ + 1]
      /\ UNCHANGED <<sbPlan, sbCaching, sbClock, sbHits, sbMisses, sbAsked>> /\ UNCHANGED sbGiven
      /\ run.step = "clear"
  BY <1>1, <1>2 DEF SbClear, Cleared, sbGiven, SbAt
<1>4. PICK epochs : /\ epochs = sbEpoch' /\ epochs \in SbCounts
                    /\ \A q \in SbPorts : sbEpoch[q] <= epochs[q]
                    /\ \A q \in SbPorts : q # p => epochs[q] = sbEpoch[q]
  <2>1. PICK old : old = sbEpoch /\ old \in SbCounts
    BY DEF SbInv, SbTypes
  <2>2. PICK epochs : epochs = [old EXCEPT ![p] = old[p] + 1]
    OBVIOUS
  <2>3. /\ epochs = sbEpoch' /\ epochs \in SbCounts
        /\ \A q \in SbPorts : old[q] <= epochs[q]
        /\ \A q \in SbPorts : q # p => epochs[q] = old[q]
    BY <1>3, <2>1, <2>2 DEF SbCounts
  <2> QED BY <2>1, <2>3
<1>5. PICK cleared : cleared = [run.cleared EXCEPT ![p] = epochs[p]]
  OBVIOUS
<1>6. cleared \in SbCounts /\ \A q \in SbPorts : cleared[q] <= epochs[q]
  <2>1. run.cleared \in SbCounts /\ \A q \in SbPorts : run.cleared[q] <= sbEpoch[q]
    BY <1>1 DEF SbRunType, SbRunFits
  <2> QED BY <1>4, <1>5, <2>1 DEF SbCounts
<1>7. PICK port \in SbPorts, step \in {"clear", "look"} :
          /\ port = IF p = 3 THEN 1 ELSE p + 1
          /\ step = IF p = 3 THEN "look" ELSE "clear"
  BY <1>2, PortsAre
<1>8. PICK adv : adv = [run EXCEPT !.port = port, !.step = step]
  OBVIOUS
<1>9. adv = Advanced(r, "look")
  BY <1>1, <1>2, <1>3, <1>7, <1>8 DEF Advanced
<1>10. PICK new : new = [adv EXCEPT !.cleared[p] = epochs[p]]
  OBVIOUS
<1>11. sbRuns' = [sbRuns EXCEPT ![r] = new]
  BY <1>1, <1>2, <1>4, <1>9, <1>10 DEF SbClear
<1>12. /\ new \in SbRunType(SbScenes, SbValues) /\ new.step = step /\ new.port = port
       /\ new.cleared = cleared /\ new.got = run.got /\ new.todo = run.todo
       /\ new.results = run.results
  <2>1. adv \in SbRunType(SbScenes, SbValues) /\ adv.cleared = run.cleared /\ adv.got = run.got
        /\ adv.todo = run.todo /\ adv.results = run.results /\ adv.step = step /\ adv.port = port
    BY <1>1, <1>7, <1>8 DEF SbRunType, SbSteps
  <2>2. new = [adv EXCEPT !.cleared = cleared]
    BY <1>5, <1>10, <2>1
  <2> QED BY <1>6, <2>1, <2>2 DEF SbRunType
<1>13. SbRunFits(new, sbEpoch')
  <2>1. run.got = <<>> /\ run.todo # <<>> /\ \A n \in DOMAIN run.results : ResultFits(run.results[n])
    BY <1>1, <1>3 DEF SbRunFits
  <2>2. Len(new.got) = 0 /\ DOMAIN new.got = {}
    BY <1>12, <2>1
  <2>3. step = "look" => port = 1
    BY <1>7
  <2> QED BY <1>4, <1>6, <1>7, <1>12, <2>1, <2>2, <2>3 DEF SbRunFits
<1>14. \A q \in SbPorts : CountsFit(q)'
  BY <1>1, <1>3, <1>7, <1>11, <1>12, AskingStays
<1>15. /\ sbCaches' \in [SbPorts -> SUBSET SbEntries]
       /\ \A q \in SbPorts : CacheFits(q)'
  <2>1. SbScenes' = SbScenes
    BY <1>3, ScenesStay
  <2>2. sbCaches \in [SbPorts -> SUBSET SbEntries]
    BY DEF SbInv, SbTypes
  <2>3. ASSUME NEW q \in SbPorts PROVE CacheFits(q)'
    <3>1. CASE q = p
      BY <1>3, <2>2, <3>1 DEF CacheFits
    <3>2. CASE q # p
      BY <1>3, <1>4, <2>1, <2>2, <3>2 DEF CacheFits, SbInv
    <3> QED BY <3>1, <3>2
  <2> QED BY <1>3, <2>2, <2>3
<1> QED BY <1>3, <1>4, <1>11, <1>12, <1>13, <1>14, <1>15, SbRunMoves DEF SbInv, SbTypes

\* A port's part is at hand: the run goes on to the next port, or all are asked.
LEMMA SbGets ==
    ASSUME SbInv, NEW r \in Runners, NEW value \in SbValues, SbGet(r, value),
           sbRuns[r].step \in {"look", "ask", "store"},
           value.data \in PortAnswers(Current(r), sbRuns[r].port),
           IsFresh(value, sbRuns[r].cleared[sbRuns[r].port])
    PROVE  \E new \in SbRunType(SbScenes, SbValues) :
               /\ sbRuns' = [sbRuns EXCEPT ![r] = new]
               /\ SbRunFits(new, sbEpoch) /\ new.step \in {"look", "diagnose"}
<1>1. PICK run : /\ run = sbRuns[r] /\ run \in SbRunType(SbScenes, SbValues)
                 /\ SbRunFits(run, sbEpoch)
  BY SbParts
<1>2. PICK p \in SbPorts : p = run.port
  BY <1>1 DEF SbRunType
<1>3. PICK port \in SbPorts, step \in {"look", "diagnose"}, step2 \in SbSteps :
          /\ port = IF p = 3 THEN 1 ELSE p + 1
          /\ step = IF p = 3 THEN "diagnose" ELSE "look"
          /\ step2 = IF p = 3 THEN "diagnose" ELSE run.step
  BY <1>1, <1>2, PortsAre DEF SbRunType, SbSteps
<1>4. PICK adv : adv = [run EXCEPT !.port = port, !.step = step2]
  OBVIOUS
<1>5. adv = Advanced(r, "diagnose")
  BY <1>1, <1>2, <1>3, <1>4 DEF Advanced
<1>6. PICK got : got = Append(run.got, value) /\ got \in Seq(SbValues)
                 /\ Len(got) = p /\ \A q \in 1..(p - 1) : got[q] = run.got[q]
                 /\ got[p] = value /\ DOMAIN got = 1..p /\ DOMAIN run.got = 1..(p - 1)
  <2>1. run.got \in Seq(SbValues) /\ Len(run.got) = p - 1 /\ p \in Nat
    BY <1>1, <1>2, PortsAre DEF SbRunType, SbRunFits
  <2>2. PICK g : g = run.got /\ g \in Seq(SbValues) /\ Len(g) = p - 1 /\ DOMAIN g = 1..(p - 1)
    BY <2>1, LenProperties
  <2>3. PICK m \in Nat : Len(g) = m /\ p = m + 1 /\ p - 1 = m
    BY <2>1, <2>2
  <2>4. PICK got : got = Append(g, value)
    OBVIOUS
  <2>5. /\ got \in Seq(SbValues) /\ Len(got) = m + 1 /\ \A q \in 1..m : got[q] = g[q]
        /\ got[m + 1] = value
    BY <2>2, <2>3, <2>4, AppendProperties
  <2>6. DOMAIN got = 1..p
    BY <2>3, <2>5, LenProperties
  <2> QED BY <2>2, <2>3, <2>4, <2>5, <2>6
<1>7. PICK new : new = [adv EXCEPT !.got = got, !.step = step]
  OBVIOUS
<1>8. adv \in SbRunType(SbScenes, SbValues) /\ adv.got = run.got /\ adv.cleared = run.cleared
      /\ adv.todo = run.todo /\ adv.results = run.results /\ adv.port = port
  BY <1>1, <1>3, <1>4 DEF SbRunType
<1>9. /\ new \in SbRunType(SbScenes, SbValues) /\ new.step = step /\ new.port = port
      /\ new.cleared = run.cleared /\ new.got = got /\ new.todo = run.todo
      /\ new.results = run.results
  BY <1>3, <1>6, <1>7, <1>8 DEF SbRunType, SbSteps
<1>10. sbRuns' = [sbRuns EXCEPT ![r] = new]
  BY <1>1, <1>2, <1>3, <1>5, <1>6, <1>7, <1>8 DEF SbGet
<1>11. SbRunFits(new, sbEpoch)
  <2>1. /\ \A q \in SbPorts : run.cleared[q] <= sbEpoch[q]
        /\ run.todo # <<>> /\ \A n \in DOMAIN run.results : ResultFits(run.results[n])
        /\ \A q \in DOMAIN run.got : Serves(run.got[q], Head(run.todo), q, run.cleared[q])
    BY <1>1 DEF SbRunFits
  <2>2. Serves(value, Head(run.todo), p, run.cleared[p])
    BY <1>1, <1>2 DEF Serves, Current
  <2>3. \A q \in DOMAIN got : Serves(got[q], Head(run.todo), q, run.cleared[q])
    <3>1. \A q \in 1..p : q = p \/ q \in 1..(p - 1)
      BY PortsAre
    <3> QED BY <1>6, <2>1, <2>2, <3>1
  <2>4. /\ step = "look" => Len(got) = port - 1
        /\ step = "diagnose" => Len(got) = 3 /\ port = 1
    BY <1>3, <1>6, PortsAre
  <2> QED BY <1>3, <1>9, <2>1, <2>3, <2>4 DEF SbRunFits
<1> QED BY <1>3, <1>9, <1>10, <1>11

\* A runner that has not missed gets a value; no table changes.
LEMMA SbGetsQuietly ==
    ASSUME SbInv, NEW r \in Runners, NEW value \in SbValues, SbGet(r, value),
           sbRuns[r].step \in {"look", "store"},
           value.data \in PortAnswers(Current(r), sbRuns[r].port),
           IsFresh(value, sbRuns[r].cleared[sbRuns[r].port]),
           UNCHANGED <<sbClock, sbMisses, sbEpoch, sbAsked>>, UNCHANGED sbGiven,
           sbHits' \in SbCounts, sbCaches' \in [SbPorts -> SUBSET SbEntries],
           \A p \in SbPorts : CacheFits(p)'
    PROVE  SbInv'
<1>1. PICK new \in SbRunType(SbScenes, SbValues) :
          /\ sbRuns' = [sbRuns EXCEPT ![r] = new]
          /\ SbRunFits(new, sbEpoch) /\ new.step \in {"look", "diagnose"}
  BY SbGets
<1>2. sbCaching' = sbCaching /\ sbPlan' = sbPlan
  BY DEF sbGiven
<1>3. \A p \in SbPorts : CountsFit(p)'
  BY <1>1, <1>2, AskingStays
<1>4. sbEpoch \in SbCounts /\ \A p \in SbPorts : sbEpoch[p] <= sbEpoch[p]
  BY DEF SbInv, SbTypes, SbCounts
<1> QED BY <1>1, <1>3, <1>4, SbRunMoves DEF SbInv, SbTypes

LEMMA SbPasses ==
    ASSUME SbInv, NEW r \in Runners, SbPass(r)
    PROVE  SbInv'
<1>1. PICK run : run = sbRuns[r] /\ run \in SbRunType(SbScenes, SbValues)
  BY SbParts
<1>2. /\ UNCHANGED <<sbClock, sbCaches, sbHits, sbMisses, sbEpoch, sbAsked>> /\ UNCHANGED sbGiven
      /\ UNCHANGED sbPlan /\ SbGet(r, Nothing) /\ sbRuns[r].step = "look"
  BY DEF SbPass, SbAt, sbGiven
<1>3. run.port \in {1, 2, 3}
  BY <1>1, PortsAre DEF SbRunType
<1>4. Nothing.data \in PortAnswers(Current(r), run.port) /\ Nothing \in SbValues
  BY <1>3, NothingFits
<1>5. IsFresh(Nothing, run.cleared[run.port])
  BY DEF IsFresh
<1> QED BY <1>1, <1>2, <1>4, <1>5, CachesStay, SbGetsQuietly DEF SbInv, SbTypes

LEMMA CurrentIs ==
    ASSUME SbInv, NEW r \in Runners, sbRuns[r].step \in {"clear", "look", "ask", "store", "diagnose"}
    PROVE  Current(r) \in SbScenes /\ Tail(sbRuns[r].todo) \in Seq(SbScenes)
<1>1. PICK run : /\ run = sbRuns[r] /\ run \in SbRunType(SbScenes, SbValues)
                 /\ SbRunFits(run, sbEpoch)
  BY SbParts
<1>2. PICK todo : todo = run.todo /\ todo \in Seq(SbScenes) /\ todo # <<>>
  BY <1>1 DEF SbRunType, SbRunFits
<1>3. Head(todo) \in SbScenes /\ Tail(todo) \in Seq(SbScenes)
  BY <1>2, HeadTailProperties
<1> QED BY <1>1, <1>2, <1>3 DEF Current

LEMMA SbHitsOne ==
    ASSUME SbInv, NEW r \in Runners, SbHit(r)
    PROVE  SbInv'
<1>1. PICK run : /\ run = sbRuns[r] /\ run \in SbRunType(SbScenes, SbValues)
                 /\ SbRunFits(run, sbEpoch)
  BY SbParts
<1>2. PICK p \in SbPorts : p = run.port
  BY <1>1 DEF SbRunType
<1>3. PICK e \in Found(r) : SbGet(r, e.value)
  BY DEF SbHit
<1>4. /\ UNCHANGED <<sbClock, sbCaches, sbMisses, sbEpoch, sbAsked>> /\ UNCHANGED sbGiven
      /\ UNCHANGED sbPlan /\ sbRuns[r].step = "look" /\ sbHits' = [sbHits EXCEPT ![p] = @ + 1]
  BY <1>1, <1>2 DEF SbHit, SbAt, sbGiven
<1>5. e \in sbCaches[p] /\ e.key = KeyOf(Current(r), p)
  BY <1>1, <1>2, <1>3 DEF Found
<1>6. e.value \in SbValues
  BY <1>5 DEF SbInv, SbTypes, SbEntries
<1>7. Current(r) \in SbScenes
  BY <1>4, CurrentIs
<1>8. e.value.data \in PortAnswers(Current(r), p) /\ (e.value.late \/ e.value.epoch >= sbEpoch[p])
  BY <1>5, <1>7 DEF SbInv, CacheFits
<1>9. IsFresh(e.value, run.cleared[p])
  <2>1. run.cleared[p] <= sbEpoch[p] /\ run.cleared[p] \in Nat /\ sbEpoch[p] \in Nat
    BY <1>1 DEF SbRunFits, SbRunType, SbCounts, SbInv, SbTypes
  <2>2. e.value.epoch \in Nat
    BY <1>6 DEF SbValues
  <2> QED BY <1>8, <2>1, <2>2 DEF IsFresh
<1>10. sbHits' \in SbCounts
  BY <1>4 DEF SbInv, SbTypes, SbCounts
<1> QED BY <1>1, <1>2, <1>3, <1>4, <1>6, <1>8, <1>9, <1>10, CachesStay, SbGetsQuietly
  DEF SbInv, SbTypes

LEMMA SbMissesOne ==
    ASSUME SbInv, NEW r \in Runners, SbMiss(r)
    PROVE  SbInv'
<1>1. PICK run : /\ run = sbRuns[r] /\ run \in SbRunType(SbScenes, SbValues)
                 /\ SbRunFits(run, sbEpoch)
  BY SbParts
<1>2. PICK p \in SbPorts : p = run.port
  BY <1>1 DEF SbRunType
<1>3. /\ UNCHANGED <<sbClock, sbHits, sbEpoch, sbAsked>> /\ UNCHANGED sbGiven
      /\ UNCHANGED <<sbPlan, sbCaching>> /\ run.step = "look"
      /\ sbCaches' = [sbCaches EXCEPT ![p] = @ \ Found(r)]
      /\ sbMisses' = IF sbCaching THEN [sbMisses EXCEPT ![p] = @ + 1] ELSE sbMisses
      /\ sbRuns' = [sbRuns EXCEPT ![r].step = "ask"]
  BY <1>1, <1>2 DEF SbMiss, SbAt, sbGiven
<1>4. PICK new : new = [run EXCEPT !.step = "ask"]
  OBVIOUS
<1>5. /\ new \in SbRunType(SbScenes, SbValues) /\ new.step = "ask" /\ new.port = p
      /\ new.cleared = run.cleared /\ new.got = run.got /\ new.todo = run.todo
      /\ new.results = run.results
  BY <1>1, <1>2, <1>4 DEF SbRunType, SbSteps
<1>6. sbRuns' = [sbRuns EXCEPT ![r] = new]
  BY <1>1, <1>3, <1>4
<1>7. SbRunFits(new, sbEpoch')
  BY <1>1, <1>2, <1>3, <1>5 DEF SbRunFits
<1>8. sbMisses' \in SbCounts
  BY <1>3 DEF SbInv, SbTypes, SbCounts
<1>9. sbCaches \in [SbPorts -> SUBSET SbEntries]
  BY DEF SbInv, SbTypes
<1>10. /\ sbCaches' \in [SbPorts -> SUBSET SbEntries]
       /\ \A q \in SbPorts : sbCaches'[q] \subseteq sbCaches[q]
  BY <1>3, <1>9
<1>11. \A q \in SbPorts : CacheFits(q)'
  <2>1. SbScenes' = SbScenes
    BY <1>3, ScenesStay
  <2> QED BY <1>3, <1>10, <2>1 DEF SbInv, CacheFits
<1>12. ASSUME NEW q \in SbPorts PROVE CountsFit(q)'
  <2>1. \A o \in Runners : sbRuns'[o] = IF o = r THEN new ELSE sbRuns[o]
    BY <1>6, SbParts
  <2>2. PICK A : A = Asking(q) /\ IsFiniteSet(A)
               /\ (sbCaching => sbMisses[q] = sbAsked[q] + Cardinality(A)) /\ r \notin A
    BY <1>1, <1>3 DEF SbInv, CountsFit, Asking, SbAt
  <2>3. sbMisses \in SbCounts /\ sbAsked[q] \in Nat /\ Cardinality(A) \in Nat
    BY <2>2, FS_CardinalityType DEF SbInv, SbTypes, SbCounts
  <2>4. CASE q = p
    <3>1. Asking(q)' = A \cup {r}
      BY <1>5, <2>1, <2>2, <2>4 DEF Asking, SbAt
    <3>2. IsFiniteSet(A \cup {r}) /\ Cardinality(A \cup {r}) = Cardinality(A) + 1
      BY <2>2, FS_AddElement
    <3>3. sbCaching => sbMisses'[q] = sbMisses[q] + 1
      BY <1>3, <2>3, <2>4 DEF SbCounts
    <3> QED BY <1>3, <2>2, <2>3, <3>1, <3>2, <3>3 DEF CountsFit
  <2>5. CASE q # p
    <3>1. Asking(q)' = A
      BY <1>1, <1>3, <1>5, <2>1, <2>2, <2>5 DEF Asking, SbAt
    <3>2. sbMisses'[q] = sbMisses[q]
      BY <1>3, <2>3, <2>5 DEF SbCounts
    <3> QED BY <1>3, <2>2, <3>1, <3>2 DEF CountsFit
  <2> QED BY <2>4, <2>5
<1>13. sbEpoch \in SbCounts /\ \A q \in SbPorts : sbEpoch[q] <= sbEpoch[q]
  BY DEF SbInv, SbTypes, SbCounts
<1> QED BY <1>3, <1>5, <1>6, <1>7, <1>8, <1>10, <1>11, <1>12, <1>13, SbRunMoves DEF SbInv, SbTypes

LEMMA AskedOnce ==
    ASSUME SbInv, NEW r \in Runners, NEW new, NEW p \in SbPorts, p = sbRuns[r].port,
           sbRuns[r].step = "ask", new.step # "ask", sbRuns' = [sbRuns EXCEPT ![r] = new],
           sbAsked' = [sbAsked EXCEPT ![p] = @ + 1], UNCHANGED <<sbCaching, sbMisses>>
    PROVE  /\ sbAsked' \in SbCounts
           /\ \A q \in SbPorts : CountsFit(q)'
<1>1. \A o \in Runners : sbRuns'[o] = IF o = r THEN new ELSE sbRuns[o]
  BY SbParts
<1>2. sbAsked \in SbCounts /\ sbMisses \in SbCounts
  BY DEF SbInv, SbTypes
<1>3. ASSUME NEW q \in SbPorts PROVE CountsFit(q)'
  <2>1. PICK A : A = Asking(q) /\ IsFiniteSet(A)
               /\ (sbCaching => sbMisses[q] = sbAsked[q] + Cardinality(A))
    BY DEF SbInv, CountsFit
  <2>2. sbMisses[q] \in Nat /\ sbAsked[q] \in Nat
    BY <1>2 DEF SbCounts
  <2>3. CASE q = p
    <3>1. r \in A
      BY <2>1, <2>3 DEF Asking, SbAt
    <3>2. Asking(q)' = A \ {r}
      BY <1>1, <2>1 DEF Asking, SbAt
    <3>3. IsFiniteSet(A \ {r}) /\ Cardinality(A \ {r}) = Cardinality(A) - 1
      BY <2>1, <3>1, FS_RemoveElement
    <3>4. Cardinality(A) \in Nat
      BY <2>1, FS_CardinalityType
    <3>5. sbAsked'[q] = sbAsked[q] + 1
      BY <1>2, <2>3 DEF SbCounts
    <3> QED BY <2>1, <2>2, <3>2, <3>3, <3>4, <3>5 DEF CountsFit
  <2>4. CASE q # p
    <3>1. Asking(q)' = A
      BY <1>1, <2>1, <2>4 DEF Asking, SbAt
    <3>2. sbAsked'[q] = sbAsked[q]
      BY <1>2, <2>4 DEF SbCounts
    <3> QED BY <2>1, <3>1, <3>2 DEF CountsFit
  <2> QED BY <2>3, <2>4
<1> QED BY <1>2, <1>3 DEF SbCounts

LEMMA SymbolsAre ==
    ASSUME NEW s \in SbScenes, NEW p \in SbPorts, NEW x \in UNION PortAnswers(s, p)
    PROVE  x \in SbSymbols
<1>1. PICK all : all = UNION (PortAnswers(s, 1) \cup PortAnswers(s, 2) \cup PortAnswers(s, 3))
  OBVIOUS
<1>2. x \in all
  BY <1>1, PortsAre
<1>3. all \in {UNION (PortAnswers(o, 1) \cup PortAnswers(o, 2) \cup PortAnswers(o, 3)) : o \in SbScenes}
  BY <1>1, Zenon
<1> QED BY <1>2, <1>3, Zenon DEF SbSymbols

LEMMA SbAsks ==
    ASSUME SbInv, NEW r \in Runners, SbAsk(r)
    PROVE  SbInv'
<1>1. PICK run : /\ run = sbRuns[r] /\ run \in SbRunType(SbScenes, SbValues)
                 /\ SbRunFits(run, sbEpoch)
  BY SbParts
<1>2. PICK p \in SbPorts : p = run.port
  BY <1>1 DEF SbRunType
<1>3. /\ UNCHANGED <<sbClock, sbCaches, sbHits, sbMisses, sbEpoch>> /\ UNCHANGED sbGiven
      /\ UNCHANGED <<sbPlan, sbCaching>> /\ run.step = "ask"
      /\ sbAsked' = [sbAsked EXCEPT ![p] = @ + 1]
  BY <1>1, <1>2 DEF SbAsk, SbAt, sbGiven
<1>4. PICK data \in PortAnswers(Current(r), p) : \E value :
          /\ value = [data |-> data, epoch |-> sbEpoch[p], late |-> FALSE]
          /\ IF sbCaching
             THEN sbRuns' = [sbRuns EXCEPT ![r].value = value, ![r].step = "store"]
             ELSE SbGet(r, value)
  BY <1>1, <1>2 DEF SbAsk
<1>5. PICK value :
          /\ value = [data |-> data, epoch |-> sbEpoch[p], late |-> FALSE]
          /\ IF sbCaching
             THEN sbRuns' = [sbRuns EXCEPT ![r].value = value, ![r].step = "store"]
             ELSE SbGet(r, value)
  BY <1>4
<1>6. Current(r) \in SbScenes
  BY <1>1, <1>3, CurrentIs
<1>7. data \in SUBSET SbSymbols
  <2>1. \A x \in data : x \in UNION PortAnswers(Current(r), p)
    BY <1>4
  <2> QED BY <1>6, <2>1, SymbolsAre
<1>8. PICK epoch \in Nat : epoch = sbEpoch[p] /\ run.cleared[p] <= epoch
  BY <1>1 DEF SbInv, SbTypes, SbCounts, SbRunFits
<1>9. value \in SbValues /\ value.data = data /\ value.epoch = epoch
  BY <1>5, <1>7, <1>8 DEF SbValues
<1>10. IsFresh(value, run.cleared[p])
  <2>1. run.cleared[p] \in Nat
    BY <1>1 DEF SbRunType, SbCounts
  <2> QED BY <1>8, <1>9, <2>1 DEF IsFresh
<1>11. PICK new \in SbRunType(SbScenes, SbValues) :
           /\ sbRuns' = [sbRuns EXCEPT ![r] = new]
           /\ SbRunFits(new, sbEpoch) /\ new.step # "ask"
  <2>1. CASE ~sbCaching
    <3>1. SbGet(r, value)
      BY <1>5, <2>1
    <3>2. value.data \in PortAnswers(Current(r), sbRuns[r].port)
      BY <1>1, <1>2, <1>4, <1>9
    <3> QED BY <1>1, <1>2, <1>3, <1>9, <1>10, <3>1, <3>2, SbGets
  <2>2. CASE sbCaching
    <3>1. PICK new : new = [run EXCEPT !.value = value, !.step = "store"]
      OBVIOUS
    <3>2. sbRuns' = [sbRuns EXCEPT ![r] = new]
      BY <1>1, <1>5, <2>2, <3>1
    <3>3. /\ new \in SbRunType(SbScenes, SbValues) /\ new.step = "store" /\ new.port = p
          /\ new.cleared = run.cleared /\ new.got = run.got /\ new.todo = run.todo
          /\ new.results = run.results /\ new.value = value
      BY <1>1, <1>2, <1>9, <3>1 DEF SbRunType, SbSteps
    <3>4. Head(run.todo) = Current(r)
      BY <1>1 DEF Current
    <3>5. value.epoch >= run.cleared[p]
      <4>1. run.cleared[p] \in Nat
        BY <1>1 DEF SbRunType, SbCounts
      <4> QED BY <1>8, <1>9, <4>1
    <3>6. SbRunFits(new, sbEpoch)
      BY <1>1, <1>2, <1>3, <1>4, <1>9, <3>3, <3>4, <3>5 DEF SbRunFits
    <3> QED BY <3>2, <3>3, <3>6
  <2> QED BY <2>1, <2>2
<1>12. sbAsked' \in SbCounts /\ \A q \in SbPorts : CountsFit(q)'
  BY <1>1, <1>2, <1>3, <1>11, AskedOnce
<1> QED BY <1>3, <1>11, <1>12, CachesStay, SbRunMoves DEF SbInv, SbTypes

LEMMA SbAsksInVain ==
    ASSUME SbInv, NEW r \in Runners, SbAskFails(r)
    PROVE  SbInv'
<1>1. PICK run : /\ run = sbRuns[r] /\ run \in SbRunType(SbScenes, SbValues)
  BY SbParts
<1>2. PICK p \in SbPorts : p = run.port
  BY <1>1 DEF SbRunType
<1>3. /\ UNCHANGED <<sbClock, sbCaches, sbHits, sbMisses, sbEpoch>> /\ UNCHANGED sbGiven
      /\ UNCHANGED <<sbPlan, sbCaching>> /\ run.step = "ask"
      /\ sbAsked' = [sbAsked EXCEPT ![p] = @ + 1]
  BY <1>1, <1>2 DEF SbAskFails, SbAt, sbGiven
<1>4. PICK rest : /\ rest = Resting /\ rest \in SbRunType(SbScenes, SbValues)
                  /\ rest.got = <<>> /\ rest.results = <<>>
                  /\ \A q \in SbPorts : rest.cleared[q] = 0
  BY NothingFits, RestingIs
<1>5. PICK new : new = [rest EXCEPT !.step = "failed"]
  OBVIOUS
<1>6. /\ new \in SbRunType(SbScenes, SbValues) /\ new.step = "failed" /\ new.got = <<>>
      /\ new.results = <<>> /\ new.cleared = rest.cleared
  BY <1>4, <1>5 DEF SbRunType, SbSteps
<1>7. sbRuns' = [sbRuns EXCEPT ![r] = new]
  BY <1>4, <1>5 DEF SbAskFails
<1>8. SbRunFits(new, sbEpoch')
  <2>1. \A q \in SbPorts : new.cleared[q] <= sbEpoch'[q]
    BY <1>3, <1>4, <1>6 DEF SbInv, SbTypes, SbCounts
  <2>2. DOMAIN new.got = {} /\ DOMAIN new.results = {}
    BY <1>6
  <2> QED BY <1>6, <2>1, <2>2 DEF SbRunFits
<1>9. sbAsked' \in SbCounts /\ \A q \in SbPorts : CountsFit(q)'
  BY <1>1, <1>2, <1>3, <1>6, <1>7, AskedOnce
<1> QED BY <1>3, <1>6, <1>7, <1>8, <1>9, CachesStay, SbRunMoves DEF SbInv, SbTypes

\* Scenarios that a cache serves alike are answered alike.
LEMMA KeyDecides ==
    ASSUME NEW p \in SbPorts, NEW s, NEW o, KeyOf(s, p) = KeyOf(o, p)
    PROVE  PortAnswers(s, p) = PortAnswers(o, p)
<1>1. CASE p = 1
  BY <1>1 DEF KeyOf, PortAnswers, FxAnswers
<1>2. CASE p = 2
  <2>1. s.goods = o.goods
    BY <1>2 DEF KeyOf
  <2>2. PortAnswers(s, p) = CommodityAnswers(s) /\ PortAnswers(o, p) = CommodityAnswers(o)
    BY <1>2 DEF PortAnswers
  <2> QED BY <2>1, <2>2 DEF CommodityAnswers
<1>3. CASE p = 3
  <2>1. s.nations = o.nations
    BY <1>3 DEF KeyOf
  <2>2. PortAnswers(s, p) = TaxAnswers(s) /\ PortAnswers(o, p) = TaxAnswers(o)
    BY <1>3 DEF PortAnswers
  <2> QED BY <2>1, <2>2 DEF TaxAnswers
<1> QED BY <1>1, <1>2, <1>3, PortsAre

LEMMA SbStores ==
    ASSUME SbInv, NEW r \in Runners, SbStore(r)
    PROVE  SbInv'
<1>1. PICK run : /\ run = sbRuns[r] /\ run \in SbRunType(SbScenes, SbValues)
                 /\ SbRunFits(run, sbEpoch)
  BY SbParts
<1>2. PICK p \in SbPorts : p = run.port
  BY <1>1 DEF SbRunType
<1>3. PICK v : /\ v = run.value /\ v \in SbValues
  BY <1>1 DEF SbRunType
<1>4. PICK late \in BOOLEAN : late = (v.late \/ v.epoch # sbEpoch[p])
  <2>1. (v.late \/ v.epoch # sbEpoch[p]) \in BOOLEAN
    OBVIOUS
  <2> QED BY <2>1
<1>5. PICK value : value = [v EXCEPT !.late = late]
  OBVIOUS
<1>6. PICK e : e = [key |-> KeyOf(Current(r), p), value |-> value, expires |-> sbClock + EntryTtl]
  OBVIOUS
<1>7. /\ UNCHANGED <<sbClock, sbHits, sbMisses, sbEpoch, sbAsked>> /\ UNCHANGED sbGiven
      /\ UNCHANGED sbPlan /\ run.step = "store" /\ SbGet(r, v)
  BY <1>1, <1>3 DEF SbStore, SbAt, sbGiven
<1>8. sbCaches' = [sbCaches EXCEPT ![p] = (@ \ Found(r)) \cup {e}]
  BY <1>1, <1>2, <1>3, <1>4, <1>5, <1>6 DEF SbStore
<1>9. Current(r) \in SbScenes /\ Current(r) = Head(run.todo)
  BY <1>1, <1>7, CurrentIs DEF Current
<1>10. /\ v.data \in PortAnswers(Current(r), p) /\ v.epoch >= run.cleared[p]
  BY <1>1, <1>2, <1>3, <1>7, <1>9 DEF SbRunFits
<1>11. /\ value \in SbValues /\ value.data = v.data
       /\ value.late \/ value.epoch = sbEpoch[p]
  BY <1>3, <1>4, <1>5 DEF SbValues
<1>12. e \in SbEntries /\ e.value = value /\ e.key = KeyOf(Current(r), p)
  <2>1. sbClock + EntryTtl \in Nat
    BY SnapshotAssumption DEF SbInv, SbTypes
  <2>2. KeyOf(Current(r), p) \in SbKeys
    BY <1>9 DEF SbKeys
  <2> QED BY <1>6, <1>11, <2>1, <2>2 DEF SbEntries
<1>13. sbCaches \in [SbPorts -> SUBSET SbEntries]
  BY DEF SbInv, SbTypes
<1>14. /\ sbCaches' \in [SbPorts -> SUBSET SbEntries]
       /\ \A q \in SbPorts : \A o \in sbCaches'[q] : o \in sbCaches[q] \/ (q = p /\ o = e)
  BY <1>8, <1>12, <1>13
<1>15. ASSUME NEW q \in SbPorts PROVE CacheFits(q)'
  <2>1. SbScenes' = SbScenes
    BY <1>7, ScenesStay
  <2>2. ASSUME NEW s \in SbScenes, KeyOf(s, p) = e.key
        PROVE  e.value.data \in PortAnswers(s, p)
    BY <1>10, <1>11, <1>12, <2>2, KeyDecides
  <2>3. e.value.late \/ e.value.epoch >= sbEpoch[p]
    <3>1. sbEpoch[p] \in Nat
      BY DEF SbInv, SbTypes, SbCounts
    <3> QED BY <1>11, <1>12, <3>1
  <2>4. ASSUME NEW o \in sbCaches'[q]
        PROVE  /\ \A s \in SbScenes : KeyOf(s, q) = o.key => o.value.data \in PortAnswers(s, q)
               /\ o.value.late \/ o.value.epoch >= sbEpoch[q]
    <3>1. CASE o \in sbCaches[q]
      BY <3>1 DEF SbInv, CacheFits
    <3>2. CASE q = p /\ o = e
      BY <2>2, <2>3, <3>2
    <3> QED BY <1>14, <3>1, <3>2
  <2> QED BY <1>7, <2>1, <2>4 DEF CacheFits
<1>16. IsFresh(v, run.cleared[p])
  BY <1>10 DEF IsFresh
<1> QED
  BY <1>1, <1>2, <1>3, <1>7, <1>10, <1>14, <1>15, <1>16, SbGetsQuietly DEF SbInv, SbTypes

LEMMA SbDiagnoses ==
    ASSUME SbInv, NEW r \in Runners, SbDiagnose(r)
    PROVE  SbInv'
<1>1. PICK run : /\ run = sbRuns[r] /\ run \in SbRunType(SbScenes, SbValues)
                 /\ SbRunFits(run, sbEpoch)
  BY SbParts
<1>2. /\ UNCHANGED <<sbClock, sbCaches, sbHits, sbMisses, sbEpoch, sbAsked>> /\ UNCHANGED sbGiven
      /\ UNCHANGED <<sbPlan, sbCaching>> /\ run.step = "diagnose"
  BY <1>1 DEF SbDiagnose, SbAt, sbGiven
<1>3. PICK todo : todo = Tail(run.todo) /\ todo \in Seq(SbScenes)
  BY <1>1, <1>2, CurrentIs
<1>4. PICK scenario \in SbScenes : scenario = Current(r) /\ scenario = Head(run.todo)
  BY <1>1, <1>2, CurrentIs DEF Current
<1>5. PICK missing : missing = Missing(run.got) /\ missing \in SUBSET SbPorts
  BY DEF Missing
<1>6. PICK result : result = [scenario |-> scenario, got |-> run.got, cleared |-> run.cleared,
                              missing |-> missing]
  OBVIOUS
<1>7. /\ result \in SbResultType(SbScenes, SbValues) /\ result.scenario = scenario
      /\ result.got = run.got /\ result.cleared = run.cleared /\ result.missing = missing
  BY <1>1, <1>5, <1>6 DEF SbResultType, SbRunType
<1>8. ResultFits(result)
  <2>1. PICK got : got = run.got /\ got \in Seq(SbValues) /\ Len(got) = 3 /\ DOMAIN got = SbPorts
    <3>1. run.got \in Seq(SbValues) /\ Len(run.got) = 3
      BY <1>1, <1>2 DEF SbRunType, SbRunFits
    <3> QED BY <3>1, LenProperties DEF SbPorts
  <2>2. \A p \in SbPorts : Serves(run.got[p], scenario, p, run.cleared[p])
    BY <1>1, <1>4, <2>1 DEF SbRunFits
  <2> QED BY <1>5, <1>7, <2>1, <2>2 DEF ResultFits
<1>9. PICK results : /\ results = Append(run.results, result)
                     /\ results \in Seq(SbResultType(SbScenes, SbValues))
                     /\ \A n \in DOMAIN results : ResultFits(results[n])
  <2>1. PICK old : /\ old = run.results /\ old \in Seq(SbResultType(SbScenes, SbValues))
                   /\ \A n \in DOMAIN old : ResultFits(old[n])
    BY <1>1 DEF SbRunType, SbRunFits
  <2>2. PICK m \in Nat : m = Len(old) /\ DOMAIN old = 1..m
    BY <2>1, LenProperties
  <2>3. PICK new : new = Append(old, result)
    OBVIOUS
  <2>4. /\ new \in Seq(SbResultType(SbScenes, SbValues)) /\ Len(new) = m + 1
        /\ \A n \in 1..m : new[n] = old[n]
        /\ new[m + 1] = result
    BY <1>7, <2>1, <2>2, <2>3, AppendProperties
  <2>5. DOMAIN new = 1..(m + 1) /\ \A n \in 1..(m + 1) : n \in 1..m \/ n = m + 1
    BY <2>2, <2>4, LenProperties
  <2>6. \A n \in DOMAIN new : ResultFits(new[n])
    BY <1>8, <2>1, <2>2, <2>4, <2>5
  <2> QED BY <2>1, <2>3, <2>4, <2>6
<1>10. PICK step : /\ step = IF todo = <<>> THEN "answered" ELSE Opening(run.reset)
                   /\ step \in {"answered", "clear", "look"}
                   /\ step \in {"clear", "look"} => todo # <<>>
  BY DEF Opening
<1>11. PICK none : none = <<>> /\ none \in Seq(SbValues) /\ Len(none) = 0 /\ DOMAIN none = {}
  <2>1. <<>> \in Seq(SbValues) /\ Len(<<>>) = 0
    BY EmptySeq
  <2>2. DOMAIN <<>> = {}
    OBVIOUS
  <2> QED BY <2>1, <2>2
<1>12. PICK nothing \in SbValues : nothing = Nothing
  BY NothingFits
<1>13. PICK new : new = [run EXCEPT !.results = results, !.todo = todo, !.got = none,
                                    !.value = nothing, !.step = step]
  OBVIOUS
<1>14. sbRuns' = [sbRuns EXCEPT ![r] = new]
  BY <1>1, <1>3, <1>4, <1>5, <1>6, <1>9, <1>10, <1>11, <1>12, <1>13 DEF SbDiagnose
<1>15. /\ new \in SbRunType(SbScenes, SbValues) /\ new.step = step /\ new.port = run.port
       /\ new.cleared = run.cleared /\ new.got = none /\ new.todo = todo
       /\ new.results = results
  BY <1>1, <1>3, <1>9, <1>10, <1>11, <1>12, <1>13 DEF SbRunType, SbSteps
<1>16. SbRunFits(new, sbEpoch')
  <2>1. run.port = 1 /\ \A p \in SbPorts : run.cleared[p] <= sbEpoch[p]
    BY <1>1, <1>2 DEF SbRunFits
  <2> QED BY <1>2, <1>9, <1>10, <1>11, <1>15, <2>1 DEF SbRunFits
<1>17. \A p \in SbPorts : CountsFit(p)'
  BY <1>1, <1>2, <1>10, <1>14, <1>15, AskingStays
<1> QED BY <1>2, <1>14, <1>15, <1>16, <1>17, CachesStay, SbRunMoves DEF SbInv, SbTypes

LEMMA SbBegins == SbInit => SbInv
<1> SUFFICES ASSUME SbInit PROVE SbInv
  OBVIOUS
<1>1. PICK rest : /\ rest = Resting /\ rest \in SbRunType(SbScenes, SbValues)
                  /\ rest.step = "idle" /\ rest.got = <<>> /\ rest.results = <<>>
                  /\ \A p \in SbPorts : rest.cleared[p] = 0
  BY NothingFits, RestingIs
<1>2. PICK zeros : zeros = [p \in SbPorts |-> 0]
  OBVIOUS
<1>3. /\ sbPlan \in Plans /\ sbCaching \in BOOLEAN /\ sbClock = 0
      /\ sbCaches = [p \in SbPorts |-> {}]
      /\ sbHits = zeros /\ sbMisses = zeros /\ sbEpoch = zeros /\ sbAsked = zeros
      /\ sbRuns = [r \in Runners |-> rest]
  BY <1>1, <1>2 DEF SbInit
<1>4. zeros \in SbCounts /\ \A p \in SbPorts : zeros[p] = 0
  BY <1>2 DEF SbCounts
<1>5. SbTypes
  BY <1>1, <1>3, <1>4, SnapshotAssumption DEF SbTypes
<1>6. SbRunFits(rest, zeros)
  <2>1. DOMAIN rest.got = {} /\ DOMAIN rest.results = {}
    BY <1>1
  <2> QED BY <1>1, <1>4, <2>1 DEF SbRunFits
<1>7. ASSUME NEW p \in SbPorts PROVE CacheFits(p) /\ CountsFit(p)
  <2>1. Asking(p) = {}
    BY <1>1, <1>3 DEF Asking, SbAt
  <2>2. CountsFit(p)
    BY <1>3, <1>4, <2>1, FS_EmptySet DEF CountsFit
  <2>3. CacheFits(p)
    BY <1>3 DEF CacheFits
  <2> QED BY <2>2, <2>3
<1>8. \A r \in Runners : SbRunFits(sbRuns[r], sbEpoch)
  BY <1>3, <1>6
<1> QED BY <1>5, <1>7, <1>8 DEF SbInv

LEMMA SbKeeps == SbInv /\ [SbNext]_sbVars => SbInv'
<1> SUFFICES ASSUME SbInv, [SbNext]_sbVars PROVE SbInv'
  OBVIOUS
<1>1. CASE SbTick
  BY <1>1, SbTicks
<1>2. ASSUME NEW r \in Runners, SbRequest(r) PROVE SbInv'
  <2>1. PICK reset \in BOOLEAN :
            \/ SbStart(r, CliBatch(sbPlan), reset) \/ SbStart(r, ApiBatch(sbPlan), reset)
    BY <1>2 DEF SbRequest
  <2> QED BY <2>1, BatchTypes, SbStarts
<1>3. ASSUME NEW r \in Runners, SbWork(r) PROVE SbInv'
  BY <1>3, SbClears, SbPasses, SbHitsOne, SbMissesOne, SbAsks, SbAsksInVain, SbStores, SbDiagnoses
  DEF SbWork
<1>4. CASE UNCHANGED sbVars
  <2>1. /\ UNCHANGED <<sbPlan, sbCaching, sbClock, sbCaches, sbHits, sbMisses, sbEpoch, sbAsked>>
        /\ UNCHANGED sbRuns
    BY <1>4 DEF sbVars
  <2>2. SbTypes'
    BY <2>1, ScenesStay DEF SbInv, SbTypes
  <2>3. \A p \in SbPorts : CountsFit(p)'
    BY <2>1 DEF SbInv, CountsFit, Asking, SbAt
  <2> QED BY <2>1, <2>2, <2>3, CachesStay DEF SbInv
<1> QED BY <1>1, <1>2, <1>3, <1>4 DEF SbNext

LEMMA SbInvHolds == SbSpec => []SbInv
  BY SbBegins, SbKeeps, PTL DEF SbSpec

\* The summary of a batch names what was found for each scenario and what was not.
LEMMA SummaryTells ==
    ASSUME NEW results, NEW n \in DOMAIN results, n \in Nat
    PROVE  LET summary == SummaryOf(results)
               name == results[n].scenario.name
           IN  /\ results[n].got[2].data \subseteq summary.goods
               /\ (IF results[n].scenario.nations # Null
                   THEN results[n].scenario.nations ELSE results[n].got[3].data)
                      \subseteq summary.nations
               /\ results[n].missing # {} => name \in DOMAIN summary.missing
               /\ results[n].missing # {}
                    /\ (\A k \in DOMAIN results \ {n} : results[k].scenario.name # name)
                  => summary.missing[name] = results[n].missing
<1> DEFINE names == {results[k].scenario.name : k \in {k \in DOMAIN results : results[k].missing # {}}}
           last(name) == CHOOSE k \in DOMAIN results :
               /\ results[k].scenario.name = name /\ results[k].missing # {}
               /\ \A o \in DOMAIN results : o > k /\ results[o].scenario.name = name
                                                => results[o].missing = {}
           missing == [name \in names |-> results[last(name)].missing]
           nations == UNION {IF results[k].scenario.nations # Null
                             THEN results[k].scenario.nations ELSE results[k].got[3].data :
                                 k \in DOMAIN results}
           goods == UNION {results[k].scenario.goods \cup results[k].got[2].data :
                               k \in DOMAIN results}
<1>1. SummaryOf(results) = [missing |-> missing, nations |-> nations, goods |-> goods]
  BY Zenon DEF SummaryOf
<1>2. results[n].got[2].data \subseteq goods
  <2>1. ASSUME NEW x \in results[n].got[2].data PROVE x \in goods
    BY <2>1
  <2> QED BY <2>1
<1>3. PICK all : all = IF results[n].scenario.nations # Null
                       THEN results[n].scenario.nations ELSE results[n].got[3].data
  OBVIOUS
<1>4. all \subseteq nations
  <2>1. ASSUME NEW x \in all PROVE x \in nations
    BY <1>3, <2>1
  <2> QED BY <2>1
<1>5. PICK name : name = results[n].scenario.name
  OBVIOUS
<1>6. results[n].missing # {} => name \in names
  BY <1>5
<1>7. ASSUME results[n].missing # {},
             \A k \in DOMAIN results \ {n} : results[k].scenario.name # name
      PROVE  last(name) = n
  <2>1. \A o \in DOMAIN results : o > n /\ results[o].scenario.name = name
                                    => results[o].missing = {}
    BY <1>7
  <2>2. \E k \in DOMAIN results :
            /\ results[k].scenario.name = name /\ results[k].missing # {}
            /\ \A o \in DOMAIN results : o > k /\ results[o].scenario.name = name
                                             => results[o].missing = {}
    BY <1>5, <1>7, <2>1
  <2>3. last(name) \in DOMAIN results /\ results[last(name)].scenario.name = name
    BY <2>2
  <2> QED BY <1>7, <2>3
<1> HIDE DEF names, last, nations, goods
<1>8. results[n].missing # {}
        /\ (\A k \in DOMAIN results \ {n} : results[k].scenario.name # name)
      => missing[name] = results[n].missing
  BY <1>6, <1>7
<1>9. DOMAIN missing = names
  OBVIOUS
<1> HIDE DEF missing
<1>10. PICK summary : summary = SummaryOf(results) /\ summary.missing = missing
                      /\ summary.nations = nations /\ summary.goods = goods
  BY <1>1
<1> QED BY <1>2, <1>3, <1>4, <1>5, <1>6, <1>8, <1>9, <1>10

\* Mappings of the same fields to the same values are the same where another lies over them.
LEMMA OverSame ==
    ASSUME NEW first, NEW second, NEW merged, merged = Over(first, second),
           NEW third, NEW fourth, NEW other, other = Over(third, fourth),
           DOMAIN merged = DOMAIN other, \A f \in DOMAIN merged : merged[f] = other[f]
    PROVE  merged = other
  BY DEF Over

\* Where nothing is null, and no currency empty, a default takes the place of what is
\* missing and of nothing else.
LEMMA FieldsAgree ==
    ASSUME NEW ofPlan, NEW given, NEW copied, DOMAIN copied = DOMAIN ofPlan,
           \A f \in DOMAIN ofPlan : copied[f] = ofPlan[f],
           NEW merged, merged = Over(given, copied), \A f \in DOMAIN merged : ~Unset(merged[f])
    PROVE  CliFields(ofPlan, given) = merged
<1> DEFINE inherited == {f \in DOMAIN ofPlan : ~Unset(ofPlan[f]) /\ Unset(Given(given, f))}
<1>1. PICK old : old = [f \in inherited |-> ofPlan[f]]
  OBVIOUS
<1>2. CliFields(ofPlan, given) = Over(old, given)
  BY <1>1, Zenon DEF CliFields
<1>3. /\ DOMAIN merged = DOMAIN given \cup DOMAIN copied
      /\ \A f \in DOMAIN given : merged[f] = given[f]
      /\ \A f \in DOMAIN copied : f \notin DOMAIN given => merged[f] = copied[f]
  BY DEF Over
<1>4. \A f \in DOMAIN ofPlan : f \notin DOMAIN given => ~Unset(ofPlan[f])
  BY <1>3
<1>5. \A f : f \in inherited <=> f \in DOMAIN ofPlan /\ f \notin DOMAIN given
  BY <1>3, <1>4 DEF Given, Unset
<1>6. DOMAIN old = inherited /\ \A f \in inherited : old[f] = ofPlan[f]
  BY <1>1
<1> HIDE DEF inherited
<1>7. PICK other : other = Over(old, given)
  OBVIOUS
<1>8. /\ DOMAIN other = DOMAIN old \cup DOMAIN given
      /\ \A f \in DOMAIN old : other[f] = old[f]
      /\ \A f \in DOMAIN given : f \notin DOMAIN old => other[f] = given[f]
  BY <1>7 DEF Over
<1>9. DOMAIN merged = DOMAIN other /\ \A f \in DOMAIN merged : merged[f] = other[f]
  BY <1>3, <1>5, <1>6, <1>8
<1> QED BY <1>2, <1>7, <1>9, OverSame

\* Defaults that are not null are copied as they are.
LEMMA DefaultsKept ==
    ASSUME NEW plan, Explicit(plan.defaults)
    PROVE  \E copied : /\ copied = DefaultsOf(plan) /\ DOMAIN copied = DOMAIN plan.defaults
                       /\ \A f \in DOMAIN plan.defaults : copied[f] = plan.defaults[f]
<1>1. PICK ofPlan : ofPlan = plan.defaults
  OBVIOUS
<1>2. PICK copied :
          copied = [f \in DOMAIN ofPlan |-> IF ofPlan[f] = Null THEN {} ELSE ofPlan[f]]
  OBVIOUS
<1>3. DOMAIN copied = DOMAIN ofPlan /\ \A f \in DOMAIN ofPlan : copied[f] = ofPlan[f]
  BY <1>1, <1>2 DEF Explicit
<1>4. copied = DefaultsOf(plan)
  BY <1>1, <1>2 DEF DefaultsOf
<1> QED BY <1>1, <1>3, <1>4

\* A plan whose preview is valid has no empty currency.
LEMMA NothingIsUnset ==
    ASSUME NEW plan \in Plans, Previewed(plan), Explicit(plan.defaults),
           NEW n \in DOMAIN plan.scenarios, Explicit(plan.scenarios[n].given),
           NEW merged, merged = Over(plan.scenarios[n].given, DefaultsOf(plan))
    PROVE  /\ PreviewOf(plan)[n] = Scenario(plan.scenarios[n].name, merged)
           /\ \A f \in DOMAIN merged : ~Unset(merged[f])
<1>1. PICK given : given = plan.scenarios[n].given
  OBVIOUS
<1>2. PICK copied : /\ copied = DefaultsOf(plan) /\ DOMAIN copied = DOMAIN plan.defaults
                    /\ \A f \in DOMAIN plan.defaults : copied[f] = plan.defaults[f]
  BY DefaultsKept
<1>3. merged = Over(given, copied)
  BY <1>1, <1>2
<1>9. /\ DOMAIN merged = DOMAIN given \cup DOMAIN copied
      /\ \A f \in DOMAIN given : merged[f] = given[f]
      /\ \A f \in DOMAIN copied : f \notin DOMAIN given => merged[f] = copied[f]
  BY <1>3 DEF Over
<1>4. PreviewOf(plan)[n] = Scenario(plan.scenarios[n].name, merged)
  BY <1>1, <1>2, <1>3 DEF PreviewOf
<1>5. ASSUME NEW f \in DOMAIN merged PROVE merged[f] # Null
  BY <1>1, <1>2, <1>5, <1>9 DEF Explicit
<1>6. ASSUME "base_currency" \in DOMAIN merged PROVE merged["base_currency"] # Blank
  <2>1. PreviewOf(plan)[n].base # Blank
    BY DEF Previewed
  <2>2. PreviewOf(plan)[n].base = merged["base_currency"]
    BY <1>4, <1>5, <1>6 DEF Scenario
  <2> QED BY <2>1, <2>2
<1>7. ASSUME NEW f \in DOMAIN merged, f # "base_currency" PROVE merged[f] # Blank
  <2>1. ListsAreSets(plan.defaults) /\ ListsAreSets(given)
    BY <1>1, SnapshotAssumption
  <2>2. \/ f \in DOMAIN given /\ merged[f] = given[f]
        \/ f \in DOMAIN plan.defaults /\ merged[f] = plan.defaults[f]
    BY <1>2, <1>7, <1>9
  <2>3. merged[f] = Null \/ merged[f] \in (SUBSET Goods) \cup (SUBSET Nations)
    BY <1>7, <2>1, <2>2 DEF ListsAreSets
  <2> QED BY <2>3, SnapshotAssumption
<1> QED BY <1>1, <1>2, <1>3, <1>4, <1>5, <1>6, <1>7 DEF Unset

LEMMA PlansAgreeOn ==
    ASSUME SbInv
    PROVE  PlansAgree
<1> SUFFICES ASSUME Previewed(sbPlan), Explicit(sbPlan.defaults),
                    \A n \in DOMAIN sbPlan.scenarios : Explicit(sbPlan.scenarios[n].given)
             PROVE  /\ CliBatch(sbPlan) = PreviewOf(sbPlan)
                    /\ "commodity_symbols" \notin DOMAIN sbPlan.defaults =>
                           InspectedGoods(sbPlan)
                               = UNION {PreviewOf(sbPlan)[n].goods : n \in DOMAIN sbPlan.scenarios}
  BY Zenon DEF PlansAgree
<1>1. PICK plan \in Plans : plan = sbPlan
  BY DEF SbInv, SbTypes
<1>2. PICK copied : /\ copied = DefaultsOf(plan) /\ DOMAIN copied = DOMAIN plan.defaults
                    /\ \A f \in DOMAIN plan.defaults : copied[f] = plan.defaults[f]
  BY <1>1, DefaultsKept
<1>3. ASSUME NEW n \in DOMAIN plan.scenarios, NEW given, given = plan.scenarios[n].given,
             NEW merged, merged = Over(given, copied)
      PROVE  /\ PreviewOf(plan)[n] = Scenario(plan.scenarios[n].name, merged)
             /\ CliFields(plan.defaults, given) = merged
  <2>1. /\ PreviewOf(plan)[n] = Scenario(plan.scenarios[n].name, merged)
        /\ \A f \in DOMAIN merged : ~Unset(merged[f])
    BY <1>1, <1>2, <1>3, NothingIsUnset
  <2>2. PICK ofPlan : /\ ofPlan = plan.defaults /\ DOMAIN copied = DOMAIN ofPlan
                        /\ \A f \in DOMAIN ofPlan : copied[f] = ofPlan[f]
    BY <1>2
  <2>3. CliFields(ofPlan, given) = merged
    BY <1>3, <2>1, <2>2, FieldsAgree
  <2> QED BY <2>1, <2>2, <2>3
<1>4. CliBatch(plan) = PreviewOf(plan)
  <2>1. \A n \in DOMAIN plan.scenarios :
            Scenario(plan.scenarios[n].name, CliFields(plan.defaults, plan.scenarios[n].given))
                = Scenario(plan.scenarios[n].name,
                           Over(plan.scenarios[n].given, DefaultsOf(plan)))
    BY <1>2, <1>3, Zenon
  <2> QED BY <2>1 DEF CliBatch, PreviewOf
<1>5. ASSUME "commodity_symbols" \notin DOMAIN plan.defaults
      PROVE  InspectedGoods(plan) = UNION {PreviewOf(plan)[n].goods : n \in DOMAIN plan.scenarios}
  <2> DEFINE currency == {"base_currency"} \cap DOMAIN plan.defaults
             fields(n) == CliFields([f \in currency |-> plan.defaults[f]], plan.scenarios[n].given)
             goods(n) == Scenario(plan.scenarios[n].name, fields(n)).goods
  <2>1. InspectedGoods(plan) = UNION {goods(n) : n \in DOMAIN plan.scenarios}
    BY Zenon DEF InspectedGoods
  <2>2. ASSUME NEW n \in DOMAIN plan.scenarios PROVE goods(n) = PreviewOf(plan)[n].goods
    <3>1. PICK given : given = plan.scenarios[n].given
      OBVIOUS
    <3>2. PICK merged : /\ merged = Over(given, copied)
                        /\ PreviewOf(plan)[n] = Scenario(plan.scenarios[n].name, merged)
      BY <1>3, <3>1
    <3>3. PICK some : some = [f \in currency |-> plan.defaults[f]]
      OBVIOUS
    <3>4. PICK kept : kept = {f \in DOMAIN some : ~Unset(some[f]) /\ Unset(Given(given, f))}
      OBVIOUS
    <3>5. PICK inherited : inherited = [f \in kept |-> some[f]]
      OBVIOUS
    <3>6. PICK own : own = fields(n)
      OBVIOUS
    <3>7. own = CliFields(some, given)
      BY <3>1, <3>3, <3>6
    <3>8. CliFields(some, given) = Over(inherited, given)
      BY <3>4, <3>5 DEF CliFields
    <3>9. "commodity_symbols" \notin DOMAIN inherited
      <4>1. DOMAIN some = currency
        BY <3>3
      <4>2. DOMAIN inherited = kept
        BY <3>5
      <4> QED BY <3>4, <4>1, <4>2
    <3>10. goods(n) = Scenario(plan.scenarios[n].name, own).goods
      BY <3>6
    <3> HIDE DEF fields, goods, currency
    <3>11. /\ DOMAIN own = DOMAIN inherited \cup DOMAIN given
           /\ \A f \in DOMAIN inherited : own[f] = inherited[f]
           /\ \A f \in DOMAIN given : f \notin DOMAIN inherited => own[f] = given[f]
      BY <3>7, <3>8 DEF Over
    <3>12. /\ DOMAIN merged = DOMAIN given \cup DOMAIN copied
           /\ \A f \in DOMAIN given : merged[f] = given[f]
           /\ \A f \in DOMAIN copied : f \notin DOMAIN given => merged[f] = copied[f]
      BY <3>2 DEF Over
    <3>13. /\ "commodity_symbols" \in DOMAIN own <=> "commodity_symbols" \in DOMAIN given
           /\ "commodity_symbols" \in DOMAIN given =>
                 own["commodity_symbols"] = given["commodity_symbols"]
      BY <3>9, <3>11
    <3>14. /\ "commodity_symbols" \in DOMAIN merged <=> "commodity_symbols" \in DOMAIN given
           /\ "commodity_symbols" \in DOMAIN given =>
                 merged["commodity_symbols"] = given["commodity_symbols"]
      BY <1>2, <1>5, <3>12
    <3> QED BY <3>2, <3>10, <3>13, <3>14 DEF Scenario, Given
  <2> HIDE DEF goods
  <2> QED BY <2>1, <2>2
<1> QED BY <1>1, <1>4, <1>5

\* The types of the caches' counters, the clock and the runs (SbTypeOK): a run has asked
\* at most the three ports.
THEOREM SnapshotsTyped == SbSpec => []SbTypeOK
<1>1. ASSUME SbInv PROVE SbTypeOK
  <2>1. ASSUME NEW r \in Runners
        PROVE  /\ sbRuns[r].step \in SbSteps /\ sbRuns[r].port \in SbPorts
               /\ Len(sbRuns[r].got) <= 3
    <3>1. PICK run : /\ run = sbRuns[r] /\ run \in SbRunType(SbScenes, SbValues)
                     /\ SbRunFits(run, sbEpoch)
      BY <1>1, SbParts
    <3>2. run.step \in SbSteps /\ run.port \in {1, 2, 3}
      BY <3>1, PortsAre DEF SbRunType
    <3>3. run.got = <<>> => Len(run.got) = 0
      OBVIOUS
    <3>4. run.step \in {"look", "ask", "store"} => Len(run.got) <= 3
      BY <3>1, <3>2 DEF SbRunFits
    <3>5. run.step \notin {"look", "ask", "store"} => Len(run.got) <= 3
      <4>1. run.step = "diagnose" => Len(run.got) = 3
        BY <3>1 DEF SbRunFits
      <4>2. run.step \in {"idle", "clear", "answered", "failed"} => Len(run.got) = 0
        BY <3>1, <3>3 DEF SbRunFits
      <4>3. run.step = "diagnose"
              \/ run.step \in {"idle", "clear", "answered", "failed"}
              \/ run.step \in {"look", "ask", "store"}
        BY <3>2 DEF SbSteps
      <4>4. PICK length : length = Len(run.got)
        OBVIOUS
      <4>5. length = 3 \/ length = 0 => length <= 3
        OBVIOUS
      <4> QED BY <4>1, <4>2, <4>3, <4>4, <4>5
    <3> QED BY <3>1, <3>2, <3>4, <3>5, PortsAre
  <2>2. \A p \in SbPorts : {sbHits[p], sbMisses[p], sbEpoch[p], sbAsked[p]} \subseteq Nat
    BY <1>1 DEF SbInv, SbTypes, SbCounts
  <2> QED BY <1>1, <2>1, <2>2 DEF SbTypeOK, SbInv, SbTypes, SbSteps
<1> QED BY <1>1, SbInvHolds, PTL

\* Snapshots are sound (FreshAfterReset, AnswersTheRequest, LookupsAddUp, PlansAgree): a
\* result is of its own scenario and, but for what was stored late, not from before its
\* reset, every counted miss asks a port once, and a plan is previewed as it is run.
THEOREM SnapshotsHold == SbSpec => []SnapshotsAreSound
<1>1. ASSUME SbInv, NEW r \in Runners, NEW n \in DOMAIN sbRuns[r].results
      PROVE  n \in Nat /\ ResultFits(sbRuns[r].results[n])
  <2>1. PICK run : /\ run = sbRuns[r] /\ run \in SbRunType(SbScenes, SbValues)
                   /\ SbRunFits(run, sbEpoch)
    BY <1>1, SbParts
  <2>2. run.results \in Seq(SbResultType(SbScenes, SbValues))
    BY <2>1 DEF SbRunType
  <2>3. DOMAIN run.results = 1..Len(run.results)
    BY <2>2, LenProperties
  <2> QED BY <1>1, <2>1, <2>3 DEF SbRunFits
<1>2. ASSUME SbInv PROVE FreshAfterReset
  BY <1>1, <1>2 DEF ResultFits, Serves, IsFresh, FreshAfterReset
<1>3. ASSUME SbInv PROVE AnswersTheRequest
  <2> SUFFICES ASSUME NEW r \in Runners, NEW m \in DOMAIN sbRuns[r].results
               PROVE  LET results == sbRuns[r].results
                          summary == SummaryOf(results)
                          result == results[m]
                          scenario == result.scenario
                      IN  /\ \A p \in SbPorts : result.got[p].data \in PortAnswers(scenario, p)
                          /\ result.got[2].data \subseteq summary.goods
                          /\ result.got[3].data \subseteq summary.nations
                          /\ result.missing # {} => scenario.name \in DOMAIN summary.missing
                          /\ result.missing # {}
                               /\ (\A k \in DOMAIN results \ {m} :
                                       results[k].scenario.name # scenario.name)
                             => summary.missing[scenario.name] = result.missing
    BY Zenon DEF AnswersTheRequest
  <2>1. PICK results, summary, result, scenario :
            /\ results = sbRuns[r].results /\ summary = SummaryOf(results)
            /\ result = results[m] /\ scenario = result.scenario
    OBVIOUS
  <2>2. m \in Nat /\ ResultFits(result)
    BY <1>1, <1>3, <2>1
  <2>3. \A p \in SbPorts : result.got[p].data \in PortAnswers(scenario, p)
    BY <2>1, <2>2 DEF ResultFits, Serves
  <2>4. /\ result.got[2].data \subseteq summary.goods
        /\ (IF scenario.nations # Null THEN scenario.nations ELSE result.got[3].data)
               \subseteq summary.nations
        /\ result.missing # {} => scenario.name \in DOMAIN summary.missing
        /\ result.missing # {}
             /\ (\A k \in DOMAIN results \ {m} : results[k].scenario.name # scenario.name)
           => summary.missing[scenario.name] = result.missing
    BY <2>1, <2>2, SummaryTells
  <2>5. scenario.nations # Null => result.got[3].data \subseteq scenario.nations
    BY <2>3 DEF SbPorts, PortAnswers, TaxAnswers
  <2> QED BY <2>1, <2>3, <2>4, <2>5
<1>4. ASSUME SbInv PROVE LookupsAddUp
  BY <1>4 DEF SbInv, CountsFit, Asking, LookupsAddUp
<1>5. SbInv => SnapshotsAreSound
  BY <1>2, <1>3, <1>4, PlansAgreeOn DEF SnapshotsAreSound
<1> QED BY <1>5, SbInvHolds, PTL

-----------------------------------------------------------------------------
(* The parts together.  Each behaviour of the instance runs one of them,   *)
(* so it is a behaviour of every one.                                      *)

LEMMA ServicesRunGovernance == ServicesSpec => GovSpec
<1>1. ServicesInit => GovInit
  BY DEF ServicesInit
<1>2. 1 \in Items /\ 1 \in Keys /\ u1 \in Users /\ u2 \in Users /\ Api \in Procs
      /\ Capabilities \subseteq Items
  BY ServicesAssumption DEF Items, Procs
<1>3. ServeStep => GovOperatorStep
  BY <1>2 DEF ServeStep, GovOperatorStep
<1>4. TrustStep => GovOperatorStep \/ \E u \in Users : GovWorkspaceStep(u) \/ GovHandlerStep(u)
  BY <1>2 DEF TrustStep, GovOperatorStep, GovWorkspaceStep
<1>5. PoliciesStep => GovOperatorStep \/ \E u \in Users : GovWorkspaceStep(u) \/ GovHandlerStep(u)
  BY <1>2, <1>3 DEF PoliciesStep, GovWorkspaceStep
<1>6. DefaultsStep => GovOperatorStep \/ \E u \in Users : GovWorkspaceStep(u) \/ GovHandlerStep(u)
  BY <1>2, <1>3 DEF DefaultsStep, GovWorkspaceStep
<1>7. ChoiceStep => GovOperatorStep \/ \E u \in Users : GovWorkspaceStep(u) \/ GovHandlerStep(u)
  BY <1>2, <1>3 DEF ChoiceStep, GovWorkspaceStep
<1>8. GovFocused => GovNext
  BY <1>4, <1>5, <1>6, <1>7 DEF GovFocused, GovNext
<1>9. [ServicesNext]_serviceVars => [GovNext]_govVars
  BY <1>8 DEF ServicesNext, serviceVars
<1> QED BY <1>1, <1>9, PTL DEF ServicesSpec, GovSpec

LEMMA ServicesRunForecasts == ServicesSpec => FcSpec
<1>1. ServicesInit => FcInit
  BY DEF ServicesInit
<1>2. ReportsStep => FcNext
  BY ServicesAssumption DEF ReportsStep, FcNext, FcRequest, FcCallers, Subjects
<1>3. [ServicesNext]_serviceVars => [FcNext]_fcVars
  BY <1>2 DEF ServicesNext, serviceVars
<1> QED BY <1>1, <1>3, PTL DEF ServicesSpec, FcSpec

LEMMA ServicesRunWorkspace == ServicesSpec => CwSpec
<1>1. ServicesInit => CwInit
  BY DEF ServicesInit
<1>2. WorkspaceStep => CwNext
  BY ServicesAssumption DEF WorkspaceStep, BrowserStep, CwNext, CwClicks
<1>3. [ServicesNext]_serviceVars => [CwNext]_cwVars
  BY <1>2 DEF ServicesNext, serviceVars
<1> QED BY <1>1, <1>3, PTL DEF ServicesSpec, CwSpec

LEMMA ServicesRunAudit == ServicesSpec => AwSpec
<1>1. ServicesInit => AwInit
  BY DEF ServicesInit
<1>2. [ServicesNext]_serviceVars => [AwNext]_awVars
  BY DEF ServicesNext, serviceVars
<1> QED BY <1>1, <1>2, PTL DEF ServicesSpec, AwSpec

LEMMA ServicesRunEvidence == ServicesSpec => EvSpec
<1>1. ServicesInit => EvInit
  BY DEF ServicesInit
<1>2. EvidenceStep => EvNext
  BY ServicesAssumption DEF EvidenceStep, EvNext, EvOthers, EvRequest
<1>3. [ServicesNext]_serviceVars => [EvNext]_evVars
  BY <1>2 DEF ServicesNext, serviceVars
<1> QED BY <1>1, <1>3, PTL DEF ServicesSpec, EvSpec

LEMMA ServicesRunSyncs == ServicesSpec => PsSpec
<1>1. ServicesInit => PsInit
  BY DEF ServicesInit
<1>2. ASSUME NEW s \in Syncers, NEW kind \in {"fx", "market", "tax"}, PsRequests(s, {kind})
      PROVE  PsRequests(s, {"fx", "market", "tax"})
  BY <1>2 DEF PsRequests
<1>3. SyncStep => PsNext
  BY <1>2 DEF SyncStep, PsNext
<1>4. [ServicesNext]_serviceVars => [PsNext]_psVars
  BY <1>3 DEF ServicesNext, serviceVars
<1> QED BY <1>1, <1>4, PTL DEF ServicesSpec, PsSpec

LEMMA ServicesRunSnapshots == ServicesSpec => SbSpec
<1>1. ServicesInit => SbInit
  BY DEF ServicesInit
<1>2. SnapshotStep => SbNext
  BY ServicesAssumption DEF SnapshotStep, SbNext
<1>3. [ServicesNext]_serviceVars => [SbNext]_sbVars
  BY <1>2 DEF ServicesNext, serviceVars
<1> QED BY <1>1, <1>3, PTL DEF ServicesSpec, SbSpec

\* The variables of all these components keep their types.
THEOREM ServicesTyped == ServicesSpec => []ServicesTypeOK
<1>1. GovTypeOK /\ CwTypeOK /\ PsTypeOK /\ SbTypeOK /\ EvTypeOK => ServicesTypeOK
  BY DEF ServicesTypeOK
<1> QED
  BY <1>1, ServicesRunGovernance, ServicesRunWorkspace, ServicesRunSyncs, ServicesRunSnapshots,
     ServicesRunEvidence, GovTypeCorrect, CwTypesHold, SyncsTyped, SnapshotsTyped, EvidenceTyped, PTL

\* What a user is answered and shown stands: one plan of a budget, a refreshed report
\* as current as its request, and the record of the cycle that is selected.
THEOREM ServicesAnswerCurrently == ServicesSpec => []AnswersAreCurrent
<1>1. BudgetPlanOnce /\ RefreshedIsCurrent /\ RecordIsOfSelected => AnswersAreCurrent
  BY DEF AnswersAreCurrent
<1> QED
  BY <1>1, ServicesRunForecasts, ServicesRunWorkspace, BudgetHasOnePlan, RefreshAnswersCurrently,
     RecordStaysOfSelected, PTL

\* The audit log is flushed whole, written in order, and paged without a gap but where
\* entries were recorded out of order.
THEOREM ServicesAuditComplete == ServicesSpec => []AuditIsComplete
<1>1. FlushedIsTried /\ WrittenInOrder /\ PagesSkipOnlyReordered => AuditIsComplete
  BY DEF AuditIsComplete
<1> QED
  BY <1>1, ServicesRunAudit, FlushWaitsForAll, WorkerKeepsOrder, PagesSkipNoOther, PTL

\* A capability is resolved to a provider that was trusted and enabled, and no identity,
\* policy or default changes but as it was reviewed.
THEOREM ServicesGoverned == ServicesSpec => []ResolvedWasPermitted /\ GovernanceIsReviewed
  BY ServicesRunGovernance, ResolvedIsPermitted, GovernanceStaysReviewed, PTL

\* A click moves a cycle only from the status its page showed.
THEOREM ServicesClicksAsOffered == ServicesSpec => MovesAsOffered
  BY ServicesRunWorkspace, ClicksMoveWhatTheyShowed, PTL

\* Evidence is what it says, also among the other components.
THEOREM ServicesKeepEvidence == ServicesSpec => []EvidenceIsSound
  BY ServicesRunEvidence, EvidenceHolds, PTL

\* Syncs are sound, also among the other components.
THEOREM ServicesSyncSoundly == ServicesSpec => []SyncsAreSound
<1>1. SyncsAreWhole /\ InstrumentOnce /\ RulesFollowFeed /\ AskedWhileAllowed => SyncsAreSound
  BY DEF SyncsAreSound
<1> QED BY <1>1, ServicesRunSyncs, SyncsHold, PTL

\* Snapshots are sound, also among the other components.
THEOREM ServicesSnapshotSoundly == ServicesSpec => []SnapshotsAreSound
  BY ServicesRunSnapshots, SnapshotsHold, PTL
=============================================================================
