---------------------------- MODULE CloseControl ----------------------------
(***************************************************************************)
(* What the close workspace promises about one period, without saying how: *)
(* the books close only while frozen and only over controls that prove the *)
(* ledger as it stands, and then neither the ledger nor the proof moves    *)
(* until an administrator reopens them.                                    *)
(***************************************************************************)
EXTENDS Naturals

VARIABLES
    phase,    \* "working", "ready" or "closed"
    ledger,   \* a revision of the period's journals
    proven    \* every required control is complete at this revision

vars == <<phase, ledger, proven>>

Init == phase = "working" /\ ledger \in Nat /\ proven \in BOOLEAN

Work ==
    /\ phase = "working"
    /\ ledger' \in Nat /\ ledger' >= ledger
    /\ proven' \in BOOLEAN
    /\ UNCHANGED phase

Move(from, to) ==
    /\ phase = from
    /\ phase' = to
    /\ UNCHANGED <<ledger, proven>>

Freeze == Move("working", "ready")
Thaw == Move("ready", "working")
SignOff == proven /\ Move("ready", "closed")
Unlock == Move("closed", "working")

Next == Work \/ Freeze \/ Thaw \/ SignOff \/ Unlock

Spec == Init /\ [][Next]_vars

(* Closed books rest on a complete proof of the ledger they contain.         *)
ClosedIsProven == phase = "closed" => proven
=============================================================================
