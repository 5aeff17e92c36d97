--------------------------- MODULE MCStagedPosting ---------------------------
(***************************************************************************)
(* Instances of StagedPosting for TLC.  The staged workflow is explored in *)
(* two situations: full batches, their first transaction balanced, that    *)
(* are validated, posted, failed and retried; and single transactions that *)
(* are ingested again under one reference, the currency given or left out, *)
(* while their account may still be missing.                               *)
(***************************************************************************)
EXTENDS StagedPosting, TLC

VARIABLE focus

Symmetry == Permutations(Sessions) \cup Permutations(Refs)

Good(a) == [account |-> a, balanced |-> TRUE, currency |-> "named"]
OnePayload == {Good(a) : a \in Accounts}
TwoPayloads == OnePayload \cup {[account |-> a, balanced |-> TRUE, currency |-> "omitted"] : a \in Accounts}
BadPayloads == OnePayload \cup {[account |-> a, balanced |-> FALSE, currency |-> "named"] : a \in Accounts}
AllPayloads == TwoPayloads \cup BadPayloads

\* The batches clients send in each situation.
Sent(batch) ==
    IF focus = "retries"
    THEN /\ Len(batch) = MaxBatch /\ batch[1].payload.balanced
         /\ \A n \in DOMAIN batch : batch[n].ref = NoRef /\ batch[n].payload \in BadPayloads
    ELSE Len(batch) = 1 /\ batch[1].ref # NoRef /\ batch[1].payload \in TwoPayloads

FocusInit ==
    /\ focus \in {"retries", "references"}
    /\ Init
    /\ focus = "retries" => chart = Accounts

FocusNext ==
    /\ UNCHANGED focus
    /\ \/ \E s \in Sessions :
           \/ \E batch \in Batches, auto \in BOOLEAN :
                  Sent(batch) /\ BeginIngest(s, batch, auto)
           \/ \E ids \in (SUBSET Present(db.rows)) \ {{}}, auto \in BOOLEAN :
                  focus = "retries" /\ BeginProcess(s, ids, auto)
           \/ Serve(s)
       \/ \E st \in {"OPEN", "READY"} : focus = "retries" /\ MovePeriod(st)
       \/ \E a \in Accounts : CreateAccount(a)

FocusSpec == FocusInit /\ [][FocusNext]_<<focus, vars>>
==============================================================================
