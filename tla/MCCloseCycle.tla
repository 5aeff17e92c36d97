---------------------------- MODULE MCCloseCycle ----------------------------
(* Instances of CloseCycle for TLC. *)
EXTENDS CloseCycle, TLC

Symmetry ==
    Permutations(Sessions) \cup Permutations(Users) \cup Permutations(Journals)
        \cup Permutations(CustomTasks)

\* A cycle that has been started and attested: start and update_manual_task
\* (the CloseLifecycle run makes both) lead here from Init.
AttestedInit ==
    /\ status = "IN_PROGRESS" /\ content = 3
    /\ pstatus = "OPEN" /\ lrev = 1
    /\ posted = {} /\ earlier = 0 /\ staged = 0
    /\ recs = [a \in Accounts |-> NoRec]
    /\ run = NoRun
    /\ cached = 0
    /\ approvals = [j \in Journals |-> NoApproval]
    /\ tasks = [t \in Tasks |-> IF t = "attestation" THEN [status |-> "COMPLETE", version |-> 2]
                                                     ELSE [status |-> "ABSENT", version |-> 0]]
    /\ evidence = NoEvidence
    /\ op = [s \in Sessions |-> Idle]

AttestedSpec == AttestedInit /\ [][Next]_vars
=============================================================================
