---------------------------- MODULE MCPeriodGate ----------------------------
(* Instances of PeriodGate for TLC. *)
EXTENDS PeriodGate, TLC

Symmetry == Permutations(Sessions) \cup Permutations(Periods)
=============================================================================
