---------------------------- MODULE MCAuthSession ----------------------------
EXTENDS AuthSession, TLC

Symmetry == Permutations(Callers) \cup Permutations(Sids) \cup Permutations(Jtis)
==============================================================================
