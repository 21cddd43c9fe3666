------------------------- MODULE MCLifecycleSerial -------------------------
EXTENDS LifecycleSerial, TLC

Symmetry == Permutations(Ids) \cup Permutations(Threads) \cup Permutations(Pids)
=============================================================================
