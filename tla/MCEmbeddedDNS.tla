---------------------------- MODULE MCEmbeddedDNS ----------------------------
EXTENDS EmbeddedDNS, TLC

Symmetry == Permutations(Gateways) \cup Permutations(Threads) \cup Permutations(Pids)
=============================================================================
