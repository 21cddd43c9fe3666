---------------------------- MODULE MCLifecycle ----------------------------
(* Lifecycle, and its refinement of Sandbox, on small sets of ids, threads  *)
(* and pids.  The three are only compared for equality, so permuting any of *)
(* them is a symmetry.                                                      *)
EXTENDS LifecycleSandbox, TLC

Symmetry == Permutations(Ids) \cup Permutations(Threads) \cup Permutations(Pids)
=============================================================================
