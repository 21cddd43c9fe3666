-------------------------- MODULE LifecycleSandbox --------------------------
(* The daemon implements Sandbox: the refinement mapping.                   *)
EXTENDS Lifecycle

Phase(p) ==
    CASE pst[p] \in {"free", "host"}          -> "absent"
      [] pst[p] \in {"dying", "exit0", "exit1"} -> "dead"
      [] pst[p] = "user"                      -> "running"
      [] pst[p] = "held" /\ p \in net         -> "connected"
      [] pst[p] = "held" /\ p \in incg /\ p \notin net -> "limited"
      [] OTHER                                -> "made"

Boxes == INSTANCE Sandbox WITH phase <- [p \in Pids |-> Phase(p)], box <- own

\* Every process goes limits, network, command, in this order and for a single
\* container (namespaces.go:128-201), under any interleaving of the requests.
ImplementsSandbox == Boxes!Spec
=============================================================================
