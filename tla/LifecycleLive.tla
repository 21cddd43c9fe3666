---------------------------- MODULE LifecycleLive ----------------------------
(***************************************************************************)
(* Lifecycle with the fairness its scheduling gives: a goroutine that can  *)
(* take its next step takes it, the kernel ends a process it sent SIGKILL, *)
(* and main goes through boot.  Requests, the exit of a user process and   *)
(* the end of the daemon are never owed.                                   *)
(***************************************************************************)
EXTENDS Lifecycle

Dies(p) == pst[p] = "dying" /\ Exit(p)

Fairness == /\ \A t \in Threads : WF_vars(Step(t))
            /\ \A p \in Pids : WF_vars(Dies(p))
            /\ WF_vars(Startup)

FairSpec == Spec /\ Fairness

\* A stop that finds a session waiting for its process ends that session, its
\* cleanup and its last save included.
StopEndsSession ==
    \A t, u \in Threads :
        (pc[t] = "killAll" /\ pc[u] = "wait" /\ tgt[t] = tgt[u]) ~> (pc[u] = "idle")

Dead(i) == \A p \in Pids : own[p] = i => ~Live(p)

\* A record does not say "running" for ever when the container has no process:
\* a process comes, or the record is rewritten.
RecordSettles ==
    \A i \in Ids : (meta[i].state = "running" /\ Dead(i))
                       ~> (meta[i].state # "running" \/ ~Dead(i))

=============================================================================
