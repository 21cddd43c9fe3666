--------------------------- MODULE LifecycleSerial ---------------------------
(***************************************************************************)
(* Two ways of using the daemon, as restrictions of when a request may     *)
(* begin.  The steps of the requests are those of Lifecycle.               *)
(***************************************************************************)
EXTENDS Lifecycle

(***************************************************************************)
(* "Serial": for one container, a request begins when the previous one has *)
(* entirely ended, the goroutine of a session included; the exception is   *)
(* the stop of a session that waits for its process.  Requests for         *)
(* different containers overlap freely.  Nothing in the daemon enforces    *)
(* this: it is what a lock per container would give.                       *)
(***************************************************************************)
Calm(i)    == \A u \in Threads : tgt[u] # i
Waiting(i) == \A u \in Threads : tgt[u] = i => pc[u] = "wait"

SerialBegin(t) ==
    \/ CreateContainer(t)
    \/ \E i \in Ids : \/ Calm(i) /\ \/ StartContainer(t, i)
                                    \/ StartAttached(t, i)
                                    \/ DeleteContainer(t, i)
                      \/ Waiting(i) /\ StopContainer(t, i)

SerialNext == \/ \E t \in Threads : SerialBegin(t) \/ Step(t)
              \/ Environment
              \/ Startup

SerialSpec == Init /\ [][SerialNext]_vars

(***************************************************************************)
(* "Sequential": one client that sends a request when the previous one was *)
(* answered.  A start is answered at once (handle_start.go:16-21) and goes *)
(* on in a goroutine.                                                      *)
(***************************************************************************)
Answered(u) == pc[u] \in {"idle", "unmount"} \cup StartPcs \cup SessionPcs

SequentialBegin(t) == Begin(t) /\ \A u \in Threads : Answered(u)

SequentialNext == \/ \E t \in Threads : SequentialBegin(t) \/ Step(t)
                  \/ Environment
                  \/ Startup

SequentialSpec == Init /\ [][SequentialNext]_vars

-----------------------------------------------------------------------------
\* A container has at most one process that runs its command: a start of a
\* container that runs is refused (manager.go:138-141, 439-441).
OneInstance ==
    \A p, q \in Pids : pst[p] = "user" /\ pst[q] = "user" /\ own[p] = own[q] => p = q

\* A process that runs a user's command is always the one its container's record
\* names, so that stop and exec reach it, across crashes of the daemon too.
LiveIsRecorded ==
    \A p \in Pids : pst[p] = "user" => meta[own[p]] = Record("running", p)

\* A container that was deleted with success does not come back
\* (manager.go:347-350).
GoneStaysGone == \A i \in Ids : life[i] = "gone" => meta[i] = Absent

\* While the daemon has not gone down, the overlays of a container are exactly
\* those of its sessions: none is taken from under a session, none is left.
MountsExact ==
    crashes = 0 => \A i \in Ids : mounts[i] = Cardinality(MountHolders(i))

-----------------------------------------------------------------------------
\* When a stop answers, no process of the container is held or running (manager.go:
\* 293-325).  Not so under SequentialSpec: a stop that comes before the PID is saved
\* finds nothing to kill.
StopLeavesNothing ==
    [][\A t \in Threads : pc[t] = "saveStop" /\ pc'[t] = "idle" /\ daemon' = "up" =>
          \A p \in Pids : own[p] = tgt[t] => pst[p] \notin {"held", "user"}]_vars

Commands == [i \in Ids |-> {p \in Pids : pst[p] = "user" /\ own[p] = i}]
Containers == INSTANCE Container WITH
                  records <- {i \in Ids : meta[i] # Absent}, commands <- Commands

\* The daemon implements Container: start and delete of a container that runs are
\* refused across restarts and reused pids, each step begins or ends one command at
\* most, and no save brings a deleted record back (manager.go:138-141, 335-350).
ImplementsContainer == Containers!Spec

\* Not so: once a container has ended and nothing works on it, its cgroup is gone.
\* It is removed while the child of a failed set-up is dying, and never again.
CgroupReleased ==
    \A i \in Ids : meta[i].state \in {"stopped", "failed"} /\ Calm(i) => i \notin cgdir
-----------------------------------------------------------------------------
(***************************************************************************)
(* What makes the properties above inductive under SerialSpec.             *)
(***************************************************************************)
\* Pcs of a session at which a stop may be beside it.
StoppablePcs == {"wait", "cleanOk", "cleanErr", "finalOk", "finalErr", "saveFinal", "unmount"}

\* Two threads on one container are a stop and the session that it met waiting.
StopsSession(t, u) == pc[t] \in StopPcs /\ pc[u] \in StoppablePcs
OnePerContainer ==
    \A t, u \in Threads : t # u /\ tgt[t] = tgt[u] /\ tgt[t] # NoId =>
        StopsSession(t, u) \/ StopsSession(u, t)

\* An idle thread is on no container; only a save has a file open, and nobody
\* removes the file meanwhile.
AtRest ==
    \A t \in Threads :
        /\ pc[t] = "idle" => tgt[t] = NoId
        /\ fd[t] # "none" => fd[t] = "open" /\ pc[t] \in SavePcs

\* An id that nobody has used yet, or that was deleted, has no record and no request.
OnlyUsed == \A i \in Ids : life[i] # "used" => meta[i] = Absent /\ Calm(i)

\* A process on the pipe has a session at its other end.
HeldHasSession ==
    \A p \in Pids : pst[p] = "held" =>
        \E t \in Threads : child[t] = p /\ pc[t] \in {"apply", "network", "ready", "release"}

\* Pcs that are reached only while no command of the container runs, and that it
\* cannot be started from.
QuietPcs == Pcs \ {"idle", "check", "checkAttach", "wait", "mark", "killAll", "deleteCheck"}
NoCommand(i) == \A p \in Pids : own[p] = i => pst[p] # "user"
QuietContainers ==
    \A t \in Threads :
        /\ pc[t] \in QuietPcs => NoCommand(tgt[t])
        /\ pc[t] = "wait" =>
              \A p \in Pids : own[p] = tgt[t] /\ pst[p] = "user" => p = child[t]

\* What a method that decides on its copy has loaded is still what the file says.
CopiesCurrent ==
    \A t \in Threads :
        pc[t] \in {"check", "checkAttach", "deleteCheck"} => loc[t] = meta[tgt[t]]

\* What a method works on is a record that it could read or has made.
CopiesReadable == \A t \in Threads : pc[t] # "idle" => Readable(loc[t])

\* The PID is in the record before the command is let go.
PidAnnounced ==
    \A t \in Threads :
        /\ pc[t] = "ready" => loc[t] = Record("running", child[t])
        /\ pc[t] = "ready" /\ fd[t] = "open" => meta[tgt[t]] = Empty
        /\ pc[t] = "release" => meta[tgt[t]] = Record("running", child[t])

\* A session has one overlay, and there is no other.
MountsOnce ==
    crashes = 0 => \A i \in Ids : mounts[i] = IF MountHolders(i) = {} THEN 0 ELSE 1

SerialInv ==
    /\ TypeOK /\ ThreadsBound /\ Confinement
    /\ OnePerContainer /\ AtRest /\ OnlyUsed /\ HeldHasSession
    /\ QuietContainers /\ CopiesCurrent /\ CopiesReadable /\ PidAnnounced
    /\ MountsOnce /\ LiveIsRecorded
=============================================================================
