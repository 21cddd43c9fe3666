------------------------------ MODULE Lifecycle ------------------------------
(***************************************************************************)
(* The container lifecycle of the minidockerd daemon:                      *)
(* internal/container/manager.go, with the parts of                        *)
(* internal/isolation (RunParent, RunChild, cgroups) and internal/storage  *)
(* (overlay mounts) that a lifecycle operation runs through, and           *)
(* cmd/minidockerd/main.go for boot and shutdown.                          *)
(*                                                                         *)
(* Every HTTP request of the API runs one Manager method in a goroutine of *)
(* its own ("thread").  Manager.mu only guards the map `stopping': what    *)
(* the methods share, the file config.json of a container, its overlay     *)
(* mount, its cgroup and the process table of the kernel, is unprotected.  *)
(* A thread therefore runs step by step, and a step is one access to       *)
(* something shared.                                                       *)
(*                                                                         *)
(* Left out: the container's name (lookup is by id), DNS, ports and        *)
(* addresses, the image, and I/O errors of saveMetadata, whose result the  *)
(* lifecycle methods ignore.                                               *)
(***************************************************************************)
EXTENDS Naturals, FiniteSets

CONSTANTS
    Ids,        \* container ids generateID may return
    Threads,    \* goroutines that serve requests
    Pids,       \* process ids of the host
    HostPids,   \* those the kernel may also give to processes that are not ours
    NoPid,      \* the PID field of a container that has no process (0 in the code)
    NoId,       \* the owner of a process that belongs to no container
    MaxCrashes  \* bound: how often the daemon goes down

ASSUME LifecycleAssumption ==
    /\ NoPid \notin Pids
    /\ NoId \notin Ids
    /\ HostPids \subseteq Pids
    /\ MaxCrashes \in Nat

VARIABLES
    meta,      \* config.json of each container
    mounts,    \* overlay filesystems stacked on <id>/merged
    cgdir,     \* containers with a directory under /sys/fs/cgroup/minidocker
    life,      \* history: id never used, in use, or deleted with success
    pst,       \* state of each process id
    own,       \* the container a process was started for
    kids,      \* children of the daemon that runs now and that it has not waited for
    incg,      \* processes enrolled in the cgroup of their container
    net,       \* processes whose network namespace has its veth and address
    daemon,    \* "down", "boot" (main before ListenAndServe) or "up"
    todo,      \* containers Reconcile has not looked at
    stopping,  \* Manager.stopping
    adopted,   \* history: records Reconcile left in "running", untouched since
    crashes,   \* how often the daemon went down
    pc,        \* next step of each thread
    tgt,       \* the container a thread works on
    loc,       \* the thread's *Container: the copy it loaded and modifies
    child,     \* cmd.Process.Pid of RunParent
    fd         \* the file os.WriteFile of the thread has open

disk  == <<meta, mounts, cgdir, life>>
procs == <<pst, own, kids, incg, net>>
boot  == <<daemon, todo, stopping, adopted, crashes>>
thr   == <<pc, tgt, loc, child, fd>>
vars  == <<disk, procs, boot, thr>>

(***************************************************************************)
(* Records.                                                                *)
(***************************************************************************)
States == {"created", "running", "stopped", "failed"}

\* "none": no file; "empty": truncated, not yet written; "garbled": two
\* writers overlapped.  None of the three unmarshals.
Absent  == [state |-> "none",    pid |-> NoPid]
Empty   == [state |-> "empty",   pid |-> NoPid]
Garbled == [state |-> "garbled", pid |-> NoPid]

Record(s, p) == [state |-> s, pid |-> p]
Readable(r)  == r.state \in States

(***************************************************************************)
(* Processes: "held" is the re-executed daemon blocked on the pipe in      *)
(* RunChild, "user" the container's command, "dying" one that was sent     *)
(* SIGKILL, "exit0" and "exit1" zombies by exit status, "host" a process   *)
(* of the host that has nothing to do with minidocker.                     *)
(***************************************************************************)
PStates == {"free", "held", "user", "dying", "exit0", "exit1", "host"}
Zombie(p)  == pst[p] \in {"exit0", "exit1"}
Live(p)    == pst[p] \in {"held", "user", "dying"}

\* Fault: only the daemon's own children are asked for.
AliveChild(p) == p \in kids

\* syscall.Kill(pid, 0) == nil, a zombie included
Alive(p) == p # NoPid /\ pst[p] # "free"

Members(i) == {p \in incg : own[p] = i}

\* the process table after SIGKILL to the processes in S
Killed(S) == [p \in Pids |-> IF p \in S /\ Live(p) THEN "dying"
                             ELSE IF p \in S /\ pst[p] = "host" THEN "free"
                             ELSE pst[p]]

\* the processes in S are gone from the process table, cgroups and network
Reap(S, table) ==
    /\ pst'  = [p \in Pids |-> IF p \in S THEN "free" ELSE table[p]]
    /\ own'  = [p \in Pids |-> IF p \in S THEN NoId ELSE own[p]]
    /\ kids' = kids \ S
    /\ incg' = incg \ S
    /\ net'  = net \ S

Kill(S) == pst' = Killed(S) /\ UNCHANGED <<own, kids, incg, net>>

-----------------------------------------------------------------------------
(***************************************************************************)
(* Threads.                                                                *)
(***************************************************************************)
SavePcs == {"saveNew", "fix", "saveRun", "ready", "saveFinal", "saveStop", "reconcile"}

\* what follows each call of saveMetadata
AfterSave == [l \in SavePcs |->
    CASE l = "fix"       -> "prepare"
      [] l = "saveRun"   -> "spawn"
      [] l = "ready"     -> "release"
      [] l = "saveFinal" -> "unmount"
      [] OTHER           -> "idle"]

StartPcs   == {"check", "checkAttach", "fix", "prepare"}
SessionPcs == {"saveRun", "spawn", "apply", "network", "ready", "release", "wait",
               "cleanOk", "cleanErr", "finalOk", "finalErr", "saveFinal"}
StopPcs    == {"mark", "killAll", "poll", "cleanStop", "saveStop"}
DeletePcs  == {"deleteCheck", "deleteUnmount", "deleteRemove"}
Pcs == {"idle", "saveNew", "unmount", "reconcile"}
         \cup StartPcs \cup SessionPcs \cup StopPcs \cup DeletePcs

At(t, l)   == pc[t] = l /\ fd[t] = "none"
Goto(t, l) == pc' = [pc EXCEPT ![t] = l]

\* a method returns
Finish(t) == /\ Goto(t, "idle")
             /\ tgt'   = [tgt EXCEPT ![t] = NoId]
             /\ loc'   = [loc EXCEPT ![t] = Absent]
             /\ child' = [child EXCEPT ![t] = NoPid]
             /\ fd'    = [fd EXCEPT ![t] = "none"]

Jump(t, l) == Goto(t, l) /\ UNCHANGED <<tgt, loc, child, fd>>

JumpWith(t, l, r) == /\ Goto(t, l)
                     /\ loc' = [loc EXCEPT ![t] = r]
                     /\ UNCHANGED <<tgt, child, fd>>

Init ==
    /\ meta = [i \in Ids |-> Absent]
    /\ mounts = [i \in Ids |-> 0]
    /\ cgdir = {}
    /\ life = [i \in Ids |-> "fresh"]
    /\ pst = [p \in Pids |-> "free"]
    /\ own = [p \in Pids |-> NoId]
    /\ kids = {} /\ incg = {} /\ net = {}
    /\ daemon = "down"
    /\ todo = {} /\ stopping = {} /\ adopted = {}
    /\ crashes = 0
    /\ pc = [t \in Threads |-> "idle"]
    /\ tgt = [t \in Threads |-> NoId]
    /\ loc = [t \in Threads |-> Absent]
    /\ child = [t \in Threads |-> NoPid]
    /\ fd = [t \in Threads |-> "none"]

-----------------------------------------------------------------------------
(***************************************************************************)
(* saveMetadata: os.WriteFile opens with O_TRUNC (creating the directory   *)
(* and the file when they are missing), then writes.                       *)
(***************************************************************************)
OpenConfig(t) ==
    /\ pc[t] \in SavePcs /\ fd[t] = "none"
    /\ meta' = [meta EXCEPT ![tgt[t]] = Empty]
    /\ fd' = [fd EXCEPT ![t] = "open"]
    /\ adopted' = adopted \ {tgt[t]}
    /\ UNCHANGED <<mounts, cgdir, life, procs, daemon, todo, stopping, crashes,
                   pc, tgt, loc, child>>

\* Two writers start at offset 0 of the same file: the later text stands, or
\* the tail of a longer earlier one stays behind it.
Written(t) == IF meta[tgt[t]] = Empty THEN {loc[t]} ELSE {loc[t], Garbled}

WriteConfig(t) ==
    /\ pc[t] \in SavePcs
    /\ \/ /\ fd[t] = "open"
          /\ \E r \in Written(t) : meta' = [meta EXCEPT ![tgt[t]] = r]
       \/ /\ fd[t] = "orphan"       \* the file was unlinked meanwhile
          /\ UNCHANGED meta
    /\ IF AfterSave[pc[t]] = "idle"
       THEN Finish(t)
       ELSE /\ Goto(t, AfterSave[pc[t]])
            /\ fd' = [fd EXCEPT ![t] = "none"]
            /\ UNCHANGED <<tgt, loc, child>>
    /\ UNCHANGED <<mounts, cgdir, life, procs, boot>>

(***************************************************************************)
(* GetContainer at the head of a method.  Errors (no such container, or    *)
(* one the method refuses at once) change nothing and are not steps.       *)
(***************************************************************************)
Load(t, i, next) ==
    /\ daemon = "up" /\ pc[t] = "idle"
    /\ Readable(meta[i])
    /\ Goto(t, next)
    /\ tgt' = [tgt EXCEPT ![t] = i]
    /\ loc' = [loc EXCEPT ![t] = meta[i]]
    /\ UNCHANGED <<disk, procs, boot, child, fd>>

CreateContainer(t) ==
    /\ daemon = "up" /\ pc[t] = "idle"
    /\ \E i \in Ids :
          /\ life[i] = "fresh"
          /\ life' = [life EXCEPT ![i] = "used"]
          /\ tgt' = [tgt EXCEPT ![t] = i]
    /\ loc' = [loc EXCEPT ![t] = Record("created", NoPid)]
    /\ Goto(t, "saveNew")
    /\ UNCHANGED <<meta, mounts, cgdir, procs, boot, child, fd>>

-----------------------------------------------------------------------------
\* "running" in the file, and what kill(pid, 0) says of the process
AlreadyRunning(r) == r.state = "running" /\ Alive(r.pid)

Outdated(r) == r.state = "running" /\ ~Alive(r.pid)

(***************************************************************************)
(* StartContainer and StartAttached.                                       *)
(***************************************************************************)
StartContainer(t, i) == Load(t, i, "check")
StartAttached(t, i)  == Load(t, i, "checkAttach")


\* StartContainer resets a record whose process is gone and saves it ...
CheckStart(t) ==
    /\ At(t, "check")
    /\ \/ AlreadyRunning(loc[t]) /\ Finish(t)
       \/ /\ Outdated(loc[t])
          /\ JumpWith(t, "fix", Record("stopped", NoPid))
       \/ loc[t].state # "running" /\ Jump(t, "prepare")
    /\ UNCHANGED <<disk, procs, boot>>

\* ... StartAttached goes on with the stale PID.
CheckAttach(t) ==
    /\ At(t, "checkAttach")
    /\ \/ AlreadyRunning(loc[t]) /\ Finish(t)
       \/ ~AlreadyRunning(loc[t]) /\ Jump(t, "prepare")
    /\ UNCHANGED <<disk, procs, boot>>

\* Fault: a failure after the mount leaves it behind.
PrepareLeaks(t) ==
    /\ At(t, "prepare")
    /\ mounts' = [mounts EXCEPT ![tgt[t]] = @ + 1]
    /\ Finish(t) \/ JumpWith(t, "saveRun", Record("running", loc[t].pid))
    /\ UNCHANGED <<meta, cgdir, life, procs, boot>>

\* PullImage and OverlayDriver.Mount: an error of either ends the method.
Prepare(t) ==
    /\ At(t, "prepare")
    /\ \/ Finish(t) /\ UNCHANGED mounts
       \/ /\ mounts' = [mounts EXCEPT ![tgt[t]] = @ + 1]
          /\ JumpWith(t, "saveRun", Record("running", loc[t].pid))
    /\ UNCHANGED <<meta, cgdir, life, procs, boot>>

(***************************************************************************)
(* RunParent.                                                              *)
(***************************************************************************)
Spawn(t) ==
    /\ At(t, "spawn")
    /\ \/ /\ Jump(t, "finalErr")        \* bridge, pipe or cmd.Start failed
          /\ UNCHANGED procs
       \/ \E p \in Pids :
             /\ pst[p] = "free"
             /\ pst' = [pst EXCEPT ![p] = "held"]
             /\ own' = [own EXCEPT ![p] = tgt[t]]
             /\ kids' = kids \cup {p}
             /\ child' = [child EXCEPT ![t] = p]
             /\ Goto(t, "apply")
             /\ UNCHANGED <<incg, net, tgt, loc, fd>>
    /\ UNCHANGED <<disk, boot>>

\* Fault: an error of Apply is ignored.
ApplyIgnored(t) ==
    /\ At(t, "apply")
    /\ cgdir' = cgdir \cup {tgt[t]}
    /\ \/ Live(child[t]) /\ incg' = incg \cup {child[t]}
       \/ UNCHANGED incg
    /\ Jump(t, "network")
    /\ UNCHANGED <<meta, mounts, life, pst, own, kids, net, boot>>

\* CgroupManager.Apply, in one step.  It fails for a process that is gone and
\* may fail before or after the enrolment; RunParent then kills the child,
\* does not wait for it, and removes the directory (pc "cleanErr").
Apply(t) ==
    /\ At(t, "apply")
    /\ \/ /\ Live(child[t])
          /\ cgdir' = cgdir \cup {tgt[t]}
          /\ incg' = incg \cup {child[t]}
          /\ Jump(t, "network")
          /\ UNCHANGED <<pst, own, kids, net>>
       \/ /\ \/ UNCHANGED <<cgdir, incg>>
             \/ cgdir' = cgdir \cup {tgt[t]} /\ UNCHANGED incg
             \/ /\ Live(child[t])
                /\ cgdir' = cgdir \cup {tgt[t]}
                /\ incg' = incg \cup {child[t]}
          /\ pst' = Killed({child[t]})
          /\ Jump(t, "cleanErr")
          /\ UNCHANGED <<own, kids, net>>
    /\ UNCHANGED <<meta, mounts, life, boot>>

\* SetupContainerNetworkDynamic; its failure kills the child and, again, does
\* not wait for it.
Network(t) ==
    /\ At(t, "network")
    /\ \/ /\ Live(child[t])
          /\ net' = net \cup {child[t]}
          /\ JumpWith(t, "ready", Record("running", child[t]))
          /\ UNCHANGED <<pst, own, kids, incg>>
       \/ Kill({child[t]}) /\ Jump(t, "cleanErr")
    /\ UNCHANGED <<disk, boot>>

\* onReady has saved the PID: "ready" goes down the pipe and RunChild execs.
Release(t) ==
    /\ At(t, "release")
    /\ pst' = IF pst[child[t]] = "held" THEN [pst EXCEPT ![child[t]] = "user"] ELSE pst
    /\ Jump(t, "wait")
    /\ UNCHANGED <<disk, own, kids, incg, net, boot>>

Wait(t) ==
    /\ At(t, "wait")
    /\ Zombie(child[t])
    /\ Reap({child[t]}, pst)
    /\ Goto(t, IF pst[child[t]] = "exit0" THEN "cleanOk" ELSE "cleanErr")
    /\ child' = [child EXCEPT ![t] = NoPid]
    /\ UNCHANGED <<disk, boot, tgt, loc, fd>>

\* CgroupManager.Cleanup: rmdir fails, silently, while a member is live.
Removable(i) == \A p \in Members(i) : ~Live(p)
CgroupCleanup(i) == cgdir' = IF Removable(i) THEN cgdir \ {i} ELSE cgdir

Cleanup(t) ==
    /\ At(t, "cleanOk") \/ At(t, "cleanErr")
    /\ CgroupCleanup(tgt[t])
    /\ Jump(t, IF pc[t] = "cleanOk" THEN "finalOk" ELSE "finalErr")
    /\ UNCHANGED <<meta, mounts, life, procs, boot>>

\* Fault: after a stop, the session leaves the last save to StopContainer.
FinalSkipsSave(t) ==
    /\ \/ At(t, "finalOk") /\ tgt[t] \notin stopping
          /\ JumpWith(t, "saveFinal", Record("stopped", NoPid))
       \/ At(t, "finalErr") /\ tgt[t] \notin stopping
          /\ JumpWith(t, "saveFinal", Record("failed", NoPid))
       \/ /\ At(t, "finalOk") \/ At(t, "finalErr")
          /\ tgt[t] \in stopping
          /\ Jump(t, "unmount")
    /\ stopping' = stopping \ {tgt[t]}
    /\ UNCHANGED <<disk, procs, daemon, todo, adopted, crashes>>

\* consumeStopping is only asked when RunParent returned an error
Final(t) ==
    /\ \/ /\ At(t, "finalOk")
          /\ JumpWith(t, "saveFinal", Record("stopped", NoPid))
          /\ UNCHANGED stopping
       \/ /\ At(t, "finalErr")
          /\ JumpWith(t, "saveFinal",
                      Record(IF tgt[t] \in stopping THEN "stopped" ELSE "failed", NoPid))
          /\ stopping' = stopping \ {tgt[t]}
    /\ UNCHANGED <<disk, procs, daemon, todo, adopted, crashes>>

\* Faults: without MNT_DETACH a busy overlay stays; unmounts counted blindly.
UnmountedBusy(i)    == mounts
UnmountedNoFloor(i) == [mounts EXCEPT ![i] = @ - 1]

\* defer driver.Unmount: MNT_DETACH takes the topmost overlay off
Unmounted(i) == [mounts EXCEPT ![i] = IF @ = 0 THEN 0 ELSE @ - 1]

Unmount(t) ==
    /\ At(t, "unmount")
    /\ mounts' = Unmounted(tgt[t])
    /\ Finish(t)
    /\ UNCHANGED <<meta, cgdir, life, procs, boot>>

-----------------------------------------------------------------------------
(***************************************************************************)
(* StopContainer.  SIGTERM is not a step: init of a PID namespace ignores  *)
(* it or exits, and Exit covers both.                                      *)
(***************************************************************************)
StopContainer(t, i) == meta[i].state = "running" /\ Load(t, i, "mark")

MarkStopping(t) ==
    /\ At(t, "mark")
    /\ stopping' = stopping \cup {tgt[t]}
    /\ Jump(t, "killAll")
    /\ UNCHANGED <<disk, procs, daemon, todo, adopted, crashes>>

\* Fault: the members get SIGTERM, which an init process ignores.
KillAllTerm(t) ==
    /\ At(t, "killAll")
    /\ Jump(t, IF loc[t].pid = NoPid THEN "cleanStop" ELSE "poll")
    /\ UNCHANGED <<disk, procs, boot>>

\* Fault: nor does the stop wait for their end.
KillAllNoWait(t) ==
    /\ At(t, "killAll")
    /\ Jump(t, "cleanStop")
    /\ UNCHANGED <<disk, procs, boot>>

KillAll(t) ==
    /\ At(t, "killAll")
    /\ Kill(IF tgt[t] \in cgdir THEN Members(tgt[t]) ELSE {})
    /\ Jump(t, IF loc[t].pid = NoPid THEN "cleanStop" ELSE "poll")
    /\ UNCHANGED <<disk, boot>>

\* four polls of kill(pid, 0); when all succeed, SIGKILL to whoever has the PID
Poll(t) ==
    /\ At(t, "poll")
    /\ IF Alive(loc[t].pid) THEN Kill({loc[t].pid}) ELSE UNCHANGED procs
    /\ Jump(t, "cleanStop")
    /\ UNCHANGED <<disk, boot>>

CleanStop(t) ==
    /\ At(t, "cleanStop")
    /\ CgroupCleanup(tgt[t])
    /\ JumpWith(t, "saveStop", Record("stopped", NoPid))
    /\ UNCHANGED <<meta, mounts, life, procs, boot>>

(***************************************************************************)
(* DeleteContainer.                                                        *)
(***************************************************************************)
DeleteContainer(t, i) == Load(t, i, "deleteCheck")

DeleteCheck(t) ==
    /\ At(t, "deleteCheck")
    /\ IF AlreadyRunning(loc[t]) THEN Finish(t) ELSE Jump(t, "deleteUnmount")
    /\ UNCHANGED <<disk, procs, boot>>

DeleteUnmount(t) ==
    /\ At(t, "deleteUnmount")
    /\ mounts' = Unmounted(tgt[t])
    /\ Jump(t, "deleteRemove")
    /\ UNCHANGED <<meta, cgdir, life, procs, boot>>

\* os.RemoveAll removes what it can; a busy mount point makes it fail
DeleteRemove(t) ==
    /\ At(t, "deleteRemove")
    /\ meta' = [meta EXCEPT ![tgt[t]] = Absent]
    /\ life' = IF mounts[tgt[t]] = 0 THEN [life EXCEPT ![tgt[t]] = "gone"] ELSE life
    /\ adopted' = adopted \ {tgt[t]}
    /\ Goto(t, "idle")
    /\ tgt'   = [tgt EXCEPT ![t] = NoId]
    /\ loc'   = [loc EXCEPT ![t] = Absent]
    /\ fd'    = [u \in Threads |-> IF tgt[u] = tgt[t] /\ fd[u] = "open" THEN "orphan"
                                   ELSE fd[u]]
    /\ UNCHANGED <<mounts, cgdir, procs, daemon, todo, stopping, crashes, child>>

-----------------------------------------------------------------------------
(***************************************************************************)
(* The processes themselves.                                               *)
(***************************************************************************)
ExitStates(s) == CASE s = "user" -> {"exit0", "exit1"}
                   [] s \in {"held", "dying"} -> {"exit1"}
                   [] OTHER -> {}

\* Fault: SIGCHLD is ignored, so that the kernel reaps every child at once.
ExitAutoReaped(p) ==
    /\ Live(p) \/ pst[p] = "host"
    /\ Reap({p}, pst)
    /\ UNCHANGED <<disk, boot, thr>>

\* a child of the daemon stays behind as a zombie; init reaps the others
Exit(p) ==
    /\ \/ /\ p \in kids
          /\ \E s \in ExitStates(pst[p]) : pst' = [pst EXCEPT ![p] = s]
          /\ UNCHANGED <<own, kids, incg, net>>
       \/ /\ p \notin kids
          /\ Live(p) \/ pst[p] = "host"
          /\ Reap({p}, pst)
    /\ UNCHANGED <<disk, boot, thr>>

HostFork(p) ==
    /\ p \in HostPids /\ pst[p] = "free"
    /\ pst' = [pst EXCEPT ![p] = "host"]
    /\ UNCHANGED <<own, kids, incg, net, disk, boot, thr>>

\* RunParent's goroutine for "kill" messages has copied the pid of an attached
\* session and outlives it: cmd.Wait lets the pid go before HandleAttach closes the
\* channel.  Whose pids such goroutines keep is not recorded: the kill may hit any
\* process, the session's own one, another's or one of the host.
ControlKill(p) ==
    /\ daemon = "up"
    /\ Kill({p})
    /\ UNCHANGED <<disk, boot, thr>>

(***************************************************************************)
(* The daemon goes down (shutdown signal, panic or kill): every goroutine  *)
(* is lost, a child that still waits on the pipe reads EOF and exits, the  *)
(* user processes live on and init reaps them.                             *)
(***************************************************************************)
\* Fault: RunChild ignores that the pipe ended without "ready".
OrphanedRuns == [p \in Pids |-> IF pst[p] = "held" THEN "user" ELSE pst[p]]

Orphaned == [p \in Pids |-> IF pst[p] = "held" THEN "dying" ELSE pst[p]]

Crash ==
    /\ daemon # "down" /\ crashes < MaxCrashes
    /\ crashes' = crashes + 1
    /\ daemon' = "down"
    /\ todo' = {} /\ stopping' = {} /\ adopted' = {}
    /\ LET Zs == {p \in Pids : Zombie(p)}
       IN  /\ pst'  = [p \in Pids |-> IF p \in Zs THEN "free" ELSE Orphaned[p]]
           /\ own'  = [p \in Pids |-> IF p \in Zs THEN NoId ELSE own[p]]
           /\ incg' = incg \ Zs
           /\ net'  = net \ Zs
    /\ kids' = {}
    /\ pc' = [t \in Threads |-> "idle"]
    /\ tgt' = [t \in Threads |-> NoId]
    /\ loc' = [t \in Threads |-> Absent]
    /\ child' = [t \in Threads |-> NoPid]
    /\ fd' = [t \in Threads |-> "none"]
    /\ UNCHANGED disk

\* main: NewManager, Reconcile over every directory, then ListenAndServe
Boot ==
    /\ daemon = "down"
    /\ daemon' = "boot"
    /\ todo' = Ids
    /\ UNCHANGED <<disk, procs, stopping, adopted, crashes, thr>>

AllIdle == \A t \in Threads : pc[t] = "idle"

Reconcile(t, i) ==
    /\ daemon = "boot" /\ AllIdle
    /\ i \in todo
    /\ todo' = todo \ {i}
    /\ IF Outdated(meta[i])
       THEN /\ Goto(t, "reconcile")
            /\ tgt' = [tgt EXCEPT ![t] = i]
            /\ loc' = [loc EXCEPT ![t] = Record("stopped", NoPid)]
            /\ UNCHANGED adopted
       ELSE /\ adopted' = IF meta[i].state = "running" THEN adopted \cup {i} ELSE adopted
            /\ UNCHANGED <<pc, tgt, loc>>
    /\ UNCHANGED <<disk, procs, daemon, stopping, crashes, child, fd>>

Serve ==
    /\ daemon = "boot" /\ todo = {} /\ AllIdle
    /\ daemon' = "up"
    /\ UNCHANGED <<disk, procs, todo, stopping, adopted, crashes, thr>>

-----------------------------------------------------------------------------
Begin(t) ==
    \/ CreateContainer(t)
    \/ \E i \in Ids : \/ StartContainer(t, i)
                      \/ StartAttached(t, i)
                      \/ StopContainer(t, i)
                      \/ DeleteContainer(t, i)

Step(t) ==
    \/ OpenConfig(t) \/ WriteConfig(t)
    \/ CheckStart(t) \/ CheckAttach(t) \/ Prepare(t)
    \/ Spawn(t) \/ Apply(t) \/ Network(t) \/ Release(t) \/ Wait(t)
    \/ Cleanup(t) \/ Final(t) \/ Unmount(t)
    \/ MarkStopping(t) \/ KillAll(t) \/ Poll(t) \/ CleanStop(t)
    \/ DeleteCheck(t) \/ DeleteUnmount(t) \/ DeleteRemove(t)

Environment == Crash \/ \E p \in Pids : Exit(p) \/ HostFork(p) \/ ControlKill(p)

Startup == Boot \/ Serve \/ \E t \in Threads, i \in Ids : Reconcile(t, i)

Next == \/ \E t \in Threads : Begin(t) \/ Step(t)
        \/ Environment
        \/ Startup

Spec == Init /\ [][Next]_vars
-----------------------------------------------------------------------------
(***************************************************************************)
(* Properties.                                                             *)
(***************************************************************************)
Records == [state : States \cup {"none", "empty", "garbled"}, pid : Pids \cup {NoPid}]

\* The variables have their types.
TypeOK ==
    /\ meta \in [Ids -> Records]
    /\ mounts \in [Ids -> Nat]
    /\ cgdir \subseteq Ids
    /\ life \in [Ids -> {"fresh", "used", "gone"}]
    /\ pst \in [Pids -> PStates]
    /\ own \in [Pids -> Ids \cup {NoId}]
    /\ kids \subseteq Pids /\ incg \subseteq Pids /\ net \subseteq Pids
    /\ daemon \in {"down", "boot", "up"}
    /\ todo \subseteq Ids /\ stopping \subseteq Ids /\ adopted \subseteq Ids
    /\ crashes \in Nat
    /\ pc \in [Threads -> Pcs]
    /\ tgt \in [Threads -> Ids \cup {NoId}]
    /\ loc \in [Threads -> Records]
    /\ child \in [Threads -> Pids \cup {NoPid}]
    /\ fd \in [Threads -> {"none", "open", "orphan"}]

\* A session of container i that has yet to write the end of it.
Supervises(t, i) ==
    /\ tgt[t] = i
    /\ pc[t] \in SessionPcs \ {"saveRun"}
    /\ pc[t] = "saveFinal" => fd[t] = "none"

\* While the daemon serves, a record that says "running" has a goroutine that
\* will still write how the container ended (manager.go:259-276), or it is one
\* that Reconcile found alive at boot and left alone (manager.go:76-79).
RunningSupervised ==
    daemon = "up" =>
        \A i \in Ids : meta[i].state = "running" =>
            i \in adopted \/ \E t \in Threads : Supervises(t, i)

\* A process that runs the user's command is in the cgroup of its container,
\* the cgroup still exists, and its network is set up, whatever other requests,
\* failures or restarts of the daemon came between (namespaces.go:146-199).
ConfinedBeforeUser ==
    \A p \in Pids : pst[p] = "user" =>
        p \in incg /\ own[p] \in cgdir /\ p \in net

\* A process that a session started is the one it will itself kill or wait for: it
\* is still in the process table, a child of this daemon, of this container, and of
\* no other session (namespaces.go:128, 148, 176, 201).  This is about the session's
\* own calls only: the goroutine of ControlKill keeps the pid longer and may kill
\* another's process.
SessionOwnsChild ==
    \A t \in Threads : child[t] # NoPid =>
        /\ pst[child[t]] \notin {"free", "host"}
        /\ child[t] \in kids
        /\ own[child[t]] = tgt[t]
        /\ \A u \in Threads \ {t} : child[u] # child[t]

MountHolders(i) ==
    {t \in Threads : tgt[t] = i /\ (pc[t] \in SessionPcs \/ pc[t] = "unmount")}

\* While the daemon has not gone down, no container has more overlays stacked
\* than sessions that will unmount one (manager.go:167-171, overlayfs.go:52).
MountsBalanced ==
    crashes = 0 => \A i \in Ids : mounts[i] <= Cardinality(MountHolders(i))
-----------------------------------------------------------------------------
(***************************************************************************)
(* What makes the properties above inductive.                              *)
(***************************************************************************)
ChildPcs == {"apply", "network", "ready", "release", "wait"}
\* after a failed set-up the killed child is kept until the session ends
OwnerPcs == ChildPcs \cup {"cleanErr", "finalErr", "saveFinal", "unmount"}

\* A thread that works knows its container; one past cmd.Start its process.
ThreadsBound ==
    \A t \in Threads : /\ pc[t] # "idle" => tgt[t] \in Ids
                       /\ pc[t] \in ChildPcs => child[t] \in Pids

\* A process id that is not one of ours has no trace of ours; a process that waits
\* on the pipe has a daemon at the other end.
TableClean ==
    \A p \in Pids :
        /\ pst[p] \in {"free", "host"} =>
               p \notin kids \cup incg \cup net /\ own[p] = NoId
        /\ pst[p] = "held" => p \in kids

\* The cgroup of a live member is there.
MembersHaveDir == \A p \in incg : Live(p) => own[p] \in cgdir

\* Only sessions have a process; past Apply it is in the cgroup, past Network on
\* the network.
ChildPrepared ==
    \A t \in Threads :
        /\ child[t] # NoPid => pc[t] \in OwnerPcs
        /\ pc[t] \in ChildPcs \ {"apply"} => child[t] \in incg
        /\ pc[t] \in {"ready", "release"} => child[t] \in net

Confinement == /\ SessionOwnsChild /\ TableClean /\ MembersHaveDir
               /\ ChildPrepared /\ ConfinedBeforeUser

\* Goroutines exist only while main runs, and that of Reconcile only at boot.
PhaseOK ==
    /\ daemon = "down" => AllIdle
    /\ daemon = "boot" => \A t \in Threads : pc[t] \in {"idle", "reconcile"}
    /\ daemon = "up" => \A t \in Threads : pc[t] # "reconcile"

\* Only the two saves of a session write "running"; an idle thread has no file open.
QuietSaves ==
    \A t \in Threads :
        /\ pc[t] \in SavePcs \ {"saveRun", "ready"} => loc[t].state # "running"
        /\ pc[t] = "idle" => fd[t] = "none"

\* At boot, what Reconcile has not corrected it will look at, or has let be.
RunningReconciled ==
    daemon = "boot" =>
        \A i \in Ids : meta[i].state = "running" =>
            \/ i \in adopted \cup todo
            \/ \E t \in Threads : tgt[t] = i /\ At(t, "reconcile")

Supervision == PhaseOK /\ QuietSaves /\ RunningReconciled /\ RunningSupervised

\* However many goroutines there may be, only finitely many work at a time: holders
\* can be counted.
Working   == {t \in Threads : pc[t] # "idle"}
MountsInv == IsFiniteSet(Working) /\ MountsBalanced

\* The inductive invariant.
IndInv == TypeOK /\ ThreadsBound /\ Confinement /\ Supervision /\ MountsInv
=============================================================================
