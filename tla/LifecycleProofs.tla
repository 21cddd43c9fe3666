--------------------------- MODULE LifecycleProofs ---------------------------
(***************************************************************************)
(* Proofs about Lifecycle, its refinement of Sandbox and its serial use,   *)
(* for any numbers of containers, goroutines, process ids and crashes:     *)
(* types, confinement of the processes, supervision of the records,        *)
(* overlays, the refinement, one request at a time for each container.     *)
(***************************************************************************)
EXTENDS LifecycleSandbox, LifecycleSerial, FiniteSetTheorems, TLAPS

(***************************************************************************)
(* What saveMetadata returns to, by the save it is.                        *)
(***************************************************************************)
LEMMA AfterSaveValues ==
    /\ AfterSave["fix"] = "prepare"
    /\ AfterSave["saveRun"] = "spawn"
    /\ AfterSave["ready"] = "release"
    /\ AfterSave["saveFinal"] = "unmount"
    /\ \A l \in {"saveNew", "saveStop", "reconcile"} : AfterSave[l] = "idle"
BY DEF AfterSave, SavePcs

(***************************************************************************)
(* Types.                                                                  *)
(***************************************************************************)
TypeInv == TypeOK /\ ThreadsBound

LEMMA RecordTypes ==
    /\ Absent \in Records /\ Empty \in Records /\ Garbled \in Records
    /\ \A s \in States, p \in Pids \cup {NoPid} : Record(s, p) \in Records
BY DEF Absent, Empty, Garbled, Record, Records, States

LEMMA TypeInit == Init => TypeInv
BY LifecycleAssumption, RecordTypes
   DEF Init, TypeInv, TypeOK, ThreadsBound, PStates, Pcs, ChildPcs

\* Each step of a thread keeps the types.
LEMMA TypeStep ==
    ASSUME TypeInv, NEW t \in Threads, Begin(t) \/ Step(t)
    PROVE  TypeInv'
<1> USE LifecycleAssumption, RecordTypes
        DEF TypeInv, TypeOK, ThreadsBound, ChildPcs, At, Goto, Jump, JumpWith, Finish,
            disk, procs, boot, thr
<1>1. CASE OpenConfig(t)
  BY <1>1 DEF OpenConfig, SavePcs
<1>2. CASE WriteConfig(t)
  <2>1. meta' \in [Ids -> Records]
    BY <1>2 DEF WriteConfig, Written
  <2>2. pc[t] \in SavePcs /\ AfterSave[pc[t]] \in {"idle", "prepare", "spawn", "release", "unmount"}
    BY <1>2, AfterSaveValues DEF WriteConfig, SavePcs
  <2>3. AfterSave[pc[t]] = "release" => pc[t] = "ready"
    BY <2>2, AfterSaveValues DEF SavePcs
  <2>4. pc' \in [Threads -> Pcs] /\ tgt' \in [Threads -> Ids \cup {NoId}]
        /\ loc' \in [Threads -> Records] /\ child' \in [Threads -> Pids \cup {NoPid}]
        /\ fd' \in [Threads -> {"none", "open", "orphan"}]
    BY <1>2, <2>2 DEF WriteConfig, Pcs, StartPcs, SessionPcs
  <2>5. ThreadsBound'
    BY <1>2, <2>2, <2>3, <2>4 DEF WriteConfig, SavePcs
  <2> QED BY <1>2, <2>1, <2>4, <2>5 DEF WriteConfig
<1>3. CASE Begin(t)
  BY <1>3 DEF Begin, CreateContainer, StartContainer, StartAttached, StopContainer,
              DeleteContainer, Load, Pcs, StartPcs, StopPcs, DeletePcs, States
<1>4. CASE CheckStart(t) \/ CheckAttach(t) \/ Prepare(t)
  <2>1. loc[t].pid \in Pids \cup {NoPid}
    BY DEF Records
  <2> QED
    BY <1>4, <2>1 DEF CheckStart, CheckAttach, Prepare, Pcs, StartPcs, SessionPcs, States
<1>5. CASE Spawn(t)
  BY <1>5 DEF Spawn, Pcs, SessionPcs, PStates
<1>6. CASE Apply(t)
  BY <1>6 DEF Apply, Pcs, SessionPcs, PStates, Killed
<1>7. CASE Network(t)
  BY <1>7 DEF Network, Pcs, SessionPcs, PStates, Kill, Killed, States
<1>8. CASE Release(t)
  BY <1>8 DEF Release, Pcs, SessionPcs, PStates
<1>9. CASE Wait(t)
  BY <1>9 DEF Wait, Reap, Pcs, SessionPcs, PStates
<1>10. CASE Cleanup(t) \/ Final(t) \/ Unmount(t)
  BY <1>10 DEF Cleanup, CgroupCleanup, Final, Unmount, Unmounted, Pcs, SessionPcs, States
<1>11. CASE MarkStopping(t) \/ CleanStop(t)
  BY <1>11 DEF MarkStopping, CleanStop, CgroupCleanup, Pcs, StopPcs, States
<1>12. CASE KillAll(t) \/ Poll(t)
  BY <1>12 DEF KillAll, Poll, Kill, Killed, Pcs, StopPcs, PStates
<1>13. CASE DeleteCheck(t) \/ DeleteUnmount(t) \/ DeleteRemove(t)
  BY <1>13 DEF DeleteCheck, DeleteUnmount, DeleteRemove, Unmounted, Pcs, DeletePcs
<1> QED
  BY <1>1, <1>2, <1>3, <1>4, <1>5, <1>6, <1>7, <1>8, <1>9, <1>10, <1>11, <1>12, <1>13
     DEF Step

\* So does every step that no request takes.
LEMMA TypeEnv ==
    ASSUME TypeInv, Environment \/ Startup
    PROVE  TypeInv'
<1> USE LifecycleAssumption, RecordTypes
        DEF TypeInv, TypeOK, ThreadsBound, ChildPcs, disk, procs, boot, thr
<1>1. ASSUME NEW p \in Pids, Exit(p) \/ HostFork(p) \/ ControlKill(p)
      PROVE  TypeInv'
  BY <1>1 DEF Exit, ExitStates, HostFork, ControlKill, Kill, Killed, Live, Reap, PStates
<1>2. CASE Crash
  BY <1>2 DEF Crash, Orphaned, PStates, Pcs
<1>3. CASE Boot \/ Serve
  BY <1>3 DEF Boot, Serve
<1>4. ASSUME NEW t \in Threads, NEW i \in Ids, Reconcile(t, i)
      PROVE  TypeInv'
  BY <1>4 DEF Reconcile, Goto, Pcs, States
<1> QED
  BY <1>1, <1>2, <1>3, <1>4 DEF Environment, Startup

LEMMA TypeNext == TypeInv /\ [Next]_vars => TypeInv'
<1> SUFFICES ASSUME TypeInv, [Next]_vars PROVE TypeInv'
  OBVIOUS
<1>1. CASE Next
  BY <1>1, TypeStep, TypeEnv DEF Next
<1>2. CASE UNCHANGED vars
  BY <1>2 DEF TypeInv, TypeOK, ThreadsBound, vars, disk, procs, boot, thr
<1> QED
  BY <1>1, <1>2

(***************************************************************************)
(* Every variable keeps its type, and a goroutine that works knows its     *)
(* container and, past cmd.Start, its process.                             *)
(***************************************************************************)
THEOREM TypeCorrect == Spec => []TypeOK
<1>1. TypeInv => TypeOK
  BY DEF TypeInv
<1> QED
  BY TypeInit, TypeNext, <1>1, PTL DEF Spec
-----------------------------------------------------------------------------
(***************************************************************************)
(* Confinement: the process of a session stays its own, its cgroup stays   *)
(* while it lives, and it runs the user's command with both set up.        *)
(***************************************************************************)
LEMMA ConfinementInit == Init => Confinement
BY LifecycleAssumption
   DEF Init, Confinement, SessionOwnsChild, TableClean, MembersHaveDir, ChildPrepared,
       ConfinedBeforeUser, ChildPcs, OwnerPcs

\* SIGKILL makes processes neither free, nor live, nor user.
LEMMA KilledFacts ==
    ASSUME TypeOK, NEW S \in SUBSET Pids, NEW p \in Pids
    PROVE  /\ Killed(S) \in [Pids -> PStates]
           /\ Killed(S)[p] \in {"held", "user"} => Killed(S)[p] = pst[p]
           /\ Killed(S)[p] = "dying" => Live(p)
           /\ Killed(S)[p] = "host" => pst[p] = "host"
           /\ Killed(S)[p] = "free" => pst[p] \in {"free", "host"}
BY DEF TypeOK, Killed, Live, PStates

\* A step in which no thread comes to have a process, or to the part of RunParent
\* where it has been enrolled and connected.
ChildrenKept ==
    \A u \in Threads :
        /\ child'[u] = child[u] \/ child'[u] = NoPid
        /\ child'[u] # NoPid => tgt'[u] = tgt[u] /\ pc'[u] \in OwnerPcs
        /\ pc'[u] \in ChildPcs \ {"apply"} =>
               pc[u] \in ChildPcs \ {"apply"} /\ child'[u] = child[u]
        /\ pc'[u] \in {"ready", "release"} => pc[u] \in {"ready", "release"}

LEMMA ConfinementFrame ==
    ASSUME TypeInv, Confinement, ChildrenKept, UNCHANGED <<procs, cgdir>>
    PROVE  Confinement'
<1> USE DEF ChildrenKept, procs
<1>1. SessionOwnsChild'
  BY DEF Confinement, SessionOwnsChild
<1>2. TableClean' /\ MembersHaveDir' /\ ConfinedBeforeUser'
  BY DEF Confinement, TableClean, MembersHaveDir, ConfinedBeforeUser, Live
<1>3. ChildPrepared'
  BY DEF Confinement, ChildPrepared, ChildPcs, OwnerPcs
<1> QED
  BY <1>1, <1>2, <1>3 DEF Confinement

\* The steps that only move their thread.
LEMMA QuietStepsKeepChildren ==
    ASSUME TypeInv, Confinement, NEW t \in Threads,
           \/ Begin(t) \/ OpenConfig(t) \/ WriteConfig(t)
           \/ CheckStart(t) \/ CheckAttach(t) \/ Prepare(t) \/ Cleanup(t) \/ Final(t)
           \/ Unmount(t) \/ MarkStopping(t) \/ KillAll(t) \/ Poll(t) \/ CleanStop(t)
           \/ DeleteCheck(t) \/ DeleteUnmount(t) \/ DeleteRemove(t)
    PROVE  ChildrenKept
<1>0. /\ \A u \in Threads : child[u] # NoPid => pc[u] \in OwnerPcs
      /\ pc \in [Threads -> Pcs] /\ tgt \in [Threads -> Ids \cup {NoId}]
      /\ child \in [Threads -> Pids \cup {NoPid}]
  BY DEF Confinement, ChildPrepared, TypeInv, TypeOK
<1> USE <1>0 DEF ChildrenKept, ChildPcs, OwnerPcs, At, Finish, Jump, JumpWith, Goto, thr
<1>1. CASE Begin(t)
  BY <1>1 DEF Begin, CreateContainer, StartContainer, StartAttached, StopContainer,
              DeleteContainer, Load
<1>2. CASE OpenConfig(t)
  BY <1>2 DEF OpenConfig
<1>3. CASE WriteConfig(t)
  <2>1. pc[t] \in SavePcs /\ AfterSave[pc[t]] \in {"idle", "prepare", "spawn", "release", "unmount"}
        /\ (AfterSave[pc[t]] = "release" => pc[t] = "ready")
        /\ (pc[t] \in OwnerPcs => pc[t] \in {"ready", "saveFinal"})
    BY <1>3, AfterSaveValues DEF WriteConfig, SavePcs
  <2>2. pc[t] = "saveFinal" => AfterSave[pc[t]] = "unmount"
    BY AfterSaveValues
  <2>3. pc[t] = "ready" => AfterSave[pc[t]] = "release"
    BY AfterSaveValues
  <2> QED
    BY <1>3, <2>1, <2>2, <2>3 DEF WriteConfig
<1>4. CASE CheckStart(t) \/ CheckAttach(t) \/ Prepare(t)
  BY <1>4 DEF CheckStart, CheckAttach, Prepare
<1>5. CASE Cleanup(t) \/ Final(t) \/ Unmount(t)
  BY <1>5 DEF Cleanup, Final, Unmount
<1>6. CASE MarkStopping(t) \/ KillAll(t) \/ Poll(t) \/ CleanStop(t)
  BY <1>6 DEF MarkStopping, KillAll, Poll, CleanStop
<1>7. CASE DeleteCheck(t) \/ DeleteUnmount(t) \/ DeleteRemove(t)
  BY <1>7 DEF DeleteCheck, DeleteUnmount, DeleteRemove
<1> QED
  BY <1>1, <1>2, <1>3, <1>4, <1>5, <1>6, <1>7
\* SIGKILL to any processes.
LEMMA ConfinementKill ==
    ASSUME TypeInv, Confinement, ChildrenKept, NEW S \in SUBSET Pids, Kill(S), cgdir' = cgdir
    PROVE  Confinement'
<1> USE DEF TypeInv
<1>1. \A p \in Pids :
         /\ pst'[p] \in {"held", "user"} => pst'[p] = pst[p]
         /\ pst'[p] = "dying" => Live(p)
         /\ pst'[p] = "host" => pst[p] = "host"
         /\ pst'[p] = "free" => pst[p] \in {"free", "host"}
  BY KilledFacts DEF Kill
<1>2. own' = own /\ kids' = kids /\ incg' = incg /\ net' = net
  BY DEF Kill
<1>3. SessionOwnsChild'
  BY <1>1, <1>2 DEF Confinement, SessionOwnsChild, ChildrenKept, TypeOK
<1>4. TableClean' /\ MembersHaveDir' /\ ConfinedBeforeUser'
  BY <1>1, <1>2 DEF Confinement, TableClean, MembersHaveDir, ConfinedBeforeUser, Live, TypeOK
<1>5. ChildPrepared'
  BY <1>2 DEF Confinement, ChildPrepared, ChildrenKept, ChildPcs, OwnerPcs
<1> QED
  BY <1>3, <1>4, <1>5 DEF Confinement

\* rmdir of a cgroup that has no live member.
LEMMA ConfinementCleanup ==
    ASSUME TypeInv, Confinement, ChildrenKept, NEW i, CgroupCleanup(i), UNCHANGED procs
    PROVE  Confinement'
<1>1. \A p \in incg : Live(p) => own[p] \in cgdir'
  BY DEF Confinement, MembersHaveDir, CgroupCleanup, Removable, Members
<1>2. SessionOwnsChild'
  BY DEF Confinement, SessionOwnsChild, ChildrenKept, procs
<1>3. TableClean' /\ MembersHaveDir' /\ ConfinedBeforeUser'
  BY <1>1 DEF Confinement, TableClean, MembersHaveDir, ConfinedBeforeUser, Live, procs
<1>4. ChildPrepared'
  BY DEF Confinement, ChildPrepared, ChildrenKept, ChildPcs, OwnerPcs, procs
<1> QED
  BY <1>2, <1>3, <1>4 DEF Confinement

LEMMA ConfinementSpawn ==
    ASSUME TypeInv, Confinement, NEW t \in Threads, Spawn(t)
    PROVE  Confinement'
<1> USE LifecycleAssumption DEF TypeInv, TypeOK, ThreadsBound, At, Goto, Jump
<1>0. child[t] = NoPid /\ pc[t] = "spawn"
  BY DEF Spawn, Confinement, ChildPrepared, OwnerPcs, ChildPcs
<1>1. CASE UNCHANGED procs /\ Jump(t, "finalErr")
  BY <1>0, <1>1, ConfinementFrame
     DEF Spawn, ChildrenKept, Confinement, ChildPrepared, OwnerPcs, ChildPcs, disk
<1>2. ASSUME NEW p \in Pids, pst[p] = "free",
             pst' = [pst EXCEPT ![p] = "held"], own' = [own EXCEPT ![p] = tgt[t]],
             kids' = kids \cup {p}, child' = [child EXCEPT ![t] = p], Goto(t, "apply"),
             UNCHANGED <<incg, net, tgt, loc, fd>>, UNCHANGED disk
      PROVE  Confinement'
  <2>1. p \notin kids /\ p \notin incg /\ \A u \in Threads : child[u] # p
    BY <1>2 DEF Confinement, TableClean, SessionOwnsChild
  <2>2. SessionOwnsChild'
    BY <1>2, <2>1 DEF Confinement, SessionOwnsChild
  <2>3. TableClean' /\ MembersHaveDir' /\ ConfinedBeforeUser'
    BY <1>2, <2>1 DEF Confinement, TableClean, MembersHaveDir, ConfinedBeforeUser, Live, disk
  <2>4. ChildPrepared'
    BY <1>2 DEF Confinement, ChildPrepared, ChildPcs, OwnerPcs
  <2> QED
    BY <2>2, <2>3, <2>4 DEF Confinement
<1> QED
  BY <1>1, <1>2 DEF Spawn

LEMMA ConfinementApply ==
    ASSUME TypeInv, Confinement, NEW t \in Threads, Apply(t)
    PROVE  Confinement'
<1> USE LifecycleAssumption DEF TypeInv, TypeOK, ThreadsBound, At, Goto, Jump
<1>0. pc[t] = "apply" /\ child[t] \in Pids /\ own[child[t]] = tgt[t] /\ tgt[t] \in Ids
      /\ pst[child[t]] \notin {"free", "host"}
  BY DEF Apply, ChildPcs, Confinement, SessionOwnsChild
<1>1. /\ \/ pst' = pst /\ Jump(t, "network") /\ incg' = incg \cup {child[t]}
         \/ pst' = Killed({child[t]}) /\ Jump(t, "cleanErr")
      /\ own' = own /\ kids' = kids /\ net' = net
      /\ \/ incg' = incg /\ cgdir \subseteq cgdir'
         \/ incg' = incg \cup {child[t]} /\ cgdir' = cgdir \cup {tgt[t]}
  BY DEF Apply
<1>2. \A p \in Pids :
         /\ pst'[p] \in {"held", "user"} => pst'[p] = pst[p]
         /\ pst'[p] = "dying" => Live(p)
         /\ pst'[p] = "host" => pst[p] = "host"
         /\ pst'[p] = "free" => pst[p] \in {"free", "host"}
  BY <1>1, <1>0, KilledFacts DEF Live
<1>3. SessionOwnsChild'
  BY <1>0, <1>1, <1>2 DEF Confinement, SessionOwnsChild
<1>4. TableClean'
  BY <1>0, <1>1, <1>2 DEF Confinement, TableClean
<1>5. MembersHaveDir' /\ ConfinedBeforeUser'
  BY <1>0, <1>1, <1>2 DEF Confinement, MembersHaveDir, ConfinedBeforeUser, Live
<1>6. ChildPrepared'
  BY <1>0, <1>1 DEF Confinement, ChildPrepared, ChildPcs, OwnerPcs
<1> QED
  BY <1>3, <1>4, <1>5, <1>6 DEF Confinement

LEMMA ConfinementNetwork ==
    ASSUME TypeInv, Confinement, NEW t \in Threads, Network(t)
    PROVE  Confinement'
<1> USE LifecycleAssumption DEF TypeInv, TypeOK, ThreadsBound, At, Goto, Jump, JumpWith
<1>0. pc[t] = "network" /\ child[t] \in Pids /\ cgdir' = cgdir
  BY DEF Network, ChildPcs, disk
<1>1. CASE Kill({child[t]}) /\ Jump(t, "cleanErr")
  <2>1. ChildrenKept
    BY <1>0, <1>1 DEF ChildrenKept, Confinement, ChildPrepared, ChildPcs, OwnerPcs
  <2> QED
    BY <1>0, <1>1, <2>1, ConfinementKill
<1>2. CASE /\ net' = net \cup {child[t]} /\ UNCHANGED <<pst, own, kids, incg>>
           /\ JumpWith(t, "ready", Record("running", child[t]))
  <2>1. SessionOwnsChild' /\ TableClean' /\ MembersHaveDir'
    BY <1>0, <1>2 DEF Confinement, SessionOwnsChild, TableClean, MembersHaveDir, Live
  <2>2. ConfinedBeforeUser'
    BY <1>0, <1>2 DEF Confinement, ConfinedBeforeUser
  <2>3. ChildPrepared'
    BY <1>0, <1>2 DEF Confinement, ChildPrepared, ChildPcs, OwnerPcs
  <2> QED
    BY <2>1, <2>2, <2>3 DEF Confinement
<1> QED
  BY <1>1, <1>2 DEF Network

\* The step that lets the user's command run.
LEMMA ConfinementRelease ==
    ASSUME TypeInv, Confinement, NEW t \in Threads, Release(t)
    PROVE  Confinement'
<1> USE LifecycleAssumption DEF TypeInv, TypeOK, ThreadsBound, At, Goto, Jump
<1>0. /\ pc[t] = "release" /\ child[t] \in Pids /\ child[t] \in incg /\ child[t] \in net
      /\ UNCHANGED <<own, kids, incg, net>> /\ cgdir' = cgdir
      /\ pc' = [pc EXCEPT ![t] = "wait"] /\ UNCHANGED <<tgt, child>>
  BY DEF Release, ChildPcs, Confinement, ChildPrepared, disk
<1>1. pst' = IF pst[child[t]] = "held" THEN [pst EXCEPT ![child[t]] = "user"] ELSE pst
  BY DEF Release
<1>2. SessionOwnsChild' /\ TableClean'
  BY <1>0, <1>1 DEF Confinement, SessionOwnsChild, TableClean
<1>3. MembersHaveDir' /\ ConfinedBeforeUser'
  BY <1>0, <1>1 DEF Confinement, MembersHaveDir, ConfinedBeforeUser, Live
<1>4. ChildPrepared'
  BY <1>0 DEF Confinement, ChildPrepared, ChildPcs, OwnerPcs
<1> QED
  BY <1>2, <1>3, <1>4 DEF Confinement

LEMMA ConfinementWait ==
    ASSUME TypeInv, Confinement, NEW t \in Threads, Wait(t)
    PROVE  Confinement'
<1> USE LifecycleAssumption DEF TypeInv, TypeOK, ThreadsBound, At, Goto, Reap
<1>0. pc[t] = "wait" /\ child[t] \in Pids /\ Reap({child[t]}, pst) /\ cgdir' = cgdir
      /\ child' = [child EXCEPT ![t] = NoPid] /\ tgt' = tgt
      /\ \E l \in {"cleanOk", "cleanErr"} : pc' = [pc EXCEPT ![t] = l]
  BY DEF Wait, ChildPcs, disk
<1>1. \A u \in Threads \ {t} : child[u] # child[t]
  BY <1>0 DEF Confinement, SessionOwnsChild
<1>2. SessionOwnsChild'
  BY <1>0, <1>1 DEF Confinement, SessionOwnsChild
<1>3. TableClean' /\ MembersHaveDir' /\ ConfinedBeforeUser'
  BY <1>0 DEF Confinement, TableClean, MembersHaveDir, ConfinedBeforeUser, Live
<1>4. ChildPrepared'
  BY <1>0, <1>1 DEF Confinement, ChildPrepared, ChildPcs, OwnerPcs
<1> QED
  BY <1>2, <1>3, <1>4 DEF Confinement

LEMMA ConfinementStep ==
    ASSUME TypeInv, Confinement, NEW t \in Threads, Begin(t) \/ Step(t)
    PROVE  Confinement'
<1>1. CASE \/ Begin(t) \/ OpenConfig(t) \/ WriteConfig(t)
           \/ CheckStart(t) \/ CheckAttach(t) \/ Prepare(t) \/ Final(t) \/ Unmount(t)
           \/ MarkStopping(t) \/ DeleteCheck(t) \/ DeleteUnmount(t) \/ DeleteRemove(t)
  <2>1. UNCHANGED <<procs, cgdir>>
    BY <1>1 DEF Begin, CreateContainer, StartContainer, StartAttached, StopContainer,
                DeleteContainer, Load, OpenConfig, WriteConfig, CheckStart, CheckAttach,
                Prepare, Final, Unmount, MarkStopping, DeleteCheck, DeleteUnmount,
                DeleteRemove, disk
  <2> QED
    BY <1>1, <2>1, QuietStepsKeepChildren, ConfinementFrame
<1>2. CASE Cleanup(t) \/ CleanStop(t)
  BY <1>2, QuietStepsKeepChildren, ConfinementCleanup DEF Cleanup, CleanStop
<1>3. CASE KillAll(t) \/ Poll(t)
  <2>1. cgdir' = cgdir /\ ChildrenKept
    BY <1>3, QuietStepsKeepChildren DEF KillAll, Poll, disk
  <2>2. CASE UNCHANGED procs
    BY <2>1, <2>2, ConfinementFrame
  <2>3. ASSUME NEW S \in SUBSET Pids, Kill(S)
        PROVE  Confinement'
    BY <2>1, <2>3, ConfinementKill
  <2>4. Members(tgt[t]) \in SUBSET Pids /\ (Alive(loc[t].pid) => loc[t].pid \in Pids)
    BY DEF Members, Alive, TypeInv, TypeOK, Records
  <2> QED
    BY <1>3, <2>2, <2>3, <2>4 DEF KillAll, Poll
<1> QED
  BY <1>1, <1>2, <1>3, ConfinementSpawn, ConfinementApply, ConfinementNetwork,
     ConfinementRelease, ConfinementWait DEF Step

LEMMA ConfinementEnv ==
    ASSUME TypeInv, Confinement, Environment \/ Startup
    PROVE  Confinement'
<1> USE LifecycleAssumption DEF TypeInv, TypeOK
<1>1. ASSUME NEW p \in Pids, Exit(p)
      PROVE  Confinement'
  <2>1. UNCHANGED <<cgdir, pc, tgt, child>>
    BY <1>1 DEF Exit, disk, thr
  <2>2. CASE p \in kids
    <3>1. PICK s \in {"exit0", "exit1"} : pst' = [pst EXCEPT ![p] = s]
      BY <1>1, <2>2 DEF Exit, ExitStates
    <3>2. Live(p) /\ UNCHANGED <<own, kids, incg, net>>
      BY <1>1, <2>2 DEF Exit, ExitStates, Live
    <3> QED
      BY <2>1, <3>1, <3>2 DEF Confinement, SessionOwnsChild, TableClean, MembersHaveDir,
         ConfinedBeforeUser, ChildPrepared, ChildPcs, OwnerPcs, Live
  <2>3. CASE p \notin kids
    <3>1. Reap({p}, pst)
      BY <1>1, <2>3 DEF Exit
    <3>2. \A t \in Threads : child[t] # p
      BY <2>3 DEF Confinement, SessionOwnsChild
    <3>3. SessionOwnsChild' /\ ChildPrepared'
      BY <2>1, <3>1, <3>2 DEF Reap, Confinement, SessionOwnsChild, ChildPrepared, ChildPcs, OwnerPcs
    <3>4. TableClean' /\ MembersHaveDir' /\ ConfinedBeforeUser'
      BY <2>1, <3>1 DEF Reap, Confinement, TableClean, MembersHaveDir, ConfinedBeforeUser, Live
    <3> QED
      BY <3>3, <3>4 DEF Confinement
  <2> QED
    BY <2>2, <2>3
<1>2. ASSUME NEW p \in Pids, HostFork(p)
      PROVE  Confinement'
  BY <1>2 DEF HostFork, disk, thr, Confinement, SessionOwnsChild, TableClean, MembersHaveDir,
     ConfinedBeforeUser, ChildPrepared, ChildPcs, OwnerPcs, Live
<1>6. ASSUME NEW p \in Pids, ControlKill(p)
      PROVE  Confinement'
  <2>1. ChildrenKept
    BY <1>6 DEF ControlKill, thr, ChildrenKept, Confinement, ChildPrepared
  <2> QED
    BY <1>6, <2>1, ConfinementKill DEF ControlKill, disk
<1>3. CASE Crash
  <2>1. SessionOwnsChild' /\ ChildPrepared'
    BY <1>3 DEF Crash, SessionOwnsChild, ChildPrepared, ChildPcs
  <2>2. TableClean'
    BY <1>3 DEF Crash, Orphaned, Zombie, Confinement, TableClean
  <2>3. MembersHaveDir' /\ ConfinedBeforeUser'
    BY <1>3 DEF Crash, Orphaned, Zombie, Confinement, MembersHaveDir, ConfinedBeforeUser, Live, disk
  <2> QED
    BY <2>1, <2>2, <2>3 DEF Confinement
<1>4. CASE Boot \/ Serve
  BY <1>4, ConfinementFrame DEF Boot, Serve, disk, thr, ChildrenKept, Confinement, ChildPrepared
<1>5. ASSUME NEW t \in Threads, NEW i \in Ids, Reconcile(t, i)
      PROVE  Confinement'
  <2>1. ChildrenKept
    BY <1>5 DEF Reconcile, AllIdle, Goto, ChildrenKept, Confinement, ChildPrepared, ChildPcs, OwnerPcs
  <2> QED
    BY <1>5, <2>1, ConfinementFrame DEF Reconcile, disk
<1> QED
  BY <1>1, <1>2, <1>3, <1>4, <1>5, <1>6 DEF Environment, Startup

LEMMA ConfinementNext == TypeInv /\ Confinement /\ [Next]_vars => Confinement'
<1> SUFFICES ASSUME TypeInv, Confinement, [Next]_vars PROVE Confinement'
  OBVIOUS
<1>1. CASE Next
  BY <1>1, ConfinementStep, ConfinementEnv DEF Next
<1>2. CASE UNCHANGED vars
  BY <1>2, ConfinementFrame
     DEF vars, disk, thr, ChildrenKept, Confinement, ChildPrepared
<1> QED
  BY <1>1, <1>2

(***************************************************************************)
(* Whatever requests, failures and restarts interleave, no user command    *)
(* runs outside its cgroup or before its network is there.                 *)
(***************************************************************************)
THEOREM Confined == Spec => []ConfinedBeforeUser
<1>1. Init => TypeInv /\ Confinement
  BY TypeInit, ConfinementInit
<1>2. (TypeInv /\ Confinement) /\ [Next]_vars => (TypeInv /\ Confinement)'
  BY TypeNext, ConfinementNext
<1>3. Confinement => ConfinedBeforeUser
  BY DEF Confinement
<1> QED
  BY <1>1, <1>2, <1>3, PTL DEF Spec

(***************************************************************************)
(* And no session, by its own kill and wait, reaches a process that is not *)
(* its own.  ControlKill, the kill of the goroutine that may outlive the   *)
(* session's wait, is not meant.                                           *)
(***************************************************************************)
THEOREM ChildrenOwned == Spec => []SessionOwnsChild
<1>1. Init => TypeInv /\ Confinement
  BY TypeInit, ConfinementInit
<1>2. (TypeInv /\ Confinement) /\ [Next]_vars => (TypeInv /\ Confinement)'
  BY TypeNext, ConfinementNext
<1>3. Confinement => SessionOwnsChild
  BY DEF Confinement
<1> QED
  BY <1>1, <1>2, <1>3, PTL DEF Spec
-----------------------------------------------------------------------------
(***************************************************************************)
(* Supervision: a record that says "running" has a session that will       *)
(* rewrite it, or was adopted at boot.                                     *)
(***************************************************************************)
LEMMA SupervisionInit == Init => Supervision
BY DEF Init, Supervision, PhaseOK, AllIdle, QuietSaves, SavePcs, RunningReconciled,
       RunningSupervised

\* Thread t takes a step while the daemon serves: what it must respect.
KeepsSupervision(t) ==
    /\ daemon = "up" /\ daemon' = "up"
    /\ \A u \in Threads \ {t} :
          /\ pc'[u] = pc[u] /\ tgt'[u] = tgt[u] /\ loc'[u] = loc[u]
          /\ fd[u] = "none" => fd'[u] = "none"
    /\ pc'[t] # "reconcile"
    /\ pc'[t] \in SavePcs \ {"saveRun", "ready"} => loc'[t].state # "running"
    /\ pc'[t] = "idle" => fd'[t] = "none"
    /\ \A i \in Ids : meta'[i].state = "running" =>
          \/ Supervises(t, i)'
          \/ /\ meta[i].state = "running"
             /\ i \in adopted => i \in adopted'
             /\ Supervises(t, i) => Supervises(t, i)'

LEMMA SupervisionFrame ==
    ASSUME Supervision, NEW t \in Threads, KeepsSupervision(t)
    PROVE  Supervision'
<1> USE DEF KeepsSupervision
<1>1. PhaseOK' /\ QuietSaves' /\ RunningReconciled'
  BY DEF Supervision, PhaseOK, QuietSaves, RunningReconciled
<1>2. \A u \in Threads \ {t}, i \in Ids : Supervises(u, i) => Supervises(u, i)'
  BY DEF Supervises
<1>3. RunningSupervised'
  BY <1>2 DEF Supervision, RunningSupervised
<1> QED
  BY <1>1, <1>3 DEF Supervision

\* A request works only while the daemon serves.
LEMMA WorksOnlyWhenUp ==
    ASSUME TypeInv, Supervision, NEW t \in Threads, pc[t] \notin {"idle", "reconcile"}
    PROVE  daemon = "up"
BY DEF TypeInv, TypeOK, Supervision, PhaseOK, AllIdle

\* Every step of a request but the two halves of saveMetadata.
LEMMA PlainStepsKeepSupervision ==
    ASSUME TypeInv, Supervision, NEW t \in Threads,
           \/ Begin(t) \/ CheckStart(t) \/ CheckAttach(t) \/ Prepare(t)
           \/ Spawn(t) \/ Apply(t) \/ Network(t) \/ Release(t) \/ Wait(t)
           \/ Cleanup(t) \/ Final(t) \/ Unmount(t)
           \/ MarkStopping(t) \/ KillAll(t) \/ Poll(t) \/ CleanStop(t)
           \/ DeleteCheck(t) \/ DeleteUnmount(t) \/ DeleteRemove(t)
    PROVE  KeepsSupervision(t)
<1> USE WorksOnlyWhenUp
    DEF TypeInv, TypeOK, KeepsSupervision, Supervises, SessionPcs, SavePcs,
        At, Goto, Jump, JumpWith, Finish, disk, boot, thr, Record, Absent
<1>1. CASE Begin(t)
  BY <1>1 DEF Begin, CreateContainer, StartContainer, StartAttached, StopContainer,
              DeleteContainer, Load
<1>2. CASE CheckStart(t) \/ CheckAttach(t) \/ Prepare(t)
  BY <1>2 DEF CheckStart, CheckAttach, Prepare
<1>3. CASE Spawn(t) \/ Apply(t)
  BY <1>3 DEF Spawn, Apply
<1>4. CASE Network(t) \/ Release(t) \/ Wait(t)
  BY <1>4 DEF Network, Release, Wait
<1>5. CASE Cleanup(t) \/ Final(t) \/ Unmount(t)
  BY <1>5 DEF Cleanup, Final, Unmount
<1>6. CASE MarkStopping(t) \/ KillAll(t) \/ Poll(t) \/ CleanStop(t)
  BY <1>6 DEF MarkStopping, KillAll, Poll, CleanStop
<1>7. CASE DeleteCheck(t) \/ DeleteUnmount(t)
  BY <1>7 DEF DeleteCheck, DeleteUnmount
<1>8. CASE DeleteRemove(t)
  BY <1>8 DEF DeleteRemove
<1> QED
  BY <1>1, <1>2, <1>3, <1>4, <1>5, <1>6, <1>7, <1>8

\* The truncation forgets "running"; the session that will write it again, or
\* that has just begun its last save, is not counted on for this container.
LEMMA SupervisionOpen ==
    ASSUME TypeInv, Supervision, NEW t \in Threads, OpenConfig(t)
    PROVE  Supervision'
<1> USE DEF TypeInv, TypeOK, OpenConfig, Empty
<1>1. CASE pc[t] = "reconcile"
  <2>1. \A u \in Threads : pc[u] \in {"idle", "reconcile"}
    BY <1>1 DEF Supervision, PhaseOK, AllIdle
  <2>2. daemon = "boot"
    BY <1>1 DEF Supervision, PhaseOK, AllIdle
  <2>3. PhaseOK' /\ QuietSaves' /\ RunningSupervised'
    BY <2>2 DEF Supervision, PhaseOK, QuietSaves, RunningSupervised, SavePcs
  <2>4. RunningReconciled'
    BY <2>2 DEF Supervision, RunningReconciled, At
  <2> QED
    BY <2>3, <2>4 DEF Supervision
<1>2. CASE pc[t] # "reconcile"
  <2>1. daemon = "up"
    BY <1>2, WorksOnlyWhenUp DEF SavePcs
  <2>2. QuietSaves
    BY DEF Supervision
  <2>3. KeepsSupervision(t)
    BY <1>2, <2>1, <2>2 DEF KeepsSupervision, Supervises, QuietSaves, SavePcs
  <2> QED
    BY <2>3, SupervisionFrame
<1> QED
  BY <1>1, <1>2

LEMMA SupervisionWrite ==
    ASSUME TypeInv, Supervision, NEW t \in Threads, WriteConfig(t)
    PROVE  Supervision'
<1> USE DEF TypeInv, TypeOK
<1>0. /\ pc[t] \in SavePcs /\ tgt[t] \in Ids /\ UNCHANGED boot
      /\ fd[t] # "none"
      /\ \A i \in Ids \ {tgt[t]} : meta'[i] = meta[i]
      /\ meta'[tgt[t]].state = "running" =>
            meta[tgt[t]].state = "running" \/ loc[t].state = "running"
  BY DEF WriteConfig, Written, Garbled, ThreadsBound, SavePcs
<1>1. CASE pc[t] = "reconcile"
  <2>1. daemon = "boot"
    BY <1>1 DEF Supervision, PhaseOK, AllIdle
  <2>2. loc[t].state # "running"
    BY <1>1 DEF Supervision, QuietSaves, SavePcs
  <2>3. Finish(t)
    BY <1>1, AfterSaveValues DEF WriteConfig
  <2>4. PhaseOK' /\ QuietSaves' /\ RunningSupervised'
    BY <1>0, <2>1, <2>3
       DEF Supervision, PhaseOK, QuietSaves, RunningSupervised, Finish, Goto, Absent, boot, SavePcs
  <2>5. RunningReconciled'
    BY <1>0, <2>1, <2>2, <2>3 DEF Supervision, RunningReconciled, At, Finish, Goto, boot
  <2> QED
    BY <2>4, <2>5 DEF Supervision
<1>2. CASE pc[t] # "reconcile"
  <2>1. daemon = "up"
    BY <1>0, <1>2, WorksOnlyWhenUp DEF SavePcs
  <2>2. loc[t].state = "running" => pc[t] \in {"saveRun", "ready"}
    BY <1>0 DEF Supervision, QuietSaves
  <2>3. CASE pc[t] \in {"saveRun", "ready"}
    <3>1. pc' \in [Threads -> Pcs] /\ pc'[t] \in {"spawn", "release"} /\ tgt' = tgt /\ loc' = loc
          /\ \A u \in Threads \ {t} : pc'[u] = pc[u] /\ fd'[u] = fd[u]
      BY <2>3, AfterSaveValues, TypeStep DEF WriteConfig, Goto, Step
    <3>2. Supervises(t, tgt[t])'
      BY <3>1 DEF Supervises, SessionPcs
    <3> QED
      BY <1>0, <2>1, <3>1, <3>2, SupervisionFrame
         DEF KeepsSupervision, Supervises, SavePcs, boot
  <2>4. CASE pc[t] \notin {"saveRun", "ready"}
    <3>1. AfterSave[pc[t]] \in {"idle", "prepare", "unmount"}
      BY <1>0, <2>4, AfterSaveValues DEF SavePcs
    <3>2. pc'[t] \in {"idle", "prepare", "unmount"} /\ fd'[t] = "none"
          /\ \A u \in Threads \ {t} : pc'[u] = pc[u] /\ fd'[u] = fd[u]
                                      /\ tgt'[u] = tgt[u] /\ loc'[u] = loc[u]
      BY <3>1 DEF WriteConfig, Finish, Goto
    <3>3. \A i \in Ids : ~Supervises(t, i)
      BY <1>0, <2>4 DEF Supervises, SavePcs, SessionPcs
    <3> QED
      BY <1>0, <2>1, <2>2, <2>4, <3>2, <3>3, SupervisionFrame DEF KeepsSupervision, SavePcs, boot
  <2> QED
    BY <2>3, <2>4
<1> QED
  BY <1>1, <1>2

LEMMA SupervisionEnv ==
    ASSUME TypeInv, Supervision, Environment \/ Startup
    PROVE  Supervision'
<1> USE DEF TypeInv, TypeOK
<1>1. ASSUME NEW p \in Pids, Exit(p) \/ HostFork(p) \/ ControlKill(p)
      PROVE  Supervision'
  BY <1>1 DEF Exit, HostFork, ControlKill, disk, boot, thr, Supervision, PhaseOK, AllIdle, QuietSaves,
     RunningReconciled, RunningSupervised, Supervises, At
<1>2. CASE Crash
  BY <1>2 DEF Crash, Supervision, PhaseOK, AllIdle, QuietSaves, RunningReconciled,
     RunningSupervised, SavePcs
<1>3. CASE Boot
  BY <1>3 DEF Boot, disk, thr, Supervision, PhaseOK, AllIdle, QuietSaves, RunningReconciled,
     RunningSupervised
<1>4. CASE Serve
  <2>1. \A t \in Threads : pc[t] = "idle" /\ pc'[t] = "idle"
    BY <1>4 DEF Serve, AllIdle, thr
  <2>2. \A i \in Ids : meta'[i].state = "running" => i \in adopted'
    BY <1>4, <2>1 DEF Serve, disk, Supervision, RunningReconciled, At
  <2> QED
    BY <1>4, <2>1, <2>2 DEF Serve, thr, Supervision, PhaseOK, QuietSaves, RunningReconciled,
       RunningSupervised
<1>5. ASSUME NEW t \in Threads, NEW i \in Ids, Reconcile(t, i)
      PROVE  Supervision'
  <2>1. PhaseOK' /\ QuietSaves' /\ RunningSupervised'
    BY <1>5 DEF Reconcile, AllIdle, Goto, Record, Supervision, PhaseOK, QuietSaves,
       RunningSupervised, SavePcs
  <2>2. /\ \A j \in Ids : meta[j].state = "running" => j \in adopted \cup todo
        /\ fd[t] = "none"
    BY <1>5 DEF Reconcile, AllIdle, Supervision, RunningReconciled, QuietSaves, At
  <2>3. meta' = meta /\ todo' = todo \ {i} /\ fd' = fd /\ adopted \subseteq adopted'
    BY <1>5 DEF Reconcile, disk
  <2>4. meta[i].state = "running" =>
            \/ i \in adopted'
            \/ tgt'[t] = i /\ pc'[t] = "reconcile"
    BY <1>5 DEF Reconcile, Goto
  <2>5. RunningReconciled'
    BY <2>2, <2>3, <2>4 DEF RunningReconciled, At
  <2> QED
    BY <2>1, <2>5 DEF Supervision
<1> QED
  BY <1>1, <1>2, <1>3, <1>4, <1>5 DEF Environment, Startup
LEMMA SupervisionNext == TypeInv /\ Supervision /\ [Next]_vars => Supervision'
<1> SUFFICES ASSUME TypeInv, Supervision, [Next]_vars PROVE Supervision'
  OBVIOUS
<1>1. ASSUME NEW t \in Threads, Begin(t) \/ Step(t)
      PROVE  Supervision'
  BY <1>1, PlainStepsKeepSupervision, SupervisionFrame, SupervisionOpen, SupervisionWrite DEF Step
<1>2. CASE UNCHANGED vars
  BY <1>2 DEF vars, disk, boot, thr, Supervision, PhaseOK, AllIdle, QuietSaves,
     RunningReconciled, RunningSupervised, Supervises, At
<1> QED
  BY <1>1, <1>2, SupervisionEnv DEF Next

(***************************************************************************)
(* While the daemon serves, every record that says "running" has a         *)
(* goroutine that will write how the container ended, or was adopted at    *)
(* boot.                                                                   *)
(***************************************************************************)
THEOREM Supervised == Spec => []RunningSupervised
<1>1. Init => TypeInv /\ Supervision
  BY TypeInit, SupervisionInit
<1>2. (TypeInv /\ Supervision) /\ [Next]_vars => (TypeInv /\ Supervision)'
  BY TypeNext, SupervisionNext
<1>3. Supervision => RunningSupervised
  BY DEF Supervision
<1> QED
  BY <1>1, <1>2, <1>3, PTL DEF Spec
-----------------------------------------------------------------------------
(***************************************************************************)
(* Overlays: what is mounted for a container, and who will unmount it.     *)
(***************************************************************************)
\* What a step does to the overlays of a container and to the sessions that hold one:
\* Prepare adds an overlay and a holder, Unmount takes one of each, a delete takes an
\* overlay, and nothing else touches either.
LEMMA MountMoves ==
    ASSUME TypeInv, NEW t \in Threads, Begin(t) \/ Step(t)
    PROVE  /\ crashes' = crashes
           /\ \A u \in Threads \ {t} : pc'[u] = pc[u]
           /\ \/ /\ mounts' = mounts
                 /\ \A j \in Ids : MountHolders(j)' = MountHolders(j)
              \/ \E i \in Ids :
                    /\ pc[t] = "prepare" /\ tgt[t] = i /\ t \notin MountHolders(i)
                    /\ mounts' = [mounts EXCEPT ![i] = @ + 1]
                    /\ MountHolders(i)' = MountHolders(i) \cup {t}
                    /\ \A j \in Ids \ {i} : MountHolders(j)' = MountHolders(j)
              \/ \E i \in Ids :
                    /\ pc[t] = "unmount" /\ tgt[t] = i /\ t \in MountHolders(i)
                    /\ mounts' = Unmounted(i)
                    /\ MountHolders(i)' = MountHolders(i) \ {t}
                    /\ \A j \in Ids \ {i} : MountHolders(j)' = MountHolders(j)
              \/ \E i \in Ids :
                    /\ pc[t] = "deleteUnmount" /\ tgt[t] = i
                    /\ mounts' = Unmounted(i)
                    /\ \A j \in Ids : MountHolders(j)' = MountHolders(j)
<1> USE LifecycleAssumption
        DEF TypeInv, TypeOK, ThreadsBound, At, Finish, Jump, JumpWith, Goto, disk, boot, thr
<1> DEFINE Holding(u) == pc[u] \in SessionPcs \/ pc[u] = "unmount"
<1>1. /\ crashes' = crashes
      /\ \A u \in Threads \ {t} : pc'[u] = pc[u] /\ tgt'[u] = tgt[u]
  <2>1. CASE Begin(t)
    BY <2>1 DEF Begin, CreateContainer, StartContainer, StartAttached, StopContainer,
                DeleteContainer, Load
  <2>2. CASE Step(t)
    BY <2>2 DEF Step, OpenConfig, WriteConfig, Prepare, Spawn, Apply, Network, Release, Wait,
       CheckStart, CheckAttach, DeleteCheck, Cleanup, Final, Unmount, MarkStopping, KillAll, Poll,
       CleanStop, DeleteUnmount, DeleteRemove
  <2> QED
    BY <2>1, <2>2
<1>2. ASSUME (tgt'[t] = tgt[t] /\ (Holding(t)' <=> Holding(t))) \/ (~Holding(t) /\ ~Holding(t)')
      PROVE  \A j \in Ids : MountHolders(j)' = MountHolders(j)
  BY <1>1, <1>2 DEF MountHolders
<1>3. CASE Begin(t)
  <2>1. mounts' = mounts /\ ~Holding(t) /\ ~Holding(t)'
    BY <1>3 DEF Begin, CreateContainer, StartContainer, StartAttached, StopContainer,
                DeleteContainer, Load, SessionPcs
  <2> QED
    BY <1>1, <1>2, <2>1
<1>4. CASE Prepare(t)
  <2>1. CASE UNCHANGED mounts /\ Finish(t)
    BY <1>1, <1>2, <1>4, <2>1 DEF Prepare, SessionPcs
  <2>2. CASE ~(UNCHANGED mounts /\ Finish(t))
    <3>1. PICK i \in Ids : i = tgt[t]
      BY <1>4 DEF Prepare
    <3>2. /\ mounts' = [mounts EXCEPT ![i] = @ + 1]
          /\ pc[t] = "prepare" /\ pc'[t] = "saveRun" /\ tgt'[t] = i
      BY <1>4, <2>2, <3>1 DEF Prepare
    <3>3. t \notin MountHolders(i) /\ MountHolders(i)' = MountHolders(i) \cup {t}
      BY <1>1, <3>2 DEF MountHolders, SessionPcs
    <3>4. \A j \in Ids \ {i} : MountHolders(j)' = MountHolders(j)
      BY <1>1, <3>1, <3>2 DEF MountHolders
    <3> QED
      BY <1>1, <3>1, <3>2, <3>3, <3>4
  <2> QED
    BY <2>1, <2>2
<1>5. CASE Unmount(t)
  <2>1. PICK i \in Ids : i = tgt[t]
    BY <1>5 DEF Unmount
  <2>2. mounts' = Unmounted(i) /\ pc[t] = "unmount" /\ pc'[t] = "idle" /\ tgt'[t] = NoId
    BY <1>5, <2>1 DEF Unmount
  <2>3. t \in MountHolders(i) /\ MountHolders(i)' = MountHolders(i) \ {t}
    BY <1>1, <2>1, <2>2 DEF MountHolders, SessionPcs
  <2>4. \A j \in Ids \ {i} : MountHolders(j)' = MountHolders(j)
    BY <1>1, <2>1, <2>2 DEF MountHolders
  <2> QED
    BY <1>1, <2>1, <2>2, <2>3, <2>4
<1>6. CASE DeleteUnmount(t)
  <2>1. PICK i \in Ids : i = tgt[t]
    BY <1>6 DEF DeleteUnmount
  <2>2. mounts' = Unmounted(i) /\ pc[t] = "deleteUnmount" /\ ~Holding(t) /\ ~Holding(t)'
    BY <1>6, <2>1 DEF DeleteUnmount, SessionPcs
  <2> QED
    BY <1>1, <1>2, <2>1, <2>2
<1>7. CASE OpenConfig(t) \/ WriteConfig(t)
  <2>1. CASE OpenConfig(t)
    BY <1>1, <1>2, <2>1 DEF OpenConfig
  <2>2. CASE WriteConfig(t)
    <3>1. /\ mounts' = mounts
          /\ pc[t] \in {"saveRun", "ready", "saveFinal"} =>
                tgt'[t] = tgt[t] /\ pc'[t] \in {"spawn", "release", "unmount"}
          /\ pc[t] \notin {"saveRun", "ready", "saveFinal"} =>
                ~Holding(t) /\ pc'[t] \in {"idle", "prepare"}
      BY <2>2, AfterSaveValues DEF WriteConfig, SavePcs, SessionPcs
    <3> QED
      BY <1>1, <1>2, <3>1 DEF SessionPcs
  <2> QED
    BY <1>7, <2>1, <2>2
<1>8. CASE \/ Spawn(t) \/ Apply(t) \/ Network(t) \/ Release(t) \/ Wait(t) \/ Cleanup(t) \/ Final(t)
  <2>1. mounts' = mounts /\ tgt'[t] = tgt[t] /\ Holding(t) /\ Holding(t)'
    BY <1>8 DEF Spawn, Apply, Network, Release, Wait, Cleanup, Final, SessionPcs
  <2> QED
    BY <1>1, <1>2, <2>1
<1>9. CASE \/ CheckStart(t) \/ CheckAttach(t) \/ MarkStopping(t) \/ KillAll(t) \/ Poll(t)
           \/ CleanStop(t) \/ DeleteCheck(t) \/ DeleteRemove(t)
  <2>1. mounts' = mounts /\ ~Holding(t) /\ ~Holding(t)'
    BY <1>9 DEF CheckStart, CheckAttach, MarkStopping, KillAll, Poll, CleanStop, DeleteCheck,
                DeleteRemove, SessionPcs
  <2> QED
    BY <1>1, <1>2, <2>1
<1> QED
  BY <1>3, <1>4, <1>5, <1>6, <1>7, <1>8, <1>9 DEF Step

LEMMA HoldersCounted ==
    ASSUME IsFiniteSet(Working), NEW i \in Ids, LifecycleAssumption, TypeInv
    PROVE  IsFiniteSet(MountHolders(i)) /\ Cardinality(MountHolders(i)) \in Nat
<1>1. MountHolders(i) \subseteq Working
  BY DEF MountHolders, Working, SessionPcs
<1> QED
  BY <1>1, FS_Subset, FS_CardinalityType

LEMMA MountsInvStep ==
    ASSUME TypeInv, MountsInv, NEW t \in Threads, Begin(t) \/ Step(t)
    PROVE  MountsInv'
<1> USE LifecycleAssumption DEF MountsInv
<1>1. IsFiniteSet(Working)'
  <2>1. Working' \subseteq Working \cup {t}
    BY MountMoves DEF Working
  <2> QED
    BY <2>1, FS_AddElement, FS_Subset
<1>2. MountsBalanced'
  <2> SUFFICES ASSUME crashes = 0, NEW i \in Ids
               PROVE  mounts'[i] <= Cardinality(MountHolders(i)')
    BY MountMoves DEF MountsBalanced
  <2> DEFINE H == MountHolders(i)
  <2>1. /\ mounts[i] \in Nat /\ mounts[i] <= Cardinality(H) /\ IsFiniteSet(H) /\ Cardinality(H) \in Nat
        /\ mounts \in [Ids -> Nat]
    BY HoldersCounted DEF MountsBalanced, TypeInv, TypeOK
  <2>2. Cardinality(H \cup {t}) = IF t \in H THEN Cardinality(H) ELSE Cardinality(H) + 1
    BY <2>1, FS_AddElement
  <2>3. Cardinality(H \ {t}) = IF t \in H THEN Cardinality(H) - 1 ELSE Cardinality(H)
    BY <2>1, FS_RemoveElement
  <2>4. t \in H => Cardinality(H) # 0
    BY <2>1, FS_EmptySet
  <2> HIDE DEF H
  <2>5. \/ mounts' = mounts /\ H' = H
        \/ \E j \in Ids : /\ t \notin MountHolders(j) /\ mounts' = [mounts EXCEPT ![j] = @ + 1]
                          /\ IF i = j THEN H' = H \cup {t} ELSE H' = H
        \/ \E j \in Ids : /\ t \in MountHolders(j) /\ mounts' = Unmounted(j)
                          /\ IF i = j THEN H' = H \ {t} ELSE H' = H
        \/ \E j \in Ids : mounts' = Unmounted(j) /\ H' = H
    BY MountMoves DEF H
  <2>6. ASSUME mounts' = mounts, H' = H
        PROVE  mounts'[i] <= Cardinality(H')
    BY <2>1, <2>6
  <2>7. ASSUME NEW j \in Ids, t \notin MountHolders(j), mounts' = [mounts EXCEPT ![j] = @ + 1],
               IF i = j THEN H' = H \cup {t} ELSE H' = H
        PROVE  mounts'[i] <= Cardinality(H')
    <3>1. i = j => t \notin H
      BY <2>7 DEF H
    <3> QED
      BY <2>1, <2>2, <2>7, <3>1
  <2>8. ASSUME NEW j \in Ids, t \in MountHolders(j), mounts' = Unmounted(j),
               IF i = j THEN H' = H \ {t} ELSE H' = H
        PROVE  mounts'[i] <= Cardinality(H')
    <3>1. i = j => t \in H
      BY <2>8 DEF H
    <3> QED
      BY <2>1, <2>3, <2>4, <2>8, <3>1 DEF Unmounted
  <2>9. ASSUME NEW j \in Ids, mounts' = Unmounted(j), H' = H
        PROVE  mounts'[i] <= Cardinality(H')
    BY <2>1, <2>9 DEF Unmounted
  <2>10. mounts'[i] <= Cardinality(H')
    BY <2>5, <2>6, <2>7, <2>8, <2>9
  <2> QED
    BY <2>10 DEF H
<1> QED
  BY <1>1, <1>2

LEMMA MountsInvEnv ==
    ASSUME TypeInv, MountsInv, Environment \/ Startup
    PROVE  MountsInv'
<1> USE LifecycleAssumption DEF MountsInv
<1>1. CASE UNCHANGED <<mounts, crashes, pc, tgt>>
  BY <1>1 DEF Working, MountsBalanced, MountHolders
<1>2. CASE Crash
  <2>1. Working' = {} /\ crashes' # 0
    BY <1>2 DEF Crash, Working, TypeInv, TypeOK
  <2> QED
    BY <2>1, FS_EmptySet DEF MountsBalanced
<1>3. ASSUME NEW t \in Threads, NEW i \in Ids, Reconcile(t, i)
      PROVE  MountsInv'
  <2>1. /\ UNCHANGED <<mounts, crashes>>
        /\ \A u \in Threads : pc[u] = "idle" /\ pc'[u] \in {"idle", "reconcile"}
        /\ \A u \in Threads \ {t} : pc'[u] = pc[u]
    BY <1>3 DEF Reconcile, AllIdle, Goto, disk, TypeInv, TypeOK
  <2>2. IsFiniteSet(Working)'
    <3>1. Working' \subseteq {} \cup {t}
      BY <2>1 DEF Working
    <3> QED
      BY <3>1, FS_EmptySet, FS_AddElement, FS_Subset
  <2>3. \A j \in Ids : MountHolders(j)' = MountHolders(j)
    BY <2>1 DEF MountHolders, SessionPcs
  <2> QED
    BY <2>1, <2>2, <2>3 DEF MountsBalanced
<1>4. Environment \/ Startup => UNCHANGED <<mounts, crashes, pc, tgt>> \/ Crash
                                \/ \E t \in Threads, i \in Ids : Reconcile(t, i)
  BY DEF Environment, Startup, Exit, HostFork, ControlKill, Boot, Serve, disk, boot, thr
<1> QED
  BY <1>1, <1>2, <1>3, <1>4

LEMMA MountsInvInit == Init => MountsInv
<1> SUFFICES ASSUME Init PROVE MountsInv
  OBVIOUS
<1>1. Working = {} /\ \A i \in Ids : MountHolders(i) = {}
  BY DEF Init, Working, MountHolders, SessionPcs
<1>2. IsFiniteSet(Working)
  BY <1>1, FS_EmptySet
<1>3. \A i \in Ids : mounts[i] = 0 /\ Cardinality(MountHolders(i)) = 0
  BY <1>1, FS_EmptySet DEF Init
<1> QED
  BY <1>2, <1>3 DEF MountsInv, MountsBalanced

LEMMA MountsInvNext == TypeInv /\ MountsInv /\ [Next]_vars => MountsInv'
<1> SUFFICES ASSUME TypeInv, MountsInv, [Next]_vars PROVE MountsInv'
  OBVIOUS
<1>1. CASE Next
  BY <1>1, MountsInvStep, MountsInvEnv DEF Next
<1>2. CASE UNCHANGED vars
  BY <1>2 DEF vars, disk, boot, thr, MountsInv, Working, MountsBalanced, MountHolders
<1> QED
  BY <1>1, <1>2

(***************************************************************************)
(* Whatever requests overlap: as long as the daemon has not gone down, no  *)
(* container has more overlays mounted than sessions that will take one    *)
(* off, so none is forgotten when a set-up fails halfway.                  *)
(***************************************************************************)
THEOREM Balanced == Spec => []MountsBalanced
<1>1. Init => TypeInv /\ MountsInv
  BY TypeInit, MountsInvInit
<1>2. (TypeInv /\ MountsInv) /\ [Next]_vars => (TypeInv /\ MountsInv)'
  BY TypeNext, MountsInvNext
<1>3. MountsInv => MountsBalanced
  BY DEF MountsInv
<1> QED
  BY <1>1, <1>2, <1>3, PTL DEF Spec
-----------------------------------------------------------------------------
(***************************************************************************)
(* The four parts together are the inductive invariant.                    *)
(***************************************************************************)
THEOREM Inductive == Spec => []IndInv
<1>1. Init => IndInv
  BY TypeInit, ConfinementInit, SupervisionInit, MountsInvInit DEF IndInv, TypeInv
<1>2. IndInv /\ [Next]_vars => IndInv'
  BY TypeNext, ConfinementNext, SupervisionNext, MountsInvNext DEF IndInv, TypeInv
<1> QED
  BY <1>1, <1>2, PTL DEF Spec
-----------------------------------------------------------------------------
(***************************************************************************)
(* The refinement LifecycleSandbox states: every step of the daemon moves  *)
(* every process along an edge of Sandbox or leaves it.                    *)
(***************************************************************************)
\* Moves of Sandbox, for one process, in the terms of Lifecycle.
Moved(p) ==
    \/ Phase(p)' = Phase(p) /\ own'[p] = own[p]
    \/ /\ <<Phase(p), Phase(p)'>> \in Boxes!Setup \cup Boxes!Deaths \cup Boxes!Departures
       /\ Phase(p)' = "absent" => own'[p] = NoId
       /\ Phase(p) # "absent" /\ Phase(p)' # "absent" => own'[p] = own[p]
       /\ Phase(p)' = "made" => own'[p] \in Ids

LEMMA PhaseTypes == \A p \in Pids : Phase(p) \in Boxes!Phases
BY DEF Phase, Boxes!Phases

\* A process whose entry, enrolment and network are as before.
LEMMA Unmoved ==
    ASSUME NEW p \in Pids, pst'[p] = pst[p], own'[p] = own[p],
           p \in incg' <=> p \in incg, p \in net' <=> p \in net
    PROVE  Moved(p)
BY DEF Moved, Phase

\* A process that is sent SIGKILL, or that ends and stays behind as a zombie.
LEMMA DiesOrStays ==
    ASSUME TypeOK, TypeOK', TableClean, NEW p \in Pids, own'[p] = own[p],
           \/ pst'[p] = pst[p] /\ (p \in incg' <=> p \in incg) /\ (p \in net' <=> p \in net)
           \/ Live(p) /\ pst'[p] \in {"dying", "exit0", "exit1"}
           \/ pst[p] \in {"host", "free"} /\ pst'[p] \in {"host", "free"}
    PROVE  Moved(p)
BY DEF Moved, Phase, Live, TypeOK, PStates, Boxes!Setup, Boxes!Deaths, Boxes!Departures

LEMMA KillMoves ==
    ASSUME TypeOK, TypeOK', TableClean, NEW S \in SUBSET Pids, Kill(S)
    PROVE  \A p \in Pids : Moved(p)
<1> TAKE p \in Pids
<1>1. \/ pst'[p] = pst[p]
      \/ Live(p) /\ pst'[p] = "dying"
      \/ pst[p] = "host" /\ pst'[p] = "free"
  BY DEF Kill, Killed, TypeOK
<1> QED
  BY <1>1, DiesOrStays DEF Kill

\* A process that leaves the process table.
LEMMA ReapMoves ==
    ASSUME TypeOK, TableClean, NEW S \in SUBSET Pids, Reap(S, pst),
           \A p \in S : pst[p] # "held"
    PROVE  \A p \in Pids : Moved(p)
<1> TAKE p \in Pids
<1>1. CASE p \in S
  BY <1>1 DEF Reap, Moved, Phase, TypeOK, PStates, TableClean, Boxes!Departures
<1>2. CASE p \notin S
  BY <1>2, Unmoved DEF Reap
<1> QED
  BY <1>1, <1>2

LEMMA StepMoves ==
    ASSUME TypeInv, TypeInv', Confinement, NEW t \in Threads, Begin(t) \/ Step(t),
           NEW p \in Pids
    PROVE  Moved(p)
<1> USE DEF TypeInv
<1>0. TableClean /\ SessionOwnsChild /\ ChildPrepared
  BY DEF Confinement
<1>1. CASE \/ Begin(t) \/ OpenConfig(t) \/ WriteConfig(t)
           \/ CheckStart(t) \/ CheckAttach(t) \/ Prepare(t) \/ Cleanup(t) \/ Final(t) \/ Unmount(t)
           \/ MarkStopping(t) \/ CleanStop(t) \/ DeleteCheck(t) \/ DeleteUnmount(t) \/ DeleteRemove(t)
  <2>1. UNCHANGED procs
    BY <1>1 DEF Begin, CreateContainer, StartContainer, StartAttached, StopContainer,
                DeleteContainer, Load, OpenConfig, WriteConfig, CheckStart, CheckAttach,
                Prepare, Cleanup, Final, Unmount, MarkStopping, CleanStop, DeleteCheck,
                DeleteUnmount, DeleteRemove, disk
  <2> QED
    BY <2>1, Unmoved DEF procs
<1>2. CASE Spawn(t)
  <2>1. CASE UNCHANGED procs
    BY <2>1, Unmoved DEF procs
  <2>2. ASSUME NEW q \in Pids, pst[q] = "free",
               pst' = [pst EXCEPT ![q] = "held"], own' = [own EXCEPT ![q] = tgt[t]],
               UNCHANGED <<incg, net>>
        PROVE  Moved(p)
    <3>1. tgt[t] \in Ids
      BY <1>2 DEF Spawn, At, ThreadsBound
    <3>2. CASE p = q
      BY <1>0, <2>2, <3>1, <3>2, LifecycleAssumption
         DEF Moved, Phase, TableClean, TypeOK, Boxes!Setup
    <3>3. CASE p # q
      BY <2>2, <3>3, Unmoved DEF TypeOK
    <3> QED
      BY <3>2, <3>3
  <2> QED
    BY <1>2, <2>1, <2>2 DEF Spawn
<1>3. CASE Apply(t)
  <2>1. /\ child[t] \in Pids /\ own' = own /\ net' = net
        /\ incg' = incg \/ incg' = incg \cup {child[t]}
        /\ pst' = pst \/ pst' = Killed({child[t]})
        /\ incg' # incg => Live(child[t])
    BY <1>3 DEF Apply, At, ThreadsBound, ChildPcs
  <2>2. CASE p # child[t]
    BY <2>1, <2>2, Unmoved DEF Killed, TypeOK
  <2>3. CASE p = child[t] /\ pst' = pst
    BY <2>1, <2>3 DEF Moved, Phase, Live, TypeOK, PStates, Boxes!Setup
  <2>4. CASE p = child[t] /\ pst' = Killed({child[t]})
    <3>1. pst[p] \notin {"host", "free"}
      BY <1>0, <2>4, <2>1, LifecycleAssumption DEF SessionOwnsChild
    <3>2. CASE Live(p)
      BY <2>1, <2>4, <3>2, <1>0, DiesOrStays DEF Killed
    <3>3. CASE ~Live(p)
      BY <2>1, <2>4, <3>1, <3>3, Unmoved DEF Killed
    <3> QED
      BY <3>2, <3>3
  <2> QED
    BY <2>1, <2>2, <2>3, <2>4
<1>4. CASE Network(t)
  <2>1. child[t] \in Pids /\ child[t] \in incg
    BY <1>0, <1>4 DEF Network, At, ThreadsBound, ChildPcs, ChildPrepared
  <2>2. CASE Kill({child[t]})
    BY <2>1, <2>2, <1>0, KillMoves
  <2>3. CASE net' = net \cup {child[t]} /\ UNCHANGED <<pst, own, kids, incg>>
    BY <2>1, <2>3 DEF Moved, Phase, TypeOK, PStates, Boxes!Setup
  <2> QED
    BY <1>4, <2>2, <2>3 DEF Network
<1>5. CASE Release(t)
  <2>1. child[t] \in Pids /\ child[t] \in net /\ UNCHANGED <<own, incg, net>>
        /\ pst' = IF pst[child[t]] = "held" THEN [pst EXCEPT ![child[t]] = "user"] ELSE pst
    BY <1>0, <1>5 DEF Release, At, ThreadsBound, ChildPcs, ChildPrepared
  <2> QED
    BY <2>1 DEF Moved, Phase, TypeOK, PStates, Boxes!Setup
<1>6. CASE Wait(t)
  <2>1. child[t] \in Pids /\ Reap({child[t]}, pst) /\ pst[child[t]] # "held"
    BY <1>6 DEF Wait, At, ThreadsBound, ChildPcs, Zombie
  <2> QED
    BY <1>0, <2>1, ReapMoves
<1>7. CASE KillAll(t) \/ Poll(t)
  <2>1. Members(tgt[t]) \in SUBSET Pids /\ (Alive(loc[t].pid) => loc[t].pid \in Pids)
    BY DEF Members, Alive, TypeOK, Records
  <2>2. UNCHANGED procs \/ \E S \in SUBSET Pids : Kill(S)
    BY <1>7, <2>1 DEF KillAll, Poll
  <2> QED
    BY <1>0, <2>2, KillMoves, Unmoved DEF procs
<1> QED
  BY <1>1, <1>2, <1>3, <1>4, <1>5, <1>6, <1>7 DEF Step

LEMMA EnvMoves ==
    ASSUME TypeInv, TypeInv', Confinement, Environment \/ Startup, NEW p \in Pids
    PROVE  Moved(p)
<1> USE DEF TypeInv
<1>0. TableClean
  BY DEF Confinement
<1>1. ASSUME NEW q \in Pids, Exit(q)
      PROVE  Moved(p)
  <2>1. CASE q \in kids
    <3>1. PICK s \in {"exit0", "exit1"} : pst' = [pst EXCEPT ![q] = s]
      BY <1>1, <2>1 DEF Exit, ExitStates
    <3>2. Live(q) /\ UNCHANGED <<own, incg, net>>
      BY <1>1, <2>1 DEF Exit, ExitStates, Live
    <3> QED
      BY <1>0, <3>1, <3>2, DiesOrStays DEF TypeOK
  <2>2. CASE q \notin kids
    <3>1. Reap({q}, pst) /\ pst[q] # "held"
      BY <1>0, <1>1, <2>2 DEF Exit, TableClean
    <3> QED
      BY <1>0, <3>1, ReapMoves
  <2> QED
    BY <2>1, <2>2
<1>2. ASSUME NEW q \in Pids, HostFork(q)
      PROVE  Moved(p)
  BY <1>0, <1>2, DiesOrStays DEF HostFork, TypeOK
<1>5. ASSUME NEW q \in Pids, ControlKill(q)
      PROVE  Moved(p)
  BY <1>0, <1>5, KillMoves DEF ControlKill
<1>3. CASE Crash
  <2>1. CASE Zombie(p)
    BY <1>3, <2>1 DEF Crash, Zombie, Moved, Phase, Boxes!Departures
  <2>2. CASE ~Zombie(p)
    <3>1. /\ pst'[p] = IF pst[p] = "held" THEN "dying" ELSE pst[p]
          /\ own'[p] = own[p] /\ (p \in incg' <=> p \in incg) /\ (p \in net' <=> p \in net)
      BY <1>3, <2>2 DEF Crash, Orphaned
    <3> QED
      BY <1>0, <3>1, DiesOrStays DEF Live
  <2> QED
    BY <2>1, <2>2
<1>4. CASE Startup
  <2>1. UNCHANGED procs
    BY <1>4 DEF Startup, Boot, Serve, Reconcile
  <2> QED
    BY <2>1, Unmoved DEF procs
<1> QED
  BY <1>1, <1>2, <1>3, <1>4, <1>5 DEF Environment

LEMMA SandboxInit == Init => Boxes!Init
BY DEF Init, Boxes!Init, Phase

LEMMA SandboxNext ==
    TypeInv /\ TypeInv' /\ Confinement /\ [Next]_vars
        => [Boxes!Next]_<<[p \in Pids |-> Phase(p)], own>>
<1> SUFFICES ASSUME TypeInv, TypeInv', Confinement, [Next]_vars
             PROVE  [Boxes!Next]_<<[p \in Pids |-> Phase(p)], own>>
  OBVIOUS
<1>1. CASE Next
  <2>1. \A p \in Pids : Moved(p)
    BY <1>1, StepMoves, EnvMoves DEF Next
  <2>2. \A p \in Pids : Boxes!Moves(p)
    BY <2>1 DEF Moved, Boxes!Moves
  <2>3. /\ [p \in Pids |-> Phase(p)]' \in [Pids -> Boxes!Phases]
        /\ own' \in [Pids -> Ids \cup {NoId}]
    BY PhaseTypes DEF TypeInv, TypeOK, Phase, Boxes!Phases
  <2> QED
    BY <2>2, <2>3 DEF Boxes!Next
<1>2. CASE UNCHANGED vars
  BY <1>2 DEF vars, procs, Phase
<1> QED
  BY <1>1, <1>2

(***************************************************************************)
(* The daemon implements Sandbox: every process receives its limits, then  *)
(* its network, then the user's command, for one container only.           *)
(***************************************************************************)
THEOREM Implementation == Spec => ImplementsSandbox
<1>1. Init => TypeInv /\ Confinement
  BY TypeInit, ConfinementInit
<1>2. (TypeInv /\ Confinement) /\ [Next]_vars => (TypeInv /\ Confinement)'
  BY TypeNext, ConfinementNext
<1> QED
  BY <1>1, <1>2, SandboxInit, SandboxNext, PTL DEF Spec, ImplementsSandbox, Boxes!Spec
-----------------------------------------------------------------------------
(***************************************************************************)
(* One request at a time for each container.  A serial step is a step of   *)
(* the daemon, so that types and confinement are kept as before.           *)
(***************************************************************************)
LEMMA SerialIsNext == [SerialNext]_vars => [Next]_vars
BY DEF SerialNext, SerialBegin, Next, Begin

LEMMA SerialBeginIsBegin == \A t \in Threads : SerialBegin(t) => Begin(t)
BY DEF SerialBegin, Begin

\* A thread that is neither a stop nor a session that may be stopped has its
\* container to itself.
LEMMA Alone ==
    ASSUME OnePerContainer, NEW t \in Threads, tgt[t] # NoId,
           pc[t] \notin StopPcs \cup StoppablePcs
    PROVE  \A u \in Threads \ {t} : tgt[u] # tgt[t]
BY DEF OnePerContainer, StopsSession

\* A step of one thread leaves the others as they are.
LEMMA OthersStay ==
    ASSUME TypeInv, OnePerContainer, NEW t \in Threads, Begin(t) \/ Step(t)
    PROVE  \A u \in Threads \ {t} :
               /\ pc'[u] = pc[u] /\ tgt'[u] = tgt[u] /\ loc'[u] = loc[u]
               /\ child'[u] = child[u] /\ fd'[u] = fd[u]
<1> USE LifecycleAssumption
        DEF TypeInv, TypeOK, At, Goto, Jump, JumpWith, Finish, disk, procs, boot, thr
<1>1. CASE Begin(t)
  BY <1>1 DEF Begin, CreateContainer, StartContainer, StartAttached, StopContainer,
              DeleteContainer, Load
<1>2. CASE OpenConfig(t) \/ WriteConfig(t)
  BY <1>2 DEF OpenConfig, WriteConfig
<1>3. CASE CheckStart(t) \/ CheckAttach(t) \/ Prepare(t)
  BY <1>3 DEF CheckStart, CheckAttach, Prepare
<1>4. CASE Spawn(t) \/ Apply(t) \/ Network(t)
  BY <1>4 DEF Spawn, Apply, Network
<1>5. CASE Release(t) \/ Wait(t) \/ Cleanup(t) \/ Final(t) \/ Unmount(t)
  BY <1>5 DEF Release, Wait, Cleanup, Final, Unmount
<1>6. CASE MarkStopping(t) \/ KillAll(t) \/ Poll(t) \/ CleanStop(t)
  BY <1>6 DEF MarkStopping, KillAll, Poll, CleanStop
<1>7. CASE DeleteCheck(t) \/ DeleteUnmount(t)
  BY <1>7 DEF DeleteCheck, DeleteUnmount
<1>8. CASE DeleteRemove(t)
  <2>1. \A u \in Threads \ {t} : tgt[u] # tgt[t]
    BY <1>8, Alone DEF DeleteRemove, ThreadsBound, StopPcs, StoppablePcs
  <2> QED
    BY <1>8, <2>1 DEF DeleteRemove
<1> QED
  BY <1>1, <1>2, <1>3, <1>4, <1>5, <1>6, <1>7, <1>8 DEF Step

\* What a step does to its own thread: it stays on its container or leaves it, a
\* stop remains a stop, what may be stopped remains so, and a file is open only
\* between the two halves of a save.
LEMMA OwnMove ==
    ASSUME TypeInv, AtRest, NEW t \in Threads, Step(t)
    PROVE  /\ pc[t] # "idle" /\ tgt[t] \in Ids
           /\ \/ tgt'[t] = tgt[t] /\ pc'[t] # "idle"
              \/ tgt'[t] = NoId /\ pc'[t] = "idle"
           /\ pc[t] \in StopPcs => pc'[t] \in StopPcs \cup {"idle"}
           /\ pc[t] \in StoppablePcs => pc'[t] \in StoppablePcs \cup {"idle"}
           /\ fd'[t] # "none" => fd'[t] = "open" /\ pc'[t] \in SavePcs
<1> USE LifecycleAssumption
        DEF TypeInv, TypeOK, At, Goto, Jump, JumpWith, Finish, disk, procs, boot, thr,
            StopPcs, StoppablePcs, SavePcs, AtRest
<1>0. pc[t] # "idle" => tgt[t] \in Ids /\ tgt[t] # NoId
  BY DEF ThreadsBound
<1>1. CASE OpenConfig(t)
  BY <1>0, <1>1 DEF OpenConfig
<1>2. CASE WriteConfig(t)
  <2>1. pc[t] \in SavePcs /\ AfterSave[pc[t]] \in {"idle", "prepare", "spawn", "release", "unmount"}
        /\ (pc[t] = "saveFinal" => AfterSave[pc[t]] = "unmount")
        /\ (pc[t] = "saveStop" => AfterSave[pc[t]] = "idle")
    BY <1>2, AfterSaveValues DEF WriteConfig
  <2> QED
    BY <1>0, <1>2, <2>1 DEF WriteConfig
<1>3. CASE CheckStart(t) \/ CheckAttach(t) \/ Prepare(t)
  BY <1>0, <1>3 DEF CheckStart, CheckAttach, Prepare
<1>4. CASE Spawn(t) \/ Apply(t) \/ Network(t)
  BY <1>0, <1>4 DEF Spawn, Apply, Network
<1>5. CASE Release(t) \/ Wait(t) \/ Cleanup(t) \/ Final(t) \/ Unmount(t)
  BY <1>0, <1>5 DEF Release, Wait, Cleanup, Final, Unmount
<1>6. CASE MarkStopping(t) \/ KillAll(t) \/ Poll(t) \/ CleanStop(t)
  BY <1>0, <1>6 DEF MarkStopping, KillAll, Poll, CleanStop
<1>7. CASE DeleteCheck(t) \/ DeleteUnmount(t) \/ DeleteRemove(t)
  BY <1>0, <1>7 DEF DeleteCheck, DeleteUnmount, DeleteRemove
<1> QED
  BY <1>1, <1>2, <1>3, <1>4, <1>5, <1>6, <1>7 DEF Step

\* What a request begins with.
LEMMA BeginMove ==
    ASSUME TypeInv, AtRest, OnlyUsed, NEW t \in Threads, SerialBegin(t)
    PROVE  /\ pc[t] = "idle" /\ fd'[t] = "none" /\ tgt'[t] \in Ids
           /\ UNCHANGED <<meta, mounts, cgdir, procs, boot, child>>
           /\ \/ /\ pc'[t] \in {"saveNew", "check", "checkAttach", "deleteCheck"}
                 /\ Calm(tgt'[t])
              \/ pc'[t] = "mark" /\ Waiting(tgt'[t])
           /\ \/ /\ life' = life /\ life[tgt'[t]] = "used"
                 /\ pc'[t] # "saveNew" /\ loc'[t] = meta[tgt'[t]]
              \/ /\ life' = [life EXCEPT ![tgt'[t]] = "used"]
                 /\ life[tgt'[t]] = "fresh" /\ pc'[t] = "saveNew"
<1> USE LifecycleAssumption
        DEF TypeInv, TypeOK, AtRest, OnlyUsed, Goto, disk, procs, Readable, States, Absent, SavePcs
<1>1. CASE CreateContainer(t)
  <2>1. PICK i \in Ids : /\ life[i] = "fresh" /\ life' = [life EXCEPT ![i] = "used"]
                         /\ tgt' = [tgt EXCEPT ![t] = i]
    BY <1>1 DEF CreateContainer
  <2>2. tgt'[t] = i /\ Calm(i)
    BY <2>1
  <2> QED
    BY <1>1, <2>1, <2>2 DEF CreateContainer
<1>2. ASSUME NEW i \in Ids, Calm(i),
             StartContainer(t, i) \/ StartAttached(t, i) \/ DeleteContainer(t, i)
      PROVE  /\ pc[t] = "idle" /\ fd'[t] = "none" /\ tgt'[t] = i
             /\ UNCHANGED <<disk, procs, boot, child>>
             /\ pc'[t] \in {"check", "checkAttach", "deleteCheck"}
             /\ life[i] = "used" /\ loc'[t] = meta[i]
  BY <1>2 DEF StartContainer, StartAttached, DeleteContainer, Load
<1>3. ASSUME NEW i \in Ids, Waiting(i), StopContainer(t, i)
      PROVE  /\ pc[t] = "idle" /\ fd'[t] = "none" /\ tgt'[t] = i
             /\ UNCHANGED <<disk, procs, boot, child>>
             /\ pc'[t] = "mark"
             /\ life[i] = "used" /\ loc'[t] = meta[i]
  BY <1>3 DEF StopContainer, Load
<1> QED
  BY <1>1, <1>2, <1>3 DEF SerialBegin

\* What the lemmas about one thread's step may use.
SerialCore == TypeInv /\ Confinement /\ OnePerContainer /\ AtRest /\ OnlyUsed

LEMMA OnePerContainerStep ==
    ASSUME SerialCore, NEW t \in Threads, SerialBegin(t) \/ Step(t)
    PROVE  OnePerContainer'
<1> USE DEF SerialCore
<1>1. \A u \in Threads \ {t} : pc'[u] = pc[u] /\ tgt'[u] = tgt[u]
  BY OthersStay, SerialBeginIsBegin
<1>2. CASE SerialBegin(t)
  <2>1. CASE Calm(tgt'[t])
    BY <1>1, <2>1 DEF OnePerContainer, StopsSession, Calm
  <2>2. CASE pc'[t] = "mark" /\ Waiting(tgt'[t])
    BY <1>1, <2>2 DEF OnePerContainer, StopsSession, Waiting, StopPcs, StoppablePcs
  <2> QED
    BY <1>2, <2>1, <2>2, BeginMove
<1>3. CASE Step(t)
  <2>1. /\ tgt'[t] \in {tgt[t], NoId}
        /\ pc[t] \in StopPcs /\ tgt'[t] # NoId => pc'[t] \in StopPcs
        /\ pc[t] \in StoppablePcs /\ tgt'[t] # NoId => pc'[t] \in StoppablePcs
    BY <1>3, OwnMove, LifecycleAssumption
  <2> QED
    BY <1>1, <2>1 DEF OnePerContainer, StopsSession
<1> QED
  BY <1>2, <1>3

LEMMA AtRestStep ==
    ASSUME SerialCore, NEW t \in Threads, SerialBegin(t) \/ Step(t)
    PROVE  AtRest'
<1> USE DEF SerialCore
<1>1. \A u \in Threads \ {t} : pc'[u] = pc[u] /\ tgt'[u] = tgt[u] /\ fd'[u] = fd[u]
  BY OthersStay, SerialBeginIsBegin
<1>2. /\ pc'[t] = "idle" => tgt'[t] = NoId
      /\ fd'[t] # "none" => fd'[t] = "open" /\ pc'[t] \in SavePcs
  BY OwnMove, BeginMove DEF SavePcs
<1> QED
  BY <1>1, <1>2 DEF AtRest

\* The record of a container is written only by a thread on that container; an id is
\* used up by the create that draws it, and by the delete that ends it.
LEMMA RecordsWritten ==
    ASSUME SerialCore, NEW t \in Threads, Step(t)
    PROVE  /\ \A i \in Ids \ {tgt[t]} : meta'[i] = meta[i] /\ life'[i] = life[i]
           /\ \/ life' = life
              \/ pc[t] = "deleteRemove" /\ meta'[tgt[t]] = Absent /\ tgt'[t] = NoId
           /\ meta' = meta \/ (pc[t] \in SavePcs \cup {"deleteRemove"})
<1> USE LifecycleAssumption
        DEF SerialCore, TypeInv, TypeOK, ThreadsBound, At, Goto, disk
<1>1. CASE OpenConfig(t) \/ WriteConfig(t)
  BY <1>1 DEF OpenConfig, WriteConfig
<1>2. CASE CheckStart(t) \/ CheckAttach(t) \/ Prepare(t)
  BY <1>2 DEF CheckStart, CheckAttach, Prepare
<1>3. CASE Spawn(t) \/ Apply(t) \/ Network(t)
  BY <1>3 DEF Spawn, Apply, Network
<1>4. CASE Release(t) \/ Wait(t) \/ Cleanup(t) \/ Final(t) \/ Unmount(t)
  BY <1>4 DEF Release, Wait, Cleanup, Final, Unmount
<1>5. CASE MarkStopping(t) \/ KillAll(t) \/ Poll(t) \/ CleanStop(t)
  BY <1>5 DEF MarkStopping, KillAll, Poll, CleanStop
<1>6. CASE DeleteCheck(t) \/ DeleteUnmount(t) \/ DeleteRemove(t)
  BY <1>6 DEF DeleteCheck, DeleteUnmount, DeleteRemove
<1> QED
  BY <1>1, <1>2, <1>3, <1>4, <1>5, <1>6 DEF Step

LEMMA OnlyUsedStep ==
    ASSUME SerialCore, NEW t \in Threads, SerialBegin(t) \/ Step(t)
    PROVE  OnlyUsed'
<1> USE DEF SerialCore
<1>0. \A u \in Threads \ {t} : tgt'[u] = tgt[u]
  BY OthersStay, SerialBeginIsBegin
<1>1. CASE SerialBegin(t)
  <2>1. /\ meta' = meta /\ tgt'[t] \in Ids
        /\ \/ life' = life /\ life[tgt'[t]] = "used"
           \/ life' = [life EXCEPT ![tgt'[t]] = "used"]
    BY <1>1, BeginMove
  <2> QED
    BY <1>0, <2>1 DEF OnlyUsed, Calm, TypeInv, TypeOK
<1>2. CASE Step(t)
  <2>1. tgt[t] \in Ids /\ life[tgt[t]] = "used" /\ tgt'[t] \in {tgt[t], NoId}
    BY <1>2, OwnMove DEF OnlyUsed, Calm
  <2>2. CASE life' = life
    BY <1>0, <1>2, <2>1, <2>2, RecordsWritten, LifecycleAssumption DEF OnlyUsed, Calm
  <2>3. CASE pc[t] = "deleteRemove" /\ meta'[tgt[t]] = Absent /\ tgt'[t] = NoId
    <3>1. \A u \in Threads : tgt'[u] # tgt[t]
      BY <1>0, <2>1, <2>3, Alone, LifecycleAssumption DEF StopPcs, StoppablePcs
    <3> QED
      BY <1>0, <1>2, <2>1, <2>3, <3>1, RecordsWritten, LifecycleAssumption DEF OnlyUsed, Calm
  <2> QED
    BY <1>2, <2>2, <2>3, RecordsWritten
<1> QED
  BY <1>1, <1>2

\* A process comes to wait on the pipe by Spawn, and to run its command by Release.
LEMMA ProcessesStep ==
    ASSUME SerialCore, NEW t \in Threads, Step(t), NEW p \in Pids
    PROVE  /\ pst'[p] = "held" => pst[p] = "held" \/ Spawn(t)
           /\ pst'[p] = "user" =>
                 /\ own'[p] = own[p]
                 /\ pst[p] = "user" \/ (Release(t) /\ p = child[t])
<1> USE LifecycleAssumption
        DEF SerialCore, TypeInv, TypeOK, ThreadsBound, ChildPcs, At, Goto, Jump, JumpWith, disk, procs
<1>1. CASE Apply(t) \/ Network(t) \/ KillAll(t) \/ Poll(t)
  <2>1. own' = own /\ (pst' = pst \/ \E S \in SUBSET Pids : pst' = Killed(S))
    BY <1>1 DEF Apply, Network, KillAll, Poll, Kill, Members, Alive, Records
  <2> QED
    BY <2>1, KilledFacts
<1>2. CASE Spawn(t) \/ Release(t) \/ Wait(t)
  BY <1>2 DEF Spawn, Release, Wait, Reap
<1>3. CASE \/ OpenConfig(t) \/ WriteConfig(t) \/ CheckStart(t) \/ CheckAttach(t)
           \/ Prepare(t) \/ Cleanup(t) \/ Final(t) \/ Unmount(t) \/ MarkStopping(t)
           \/ CleanStop(t) \/ DeleteCheck(t) \/ DeleteUnmount(t) \/ DeleteRemove(t)
  BY <1>3 DEF OpenConfig, WriteConfig, CheckStart, CheckAttach, Prepare, Cleanup, Final,
              Unmount, MarkStopping, CleanStop, DeleteCheck, DeleteUnmount, DeleteRemove
<1> QED
  BY <1>1, <1>2, <1>3 DEF Step

\* A process is on the pipe from Spawn on; it leaves it with its session.
LEMMA HeldStep ==
    ASSUME SerialCore, HeldHasSession, NEW t \in Threads, SerialBegin(t) \/ Step(t)
    PROVE  HeldHasSession'
<1> USE DEF SerialCore
<1> DEFINE P == {"apply", "network", "ready", "release"}
<1> SUFFICES ASSUME NEW p \in Pids, pst'[p] = "held"
             PROVE  \E u \in Threads : child'[u] = p /\ pc'[u] \in P
  BY DEF HeldHasSession
<1>0. \A u \in Threads \ {t} : pc'[u] = pc[u] /\ child'[u] = child[u]
  BY OthersStay, SerialBeginIsBegin
<1>1. CASE SerialBegin(t)
  BY <1>0, <1>1, BeginMove DEF HeldHasSession, procs
<1> USE LifecycleAssumption
        DEF TypeInv, TypeOK, ThreadsBound, ChildPcs, At, Goto, Jump, JumpWith, Finish, disk, procs, thr
<1>2. CASE Spawn(t)
  BY <1>0, <1>2 DEF Spawn, HeldHasSession
<1>3. CASE Step(t) /\ ~Spawn(t)
  <2>1. pst[p] = "held"
    BY <1>3, ProcessesStep
  <2>2. PICK u \in Threads : child[u] = p /\ pc[u] \in P
    BY <2>1 DEF HeldHasSession
  <2>3. CASE u # t
    BY <1>0, <2>2, <2>3
  <2>4. CASE u = t
    <3>1. CASE Apply(t) \/ Network(t)
      BY <2>2, <2>4, <3>1 DEF Apply, Network, Kill, Killed, Live
    <3>2. CASE OpenConfig(t) \/ WriteConfig(t)
      BY <2>2, <2>4, <3>2, AfterSaveValues DEF OpenConfig, WriteConfig, SavePcs
    <3>3. CASE Release(t)
      BY <2>1, <2>2, <2>4, <3>3 DEF Release
    <3>4. Apply(t) \/ Network(t) \/ OpenConfig(t) \/ WriteConfig(t) \/ Release(t)
      BY <1>3, <2>2, <2>4 DEF Step, CheckStart, CheckAttach, Prepare, Wait, Cleanup, Final,
         Unmount, MarkStopping, KillAll, Poll, CleanStop, DeleteCheck, DeleteUnmount, DeleteRemove
    <3> QED
      BY <3>1, <3>2, <3>3, <3>4
  <2> QED
    BY <2>3, <2>4
<1> QED
  BY <1>1, <1>2, <1>3

\* A save, and all that follows the last look at a process, happens in quiet.
LEMMA SavesAreQuiet == SavePcs \cup {"deleteRemove"} \subseteq QuietPcs
BY DEF SavePcs, QuietPcs, Pcs, StartPcs, SessionPcs, StopPcs, DeletePcs

\* Only the save of the PID and the step that lets the command go add to what runs,
\* so a quiet container stays quiet.
LEMMA StaysQuiet ==
    ASSUME SerialCore, QuietContainers, NEW t \in Threads, SerialBegin(t) \/ Step(t),
           NEW i \in Ids, NoCommand(i), ~Release(t) \/ tgt[t] # i
    PROVE  NoCommand(i)'
<1> USE DEF NoCommand
<1>1. CASE SerialBegin(t)
  BY <1>1, BeginMove DEF SerialCore, procs
<1>2. CASE Step(t)
  <2>1. ASSUME NEW p \in Pids, pst'[p] = "user", Release(t), p = child[t]
        PROVE  own[p] = tgt[t]
    BY <2>1, LifecycleAssumption
       DEF Release, At, SerialCore, TypeInv, ThreadsBound, ChildPcs, Confinement, SessionOwnsChild
  <2> QED
    BY <1>2, <2>1, ProcessesStep
<1> QED
  BY <1>1, <1>2

\* What is found not to run does not run: the decisions of start, attach and delete.
LEMMA DecidesQuiet ==
    ASSUME SerialCore, CopiesCurrent, LiveIsRecorded, NEW t \in Threads,
           pc[t] \in {"check", "checkAttach", "deleteCheck"}, ~AlreadyRunning(loc[t])
    PROVE  NoCommand(tgt[t])
<1> SUFFICES ASSUME NEW p \in Pids, own[p] = tgt[t], pst[p] = "user"
             PROVE  FALSE
  BY DEF NoCommand
<1>1. loc[t] = Record("running", p)
  BY DEF CopiesCurrent, LiveIsRecorded
<1> QED
  BY <1>1, LifecycleAssumption DEF AlreadyRunning, Alive, Record

\* A container whose record says something else has no command running.
LEMMA OnlyOwnRecord ==
    ASSUME LiveIsRecorded, NEW i \in Ids, meta[i].state # "running"
    PROVE  NoCommand(i)
<1>1. \A p \in Pids : Record("running", p).state = "running"
  BY DEF Record
<1> QED
  BY <1>1 DEF LiveIsRecorded, NoCommand

\* The thread's own step: where it becomes quiet, no command runs.
LEMMA BecomesQuiet ==
    ASSUME SerialCore, QuietContainers, CopiesCurrent, LiveIsRecorded,
           NEW t \in Threads, SerialBegin(t) \/ Step(t), pc'[t] \in QuietPcs
    PROVE  NoCommand(tgt[t])'
<1> USE LifecycleAssumption DEF SerialCore, TypeInv, TypeOK, ThreadsBound
<1>1. CASE SerialBegin(t)
  <2>1. pc'[t] = "saveNew" /\ life[tgt'[t]] = "fresh" /\ UNCHANGED <<meta, procs>> /\ tgt'[t] \in Ids
    BY <1>1, BeginMove DEF QuietPcs
  <2>2. meta[tgt'[t]] = Absent
    BY <2>1 DEF OnlyUsed
  <2> QED
    BY <2>1, <2>2, OnlyOwnRecord DEF NoCommand, procs, Absent
<1>2. CASE Step(t) /\ pc[t] \in QuietPcs
  <2>1. tgt'[t] = tgt[t] /\ tgt[t] \in Ids /\ NoCommand(tgt[t])
    BY <1>2, OwnMove DEF QuietPcs, QuietContainers
  <2>2. ~Release(t)
    BY DEF Release, Jump, Goto, QuietPcs
  <2> QED
    BY <1>2, <2>1, <2>2, StaysQuiet
<1>3. CASE Step(t) /\ pc[t] \notin QuietPcs
  <2>0. pc[t] \in {"check", "checkAttach", "wait", "mark", "killAll", "deleteCheck"}
        /\ tgt'[t] = tgt[t] /\ tgt[t] \in Ids
    BY <1>3, OwnMove DEF QuietPcs
  <2>1. CASE pc[t] \in {"check", "checkAttach", "deleteCheck"}
    <3>1. CheckStart(t) \/ CheckAttach(t) \/ DeleteCheck(t)
      BY <1>3, <2>1 DEF Step, OpenConfig, WriteConfig, SavePcs, Prepare, Spawn, Apply, Network,
         Release, Wait, Cleanup, Final, Unmount, MarkStopping, KillAll, Poll, CleanStop,
         DeleteUnmount, DeleteRemove, At
    <3>2. ~AlreadyRunning(loc[t]) /\ UNCHANGED procs
      BY <3>1 DEF CheckStart, CheckAttach, DeleteCheck, AlreadyRunning, Outdated, Finish, Goto, QuietPcs
    <3> QED
      BY <2>0, <2>1, <3>2, DecidesQuiet DEF NoCommand, procs
  <2>2. CASE pc[t] = "wait"
    <3>1. Wait(t)
      BY <1>3, <2>2 DEF Step, OpenConfig, WriteConfig, SavePcs, Prepare, Spawn, Apply, Network,
         Release, CheckStart, CheckAttach, DeleteCheck, Cleanup, Final, Unmount, MarkStopping,
         KillAll, Poll, CleanStop, DeleteUnmount, DeleteRemove, At
    <3> QED
      BY <2>0, <2>2, <3>1 DEF Wait, Reap, Zombie, NoCommand, QuietContainers
  <2>3. CASE pc[t] = "mark"
    <3>1. MarkStopping(t)
      BY <1>3, <2>3 DEF Step, OpenConfig, WriteConfig, SavePcs, Prepare, Spawn, Apply, Network,
         Release, CheckStart, CheckAttach, DeleteCheck, Cleanup, Final, Unmount, Wait,
         KillAll, Poll, CleanStop, DeleteUnmount, DeleteRemove, At
    <3> QED
      BY <3>1 DEF MarkStopping, Jump, Goto, QuietPcs
  <2>4. CASE pc[t] = "killAll"
    <3>1. KillAll(t)
      BY <1>3, <2>4 DEF Step, OpenConfig, WriteConfig, SavePcs, Prepare, Spawn, Apply, Network,
         Release, CheckStart, CheckAttach, DeleteCheck, Cleanup, Final, Unmount, Wait,
         MarkStopping, Poll, CleanStop, DeleteUnmount, DeleteRemove, At
    <3>2. \A p \in Pids : pst[p] = "user" /\ own[p] = tgt[t] => tgt[t] \in cgdir /\ p \in Members(tgt[t])
      BY DEF Confinement, ConfinedBeforeUser, Members
    <3>3. own' = own /\ \A p \in Pids : pst'[p] = "user" => pst[p] = "user"
      BY <1>3, <3>1, ProcessesStep DEF Release, At, KillAll, Kill, disk
    <3> QED
      BY <2>0, <3>1, <3>2, <3>3 DEF KillAll, Kill, Killed, Live, NoCommand
  <2> QED
    BY <2>0, <2>1, <2>2, <2>3, <2>4
<1> QED
  BY <1>1, <1>2, <1>3

LEMMA QuietStep ==
    ASSUME SerialCore, QuietContainers, CopiesCurrent, LiveIsRecorded,
           NEW t \in Threads, SerialBegin(t) \/ Step(t)
    PROVE  QuietContainers'
<1> USE LifecycleAssumption DEF SerialCore
<1>0. \A u \in Threads \ {t} : pc'[u] = pc[u] /\ tgt'[u] = tgt[u] /\ child'[u] = child[u]
  BY OthersStay, SerialBeginIsBegin
<1>1. \A u \in Threads \ {t} : Release(t) => tgt[u] # tgt[t]
  BY Alone DEF Release, At, TypeInv, TypeOK, ThreadsBound, StopPcs, StoppablePcs
<1>2. ASSUME NEW u \in Threads \ {t}, pc[u] \in QuietPcs
      PROVE  NoCommand(tgt[u])'
  <2>1. NoCommand(tgt[u]) /\ tgt[u] \in Ids
    BY <1>2 DEF QuietContainers, QuietPcs, TypeInv, TypeOK, ThreadsBound
  <2> QED
    BY <1>0, <1>1, <2>1, StaysQuiet
<1>3. \A p \in Pids : pst'[p] = "user" =>
         own'[p] = own[p] /\ (pst[p] = "user" \/ (Release(t) /\ p = child[t]))
  BY ProcessesStep, BeginMove DEF procs
<1>4. ASSUME NEW u \in Threads \ {t}, pc[u] = "wait", NEW p \in Pids,
             own'[p] = tgt[u], pst'[p] = "user"
      PROVE  p = child[u]
  <2>1. tgt[u] # NoId
    BY <1>4 DEF TypeInv, TypeOK, ThreadsBound
  <2>2. pst[p] = "user"
    BY <1>1, <1>3, <1>4, <2>1
       DEF Release, At, TypeInv, ThreadsBound, ChildPcs, Confinement, SessionOwnsChild
  <2> QED
    BY <1>3, <1>4, <2>2 DEF QuietContainers
<1>5. ASSUME pc'[t] = "wait", NEW p \in Pids, own'[p] = tgt'[t], pst'[p] = "user"
      PROVE  p = child'[t]
  <2>1. Release(t)
    BY <1>5, BeginMove, AfterSaveValues DEF Step, OpenConfig, WriteConfig, SavePcs, Prepare, Spawn, Apply, Network,
       Wait, CheckStart, CheckAttach, DeleteCheck, Cleanup, Final, Unmount, MarkStopping,
       KillAll, Poll, CleanStop, DeleteUnmount, DeleteRemove, At, Finish, Jump, JumpWith, Goto,
       TypeInv, TypeOK
  <2>2. tgt'[t] = tgt[t] /\ child'[t] = child[t] /\ NoCommand(tgt[t])
    BY <2>1 DEF Release, At, Jump, QuietContainers, QuietPcs, Pcs, SessionPcs
  <2> QED
    BY <1>3, <1>5, <2>2 DEF NoCommand
<1> QED
  BY <1>0, <1>2, <1>4, <1>5, BecomesQuiet DEF QuietContainers

\* The copies on which start, attach and delete decide: nobody else is there to
\* change the file.
LEMMA CopiesStep ==
    ASSUME SerialCore, CopiesCurrent, NEW t \in Threads, SerialBegin(t) \/ Step(t)
    PROVE  CopiesCurrent'
<1> USE LifecycleAssumption DEF SerialCore
<1> DEFINE D == {"check", "checkAttach", "deleteCheck"}
<1>1. \A u \in Threads \ {t} : pc'[u] = pc[u] /\ tgt'[u] = tgt[u] /\ loc'[u] = loc[u]
  BY OthersStay, SerialBeginIsBegin
<1>2. ASSUME NEW u \in Threads \ {t}, pc[u] \in D
      PROVE  meta'[tgt[u]] = meta[tgt[u]]
  <2>1. tgt[u] \in Ids /\ tgt[t] # tgt[u]
    BY <1>2, Alone DEF TypeInv, TypeOK, ThreadsBound, StopPcs, StoppablePcs
  <2> QED
    BY <2>1, BeginMove, RecordsWritten
<1>3. ASSUME pc'[t] \in D
      PROVE  loc'[t] = meta'[tgt'[t]]
  <2>1. CASE SerialBegin(t)
    BY <1>3, <2>1, BeginMove
  <2>2. CASE Step(t)
    BY <1>3, <2>2, AfterSaveValues DEF Step, OpenConfig, WriteConfig, SavePcs, Prepare, Spawn, Apply,
       Network, Release, Wait, CheckStart, CheckAttach, DeleteCheck, Cleanup, Final, Unmount, MarkStopping,
       KillAll, Poll, CleanStop, DeleteUnmount, DeleteRemove, At, Finish, Jump, JumpWith, Goto,
       TypeInv, TypeOK
  <2> QED
    BY <2>1, <2>2
<1> QED
  BY <1>1, <1>2, <1>3 DEF CopiesCurrent

LEMMA ReadableStep ==
    ASSUME SerialCore, CopiesReadable, NEW t \in Threads, SerialBegin(t) \/ Step(t)
    PROVE  CopiesReadable'
<1> USE DEF SerialCore
<1>1. \A u \in Threads \ {t} : pc'[u] = pc[u] /\ loc'[u] = loc[u]
  BY OthersStay, SerialBeginIsBegin
<1>2. pc'[t] # "idle" => Readable(loc'[t])
  <2> USE DEF TypeInv, TypeOK, Goto, Readable, States, Record
  <2>1. CASE SerialBegin(t)
    BY <2>1 DEF SerialBegin, CreateContainer, StartContainer, StartAttached, StopContainer,
       DeleteContainer, Load
  <2>2. CASE Step(t) /\ loc'[t] = loc[t]
    BY <2>2, OwnMove DEF CopiesReadable
  <2>3. CASE Step(t) /\ loc'[t] # loc[t] /\ pc'[t] # "idle"
    BY <2>3 DEF Step, OpenConfig, WriteConfig, CheckStart, CheckAttach, Prepare, Spawn, Apply,
       Network, Release, Wait, Cleanup, Final, Unmount, MarkStopping, KillAll, Poll, CleanStop,
       DeleteCheck, DeleteUnmount, DeleteRemove, Finish, Jump, JumpWith
  <2> QED
    BY <2>1, <2>2, <2>3
<1> QED
  BY <1>1, <1>2 DEF CopiesReadable

LEMMA AnnouncedStep ==
    ASSUME SerialCore, PidAnnounced, NEW t \in Threads, SerialBegin(t) \/ Step(t)
    PROVE  PidAnnounced'
<1> USE LifecycleAssumption DEF SerialCore
<1>1. \A u \in Threads \ {t} : /\ pc'[u] = pc[u] /\ tgt'[u] = tgt[u] /\ loc'[u] = loc[u]
                               /\ child'[u] = child[u] /\ fd'[u] = fd[u]
  BY OthersStay, SerialBeginIsBegin
<1>2. ASSUME NEW u \in Threads \ {t}, pc[u] \in {"ready", "release"}
      PROVE  meta'[tgt[u]] = meta[tgt[u]]
  <2>1. tgt[u] \in Ids /\ tgt[t] # tgt[u]
    BY <1>2, Alone DEF TypeInv, TypeOK, ThreadsBound, StopPcs, StoppablePcs
  <2> QED
    BY <2>1, BeginMove, RecordsWritten
<1>3. /\ pc'[t] = "ready" => loc'[t] = Record("running", child'[t])
      /\ pc'[t] = "ready" /\ fd'[t] = "open" => meta'[tgt'[t]] = Empty
      /\ pc'[t] = "release" => meta'[tgt'[t]] = Record("running", child'[t])
  <2> USE DEF TypeInv, TypeOK, ThreadsBound, At, Finish, Jump, JumpWith, Goto
  <2>1. CASE SerialBegin(t)
    BY <2>1, BeginMove
  <2>2. CASE OpenConfig(t)
    BY <2>2 DEF OpenConfig, SavePcs, PidAnnounced
  <2>3. CASE WriteConfig(t)
    <3>1. pc'[t] \in {"ready", "release"} => pc[t] = "ready" /\ pc'[t] = "release" /\ fd[t] = "open"
      BY <2>3, AfterSaveValues DEF WriteConfig, SavePcs, AtRest
    <3> QED
      BY <2>3, <3>1 DEF WriteConfig, Written, PidAnnounced, SavePcs
  <2>4. CASE Network(t)
    BY <2>4 DEF Network
  <2>5. CASE Step(t) /\ ~(OpenConfig(t) \/ WriteConfig(t) \/ Network(t))
    BY <2>5 DEF Step, Prepare, Spawn, Apply, Release, Wait, CheckStart, CheckAttach, DeleteCheck,
       Cleanup, Final, Unmount, MarkStopping, KillAll, Poll, CleanStop, DeleteUnmount, DeleteRemove
  <2> QED
    BY <2>1, <2>2, <2>3, <2>4, <2>5
<1> QED
  BY <1>1, <1>2, <1>3 DEF PidAnnounced

\* Whoever writes a record finds its container quiet; the command that is let go is the
\* one that the record announces.
LEMMA LiveStep ==
    ASSUME SerialCore, QuietContainers, PidAnnounced, LiveIsRecorded,
           NEW t \in Threads, SerialBegin(t) \/ Step(t)
    PROVE  LiveIsRecorded'
<1> USE LifecycleAssumption DEF SerialCore
<1> SUFFICES ASSUME NEW p \in Pids, pst'[p] = "user"
             PROVE  meta'[own'[p]] = Record("running", p)
  BY DEF LiveIsRecorded
<1>1. CASE SerialBegin(t)
  BY <1>1, BeginMove DEF procs, LiveIsRecorded
<1>2. CASE Step(t) /\ pst[p] = "user"
  <2>1. own'[p] = own[p] /\ meta[own[p]] = Record("running", p) /\ own[p] \in Ids
    <3>1. own[p] \in cgdir
      BY <1>2 DEF Confinement, ConfinedBeforeUser
    <3> QED
      BY <1>2, <3>1, ProcessesStep DEF LiveIsRecorded, TypeInv, TypeOK
  <2>2. meta' = meta \/ own[p] # tgt[t]
    BY <1>2, RecordsWritten, SavesAreQuiet DEF QuietContainers, NoCommand
  <2> QED
    BY <1>2, <2>1, <2>2, RecordsWritten
<1>3. CASE Release(t) /\ p = child[t]
  BY <1>3 DEF Release, At, disk, PidAnnounced, TypeInv, ThreadsBound, ChildPcs, Confinement,
     SessionOwnsChild
<1> QED
  BY <1>1, <1>2, <1>3, ProcessesStep

\* A session takes its overlay alone, and takes it off; delete finds none.
LEMMA MountsStep ==
    ASSUME SerialCore, MountsOnce, NEW t \in Threads, SerialBegin(t) \/ Step(t)
    PROVE  MountsOnce'
<1> USE LifecycleAssumption DEF SerialCore, MountsOnce
<1>1. \A i \in Ids : mounts[i] \in Nat
  BY DEF TypeInv, TypeOK
<1>2. ASSUME NEW i \in Ids, tgt[t] = i, pc[t] \in {"prepare", "deleteUnmount", "unmount"}
      PROVE  MountHolders(i) \subseteq {t}
  BY <1>2 DEF OnePerContainer, StopsSession, StopPcs, StoppablePcs, MountHolders, SessionPcs
<1>3. ASSUME NEW i \in Ids, tgt[t] = i, pc[t] = "deleteUnmount"
      PROVE  MountHolders(i) = {}
  BY <1>2, <1>3 DEF MountHolders, SessionPcs
<1> QED
  BY <1>1, <1>2, <1>3, MountMoves, SerialBeginIsBegin DEF Unmounted, TypeInv, TypeOK

LEMMA SerialInit == Init => SerialInv
<1> SUFFICES ASSUME Init PROVE SerialInv
  OBVIOUS
<1>1. TypeInv /\ Confinement
  BY TypeInit, ConfinementInit
<1>2. OnePerContainer /\ AtRest /\ OnlyUsed /\ HeldHasSession
  BY LifecycleAssumption DEF Init, OnePerContainer, AtRest, OnlyUsed, HeldHasSession, Calm
<1>3. QuietContainers /\ CopiesCurrent /\ CopiesReadable /\ PidAnnounced /\ LiveIsRecorded
  BY DEF Init, QuietContainers, QuietPcs, CopiesCurrent, CopiesReadable, PidAnnounced,
     LiveIsRecorded
<1>4. MountsOnce
  BY DEF Init, MountsOnce, MountHolders, SessionPcs
<1> QED
  BY <1>1, <1>2, <1>3, <1>4 DEF SerialInv, TypeInv

LEMMA SerialStep ==
    ASSUME SerialInv, NEW t \in Threads, SerialBegin(t) \/ Step(t)
    PROVE  SerialInv'
<1>1. SerialCore
  BY DEF SerialInv, SerialCore, TypeInv
<1>2. TypeInv' /\ Confinement'
  BY <1>1, SerialBeginIsBegin, TypeStep, ConfinementStep DEF SerialCore
<1>3. OnePerContainer' /\ AtRest' /\ OnlyUsed' /\ HeldHasSession'
  BY <1>1, OnePerContainerStep, AtRestStep, OnlyUsedStep, HeldStep DEF SerialInv
<1>4. QuietContainers' /\ CopiesCurrent' /\ PidAnnounced' /\ LiveIsRecorded'
  BY <1>1, QuietStep, CopiesStep, AnnouncedStep, LiveStep DEF SerialInv
<1>5. MountsOnce' /\ CopiesReadable'
  BY <1>1, MountsStep, ReadableStep DEF SerialInv
<1> QED
  BY <1>2, <1>3, <1>4, <1>5 DEF SerialInv, TypeInv

\* Processes that end or appear, and the daemon that goes down and comes up again: no
\* request moves, and no command begins to run.
LEMMA SerialEnv ==
    ASSUME SerialInv, Environment \/ Startup
    PROVE  SerialInv'
<1> USE LifecycleAssumption
<1>0. TypeInv /\ TypeInv' /\ Confinement'
  BY TypeEnv, ConfinementEnv DEF SerialInv, TypeInv
<1>1. ASSUME NEW p \in Pids, Exit(p) \/ HostFork(p) \/ ControlKill(p)
      PROVE  SerialInv'
  <2>1. UNCHANGED <<disk, boot, thr>>
    BY <1>1 DEF Exit, HostFork, ControlKill
  <2>2. /\ \A q \in Pids : pst'[q] \in {"user", "held"} => pst'[q] = pst[q] /\ own'[q] = own[q]
    BY <1>0, <1>1 DEF Exit, ExitStates, HostFork, ControlKill, Kill, Killed, Reap, TypeInv, TypeOK
  <2>3. OnePerContainer' /\ AtRest' /\ OnlyUsed' /\ CopiesCurrent' /\ CopiesReadable' /\ PidAnnounced'
    BY <2>1 DEF SerialInv, OnePerContainer, StopsSession, AtRest, OnlyUsed, Calm, CopiesCurrent,
       CopiesReadable, PidAnnounced, disk, thr
  <2>4. HeldHasSession' /\ QuietContainers' /\ LiveIsRecorded'
    BY <2>1, <2>2 DEF SerialInv, HeldHasSession, QuietContainers, NoCommand, LiveIsRecorded, disk, thr
  <2>5. MountsOnce'
    BY <2>1 DEF SerialInv, MountsOnce, MountHolders, disk, boot, thr
  <2> QED
    BY <1>0, <2>3, <2>4, <2>5 DEF SerialInv, TypeInv
<1>2. CASE Crash
  <2>1. /\ UNCHANGED disk /\ crashes' = crashes + 1
        /\ \A t \in Threads : pc'[t] = "idle" /\ tgt'[t] = NoId /\ fd'[t] = "none"
        /\ \A q \in Pids : /\ pst'[q] # "held"
                           /\ pst'[q] = "user" => pst[q] = "user" /\ own'[q] = own[q]
    BY <1>2 DEF Crash, Orphaned, Zombie
  <2>2. OnePerContainer' /\ AtRest' /\ OnlyUsed' /\ CopiesCurrent' /\ CopiesReadable' /\ PidAnnounced'
    BY <2>1 DEF SerialInv, OnePerContainer, AtRest, OnlyUsed, Calm, CopiesCurrent,
       CopiesReadable, PidAnnounced, disk
  <2>3. HeldHasSession' /\ QuietContainers' /\ LiveIsRecorded'
    BY <2>1 DEF SerialInv, HeldHasSession, QuietContainers, QuietPcs, LiveIsRecorded, disk
  <2>4. MountsOnce'
    BY <1>0, <2>1 DEF MountsOnce, TypeInv, TypeOK
  <2> QED
    BY <1>0, <2>2, <2>3, <2>4 DEF SerialInv, TypeInv
<1>3. CASE Boot \/ Serve
  <2>1. UNCHANGED <<disk, procs, thr, crashes>>
    BY <1>3 DEF Boot, Serve
  <2>2. OnePerContainer' /\ AtRest' /\ OnlyUsed' /\ CopiesCurrent' /\ CopiesReadable' /\ PidAnnounced'
    BY <2>1 DEF SerialInv, OnePerContainer, StopsSession, AtRest, OnlyUsed, Calm, CopiesCurrent,
       CopiesReadable, PidAnnounced, disk, thr
  <2>3. HeldHasSession' /\ QuietContainers' /\ LiveIsRecorded' /\ MountsOnce'
    BY <2>1 DEF SerialInv, HeldHasSession, QuietContainers, NoCommand, LiveIsRecorded, MountsOnce,
       MountHolders, disk, procs, thr
  <2> QED
    BY <1>0, <2>2, <2>3 DEF SerialInv, TypeInv
<1>4. ASSUME NEW t \in Threads, NEW i \in Ids, Reconcile(t, i)
      PROVE  SerialInv'
  <2>1. /\ UNCHANGED <<disk, procs, crashes, child, fd>>
        /\ \A u \in Threads : pc[u] = "idle" /\ tgt[u] = NoId
        /\ \A u \in Threads \ {t} : pc'[u] = pc[u] /\ tgt'[u] = tgt[u]
        /\ \/ pc'[t] = "idle" /\ tgt'[t] = NoId
           \/ /\ pc'[t] = "reconcile" /\ tgt'[t] = i /\ Outdated(meta[i])
              /\ loc'[t] = Record("stopped", NoPid)
    BY <1>0, <1>4 DEF Reconcile, AllIdle, Goto, SerialInv, AtRest, TypeInv, TypeOK
  <2>2. Outdated(meta[i]) => NoCommand(i) /\ life[i] = "used"
    <3>1. \A p \in Pids : pst[p] = "user" /\ own[p] = i => meta[i].pid = p
      <4>1. \A p \in Pids : Record("running", p).pid = p
        BY DEF Record
      <4> QED
        BY <4>1 DEF SerialInv, LiveIsRecorded
    <3>2. meta[i].state = "running" => meta[i] # Absent
      BY DEF Absent
    <3> QED
      BY <3>1, <3>2 DEF Outdated, Alive, NoCommand, SerialInv, OnlyUsed
  <2>3. OnePerContainer' /\ AtRest' /\ OnlyUsed' /\ CopiesCurrent' /\ CopiesReadable' /\ PidAnnounced'
    BY <2>1, <2>2 DEF SerialInv, OnePerContainer, AtRest, OnlyUsed, Calm, CopiesCurrent,
       CopiesReadable, Readable, States, Record, PidAnnounced, disk, SavePcs
  <2>4. HeldHasSession' /\ LiveIsRecorded'
    BY <2>1 DEF SerialInv, HeldHasSession, LiveIsRecorded, disk, procs
  <2>5. QuietContainers'
    BY <2>1, <2>2 DEF QuietContainers, NoCommand, procs, QuietPcs
  <2>6. MountsOnce'
    BY <2>1 DEF SerialInv, MountsOnce, MountHolders, SessionPcs, disk
  <2> QED
    BY <1>0, <2>3, <2>4, <2>5, <2>6 DEF SerialInv, TypeInv
<1> QED
  BY <1>1, <1>2, <1>3, <1>4 DEF Environment, Startup

LEMMA SerialInvNext == SerialInv /\ [SerialNext]_vars => SerialInv'
<1> SUFFICES ASSUME SerialInv, [SerialNext]_vars PROVE SerialInv'
  OBVIOUS
<1>1. CASE SerialNext
  BY <1>1, SerialStep, SerialEnv DEF SerialNext
<1>2. CASE UNCHANGED vars
  <2>1. TypeInv' /\ Confinement'
    BY <1>2, TypeNext, ConfinementNext DEF SerialInv, TypeInv
  <2>2. OnePerContainer' /\ AtRest' /\ OnlyUsed' /\ CopiesCurrent' /\ CopiesReadable' /\ PidAnnounced'
    BY <1>2 DEF SerialInv, OnePerContainer, StopsSession, AtRest, OnlyUsed, Calm, CopiesCurrent,
       CopiesReadable, PidAnnounced, vars, disk, thr
  <2>3. HeldHasSession' /\ QuietContainers' /\ LiveIsRecorded' /\ MountsOnce'
    BY <1>2 DEF SerialInv, HeldHasSession, QuietContainers, NoCommand, LiveIsRecorded, MountsOnce,
       MountHolders, vars, disk, procs, boot, thr
  <2> QED
    BY <2>1, <2>2, <2>3 DEF SerialInv, TypeInv
<1> QED
  BY <1>1, <1>2

(***************************************************************************)
(* With one request at a time for each container the parts of SerialInv    *)
(* hold together, whatever happens to other containers, to processes and   *)
(* to the daemon meanwhile.                                                *)
(***************************************************************************)
THEOREM SerialInductive == SerialSpec => []SerialInv
BY SerialInit, SerialInvNext, PTL DEF SerialSpec

(***************************************************************************)
(* A process that runs a user's command is the one that the record of its  *)
(* container names, across crashes and restarts of the daemon: stop and    *)
(* exec reach it, and Reconcile does not take the container for stopped.   *)
(***************************************************************************)
THEOREM SerialLiveRecorded == SerialSpec => []LiveIsRecorded
<1>1. SerialInv => LiveIsRecorded
  BY DEF SerialInv
<1> QED
  BY SerialInductive, <1>1, PTL

(***************************************************************************)
(* So a container never runs its command twice.                            *)
(***************************************************************************)
THEOREM SerialOneInstance == SerialSpec => []OneInstance
<1>1. SerialInv => OneInstance
  <2>1. \A p, q \in Pids : Record("running", p) = Record("running", q) => p = q
    BY DEF Record
  <2> QED
    BY <2>1 DEF SerialInv, LiveIsRecorded, OneInstance
<1> QED
  BY SerialInductive, <1>1, PTL

(***************************************************************************)
(* No save brings back the record of a container that was deleted with     *)
(* success.                                                                *)
(***************************************************************************)
THEOREM SerialGoneStaysGone == SerialSpec => []GoneStaysGone
<1>1. SerialInv => GoneStaysGone
  BY DEF SerialInv, OnlyUsed, GoneStaysGone
<1> QED
  BY SerialInductive, <1>1, PTL

(***************************************************************************)
(* As long as the daemon has not gone down, the overlays mounted for a     *)
(* container are as many as its sessions that still have to unmount one.   *)
(***************************************************************************)
THEOREM SerialMountsExact == SerialSpec => []MountsExact
<1>1. SerialInv => MountsExact
  <2> SUFFICES ASSUME SerialInv, crashes = 0, NEW i \in Ids
               PROVE  mounts[i] = Cardinality(MountHolders(i))
    BY DEF MountsExact
  <2>1. CASE MountHolders(i) = {}
    BY <2>1, FS_EmptySet DEF SerialInv, MountsOnce
  <2>2. ASSUME NEW t \in MountHolders(i)
        PROVE  MountHolders(i) = {t}
    BY LifecycleAssumption
       DEF MountHolders, SerialInv, OnePerContainer, StopsSession, StopPcs, SessionPcs
  <2> QED
    BY <2>1, <2>2, FS_Singleton DEF SerialInv, MountsOnce
<1> QED
  BY SerialInductive, <1>1, PTL

(***************************************************************************)
(* When a stop answers, nothing of its container is left that runs or is   *)
(* about to run: the session it found waiting has lost its process, and no *)
(* other session of that container can have begun.                         *)
(***************************************************************************)
THEOREM SerialStopLeavesNothing == SerialSpec => StopLeavesNothing
<1> DEFINE A == \A t \in Threads : pc[t] = "saveStop" /\ pc'[t] = "idle" /\ daemon' = "up" =>
                    \A p \in Pids : own[p] = tgt[t] => pst[p] \notin {"held", "user"}
<1>1. ASSUME SerialInv PROVE A
  <2> SUFFICES ASSUME NEW t \in Threads, pc[t] = "saveStop", NEW p \in Pids, own[p] = tgt[t]
               PROVE  pst[p] \notin {"held", "user"}
    OBVIOUS
  <2>1. pst[p] # "user"
    BY <1>1 DEF SerialInv, QuietContainers, NoCommand, QuietPcs, Pcs, StopPcs
  <2>2. ASSUME pst[p] = "held"
        PROVE  FALSE
    <3>1. PICK u \in Threads : child[u] = p /\ pc[u] \in {"apply", "network", "ready", "release"}
      BY <1>1, <2>2 DEF SerialInv, HeldHasSession
    <3>2. tgt[u] = tgt[t] /\ tgt[t] # NoId
      BY <1>1, <3>1, LifecycleAssumption DEF SerialInv, Confinement, SessionOwnsChild, ThreadsBound
    <3> QED
      BY <1>1, <3>1, <3>2 DEF SerialInv, OnePerContainer, StopsSession, StopPcs, StoppablePcs
  <2> QED
    BY <2>1, <2>2
<1>2. SerialInv /\ [SerialNext]_vars => [A]_vars
  BY <1>1
<1>3. SerialSpec => [][A]_vars
  BY SerialInductive, <1>2, PTL DEF SerialSpec
<1> QED
  BY <1>3 DEF StopLeavesNothing
-----------------------------------------------------------------------------
(***************************************************************************)
(* One request at a time implements Container.                             *)
(***************************************************************************)
HasRecord == {i \in Ids : meta[i] # Absent}
ContainerVars == <<life, HasRecord, Commands>>

LEMMA CommandTypes ==
    /\ Commands \in [Ids -> SUBSET Pids]
    /\ Commands' \in [Ids -> SUBSET Pids]
BY DEF Commands

\* A container has one command at most: one that ends leaves none.
LEMMA CommandEnds ==
    ASSUME SerialInv, NEW x \in Pids,
           \A p \in Pids : pst'[p] = "user" => own'[p] = own[p],
           \A p \in Pids \ {x} : pst'[p] = "user" <=> pst[p] = "user",
           pst'[x] = "user" => pst[x] = "user"
    PROVE  \/ Commands' = Commands
           \/ own[x] \in Ids /\ Commands[own[x]] # {}
              /\ Commands' = [Commands EXCEPT ![own[x]] = {}]
<1>1. \A p, q \in Pids : Record("running", p) = Record("running", q) => p = q
  BY DEF Record
<1>2. \A p \in Pids : pst[p] = "user" /\ own[p] = own[x] /\ pst[x] = "user" => p = x
  BY <1>1 DEF SerialInv, LiveIsRecorded
<1>3. CASE pst'[x] = pst[x] \/ pst[x] # "user"
  <2>1. \A p \in Pids : pst'[p] = "user" <=> pst[p] = "user"
    BY <1>3
  <2>2. \A p \in Pids : pst[p] = "user" => own'[p] = own[p]
    BY <2>1
  <2> QED
    BY <2>1, <2>2 DEF Commands
<1>4. CASE pst[x] = "user" /\ pst'[x] # "user"
  <2>1. own[x] \in Ids
    BY <1>4 DEF SerialInv, Confinement, ConfinedBeforeUser, TypeOK
  <2>2. Commands[own[x]] = {x}
    BY <1>2, <1>4, <2>1 DEF Commands
  <2>3. \A i \in Ids : Commands'[i] = IF i = own[x] THEN {} ELSE Commands[i]
    BY <1>2, <1>4 DEF Commands
  <2> QED
    BY <2>1, <2>2, <2>3, CommandTypes
<1> QED
  BY <1>3, <1>4

\* What a step that touches no record and no history, and of the processes one at most,
\* does to the container.
LEMMA QuietForContainers ==
    ASSUME UNCHANGED <<meta, life>>,
           \/ Commands' = Commands
           \/ \E i \in Ids : Commands[i] # {} /\ Commands' = [Commands EXCEPT ![i] = {}]
    PROVE  [Containers!Next]_ContainerVars
BY DEF ContainerVars, HasRecord, Containers!Next, Containers!End

LEMMA ContainerInit == Init => Containers!Init
BY DEF Init, Containers!Init, HasRecord, Commands

\* The step of a thread that is no save, delete or release: kills included, it ends one
\* command at most.
LEMMA KillsOne ==
    ASSUME SerialInv, NEW t \in Threads, Step(t), ~Release(t)
    PROVE  \/ Commands' = Commands
           \/ \E i \in Ids : Commands[i] # {} /\ Commands' = [Commands EXCEPT ![i] = {}]
<1> USE LifecycleAssumption DEF SerialInv, SerialCore, TypeInv
<1>0. \A p \in Pids : pst'[p] = "user" => own'[p] = own[p] /\ pst[p] = "user"
  BY ProcessesStep
<1>1. ASSUME NEW x \in Pids, \A p \in Pids \ {x} : pst[p] = "user" => pst'[p] = "user"
      PROVE  \/ Commands' = Commands
             \/ \E i \in Ids : Commands[i] # {} /\ Commands' = [Commands EXCEPT ![i] = {}]
  BY <1>0, <1>1, CommandEnds
<1>2. ASSUME \A p \in Pids : pst[p] = "user" => pst'[p] = "user"
      PROVE  Commands' = Commands
  BY <1>0, <1>2 DEF Commands
<1>3. CASE Apply(t) \/ Network(t)
  <2>1. child[t] \in Pids
    BY <1>3 DEF Apply, Network, At, ThreadsBound, ChildPcs
  <2>2. pst' = pst \/ pst' = Killed({child[t]})
    BY <1>3 DEF Apply, Network, Kill
  <2> QED
    BY <1>1, <2>1, <2>2 DEF Killed, TypeOK
<1>4. CASE Poll(t)
  <2>1. pst' = pst \/ (loc[t].pid \in Pids /\ pst' = Killed({loc[t].pid}))
    BY <1>4 DEF Poll, Kill, Alive, TypeOK, Records, procs
  <2> QED
    BY <1>1, <1>2, <2>1 DEF Killed, TypeOK
<1>5. CASE KillAll(t)
  <2>1. \A p \in Pids : own[p] # tgt[t] /\ pst[p] = "user" => pst'[p] = "user"
    BY <1>5 DEF KillAll, Kill, Killed, Members, TypeOK
  <2>2. CASE NoCommand(tgt[t])
    BY <1>2, <2>1, <2>2 DEF NoCommand
  <2>3. ASSUME NEW x \in Pids, own[x] = tgt[t], pst[x] = "user"
        PROVE  \A p \in Pids \ {x} : pst[p] = "user" => own[p] # tgt[t]
    <3>1. \A p \in Pids : Record("running", p) = Record("running", x) => p = x
      BY DEF Record
    <3> QED
      BY <2>3, <3>1 DEF LiveIsRecorded
  <2> QED
    BY <1>1, <2>1, <2>2, <2>3 DEF NoCommand
<1>6. CASE Spawn(t) \/ Wait(t)
  BY <1>2, <1>6 DEF Spawn, Wait, Zombie, Reap, procs, TypeOK
<1>7. CASE \/ OpenConfig(t) \/ WriteConfig(t) \/ CheckStart(t) \/ CheckAttach(t)
           \/ Prepare(t) \/ Cleanup(t) \/ Final(t) \/ Unmount(t) \/ MarkStopping(t)
           \/ CleanStop(t) \/ DeleteCheck(t) \/ DeleteUnmount(t) \/ DeleteRemove(t)
  <2>1. pst' = pst
    BY <1>7 DEF OpenConfig, WriteConfig, CheckStart, CheckAttach, Prepare, Cleanup, Final,
       Unmount, MarkStopping, CleanStop, DeleteCheck, DeleteUnmount, DeleteRemove, procs
  <2> QED
    BY <1>2, <2>1
<1> QED
  BY <1>3, <1>4, <1>5, <1>6, <1>7 DEF Step

\* Requests and their steps.
LEMMA ContainerStep ==
    ASSUME SerialInv, NEW t \in Threads, SerialBegin(t) \/ Step(t)
    PROVE  [Containers!Next]_ContainerVars
<1> USE LifecycleAssumption DEF SerialInv, SerialCore, TypeInv
<1> DEFINE i == tgt[t]
<1>1. CASE SerialBegin(t)
  <2>1. /\ UNCHANGED <<meta, procs>> /\ tgt'[t] \in Ids
        /\ \/ life' = life
           \/ life[tgt'[t]] = "fresh" /\ life' = [life EXCEPT ![tgt'[t]] = "used"]
    BY <1>1, BeginMove
  <2> QED
    BY <2>1 DEF ContainerVars, HasRecord, Commands, procs, Containers!Next, Containers!Create
<1>2. CASE Release(t)
  <2> DEFINE p == child[t]
  <2>1. i \in Ids /\ p \in Pids /\ own[p] = i
    BY <1>2 DEF Release, At, ThreadsBound, ChildPcs, Confinement, SessionOwnsChild
  <2>2. NoCommand(i) /\ meta[i] # Absent
    <3>1. NoCommand(i) /\ meta[i] = Record("running", p)
      BY <1>2 DEF Release, At, QuietContainers, QuietPcs, Pcs, SessionPcs, PidAnnounced
    <3>2. Record("running", p).state # Absent.state
      BY DEF Record, Absent
    <3> QED
      BY <3>1, <3>2
  <2>3. UNCHANGED <<meta, life, own>>
    BY <1>2 DEF Release, disk
  <2>4. CASE pst[p] = "held"
    <3>1. i \in HasRecord /\ Commands[i] = {} /\ \A j \in Ids : p \notin Commands[j]
      BY <2>1, <2>2, <2>4 DEF HasRecord, Commands, NoCommand
    <3>2. \A j \in Ids : Commands'[j] = IF j = i THEN {p} ELSE Commands[j]
      BY <1>2, <2>1, <2>2, <2>3, <2>4 DEF Release, Commands, NoCommand, TypeOK
    <3>3. Commands' = [Commands EXCEPT ![i] = {p}]
      BY <2>1, <3>2, CommandTypes
    <3>4. HasRecord' = HasRecord
      BY <2>3 DEF HasRecord
    <3>5. Containers!Start(i, p)
      BY <2>3, <3>1, <3>3, <3>4 DEF HasRecord, Containers!Start
    <3> QED
      BY <2>1, <3>5 DEF Containers!Next
  <2>5. CASE pst[p] # "held"
    BY <1>2, <2>3, <2>5, QuietForContainers DEF Release, Commands
  <2> QED
    BY <2>4, <2>5
<1>3. CASE Step(t) /\ ~Release(t) /\ pc[t] \notin SavePcs \cup {"deleteRemove"}
  BY <1>3, KillsOne, RecordsWritten, QuietForContainers
<1>4. CASE Step(t) /\ ~Release(t) /\ pc[t] \in SavePcs \cup {"deleteRemove"}
  <2>1. i \in Ids /\ life[i] = "used"
    BY <1>4, OwnMove DEF OnlyUsed, Calm, SavePcs
  <2>2. Commands[i] = {}
    BY <1>4, <2>1, SavesAreQuiet DEF QuietContainers, NoCommand, Commands
  <2>3. \A j \in Ids \ {i} : (j \in HasRecord' <=> j \in HasRecord) /\ life'[j] = life[j]
    BY <1>4, RecordsWritten DEF HasRecord
  <2>4. Commands' = Commands
    BY <1>4 DEF Step, OpenConfig, WriteConfig, DeleteRemove, procs, Commands, SavePcs, At,
       CheckStart, CheckAttach, Prepare, Spawn, Apply, Network, Wait, Cleanup, Final, Unmount,
       MarkStopping, KillAll, Poll, CleanStop, DeleteCheck, DeleteUnmount
  <2>5. CASE pc[t] \in SavePcs
    <3>0. loc[t] # Absent /\ Garbled # Absent /\ Empty # Absent
      BY <2>5 DEF CopiesReadable, Readable, States, Absent, Garbled, Empty, SavePcs
    <3>1. OpenConfig(t) \/ WriteConfig(t)
      BY <1>4, <2>5 DEF Step, SavePcs, At, CheckStart, CheckAttach, Prepare, Spawn, Apply,
         Network, Wait, Cleanup, Final, Unmount, MarkStopping, KillAll, Poll, CleanStop, DeleteCheck,
         DeleteUnmount, DeleteRemove
    <3>2. life' = life
      BY <3>1 DEF OpenConfig, WriteConfig
    <3>3. fd[t] = "open" \/ OpenConfig(t)
      BY <3>1 DEF WriteConfig, AtRest
    <3>4. meta'[i] # Absent
      BY <2>1, <3>0, <3>1, <3>3 DEF OpenConfig, WriteConfig, Written, TypeOK
    <3> QED
      BY <2>1, <2>2, <2>3, <2>4, <3>2, <3>4 DEF ContainerVars, HasRecord, Containers!Next, Containers!Save
  <2>6. CASE pc[t] = "deleteRemove"
    <3>1. DeleteRemove(t)
      BY <1>4, <2>6 DEF Step, OpenConfig, WriteConfig, SavePcs, At, CheckStart, CheckAttach, Prepare,
         Spawn, Apply, Network, Wait, Cleanup, Final, Unmount, MarkStopping, KillAll, Poll, CleanStop,
         DeleteCheck, DeleteUnmount
    <3>2. HasRecord' = HasRecord \ {i}
      BY <2>1, <3>1 DEF DeleteRemove, HasRecord, TypeOK
    <3>3. Containers!Delete(i)
      BY <2>1, <2>2, <2>4, <3>1, <3>2 DEF HasRecord, DeleteRemove, Containers!Delete
    <3>4. \E j \in Ids : Containers!Delete(j)
      BY <2>1, <3>3 DEF Containers!Delete, DeleteRemove
    <3> QED
      BY <3>4 DEF Containers!Next
  <2> QED
    BY <1>4, <2>5, <2>6
<1> QED
  BY <1>1, <1>2, <1>3, <1>4

\* Processes that end by themselves or by a late kill, and the daemon that goes down
\* and comes up.
LEMMA ContainerEnv ==
    ASSUME SerialInv, Environment \/ Startup
    PROVE  [Containers!Next]_ContainerVars
<1> USE LifecycleAssumption
<1>1. ASSUME NEW x \in Pids, Exit(x) \/ HostFork(x) \/ ControlKill(x)
      PROVE  [Containers!Next]_ContainerVars
  <2>1. UNCHANGED <<meta, life>>
    BY <1>1 DEF Exit, HostFork, ControlKill, disk
  <2>2. /\ \A p \in Pids : pst'[p] = "user" => own'[p] = own[p] /\ pst[p] = "user"
        /\ \A p \in Pids \ {x} : pst'[p] = pst[p]
    BY <1>1 DEF Exit, ExitStates, HostFork, ControlKill, Kill, Killed, Reap, SerialInv, TypeOK
  <2>3. \/ Commands' = Commands
        \/ own[x] \in Ids /\ Commands[own[x]] # {}
           /\ Commands' = [Commands EXCEPT ![own[x]] = {}]
    BY <2>2, CommandEnds
  <2> QED
    BY <2>1, <2>3, QuietForContainers
<1>2. CASE Crash \/ Startup
  <2>1. UNCHANGED <<meta, life>>
    BY <1>2 DEF Crash, Startup, Boot, Serve, Reconcile, disk
  <2>2. \A p \in Pids : /\ pst'[p] = "user" <=> pst[p] = "user"
                        /\ pst[p] = "user" => own'[p] = own[p]
    BY <1>2 DEF Crash, Zombie, Orphaned, Startup, Boot, Serve, Reconcile, procs
  <2>3. Commands' = Commands
    BY <2>2 DEF Commands
  <2> QED
    BY <2>1, <2>3, QuietForContainers
<1> QED
  BY <1>1, <1>2 DEF Environment

LEMMA ContainerNext ==
    SerialInv /\ [SerialNext]_vars => [Containers!Next]_ContainerVars
<1>1. UNCHANGED vars => UNCHANGED ContainerVars
  BY DEF vars, disk, procs, ContainerVars, HasRecord, Commands
<1> QED
  BY <1>1, ContainerStep, ContainerEnv DEF SerialNext

(***************************************************************************)
(* For whoever keeps to one request at a time for a container, the daemon  *)
(* implements Container: one command at once, deleted only while it does   *)
(* not run, and never back, across crashes and reused process ids.         *)
(***************************************************************************)
THEOREM SerialImplementation == SerialSpec => ImplementsContainer
<1>1. SerialInv /\ [SerialNext]_vars =>
         [Containers!Next]_<<life, {i \in Ids : meta[i] # Absent}, Commands>>
  BY ContainerNext DEF ContainerVars, HasRecord
<1> QED
  BY ContainerInit, SerialInductive, <1>1, PTL
     DEF SerialSpec, ImplementsContainer, Containers!Spec
=============================================================================
