----------------------------- MODULE EmbeddedDNS -----------------------------
(***************************************************************************)
(* The DNS server of a network: internal/network/dns.go, with the places   *)
(* that start it (manager.go:204, namespaces.go:64-68, engine.go:52-57)    *)
(* and that take it down (down.go:43-58, delete.go:9-25).                  *)
(*                                                                         *)
(* A server is a process of its own, detached from the daemon and found    *)
(* again by a pid file per gateway.  It can bind to the gateway's address  *)
(* only when SetupNamedBridge has put that address on the bridge.  Nothing *)
(* orders the steps of two requests, and the mutex of dns.go guards the    *)
(* table of names, not the pid file.                                       *)
(*                                                                         *)
(* A process that is sent SIGKILL gives up its address at once: a server   *)
(* that is forked later has to be executed before it binds.                *)
(***************************************************************************)
EXTENDS Naturals, FiniteSets

CONSTANTS
    Gateways,   \* addresses of the networks' bridges
    Threads,    \* goroutines of the daemon
    Pids,       \* process ids
    Reusable,   \* those the kernel hands out again although a pid file names them
    NoPid,      \* a pid file that is missing, or a thread without a process
    NoGw,       \* a thread or a process without a gateway
    MaxCrashes  \* bound: how often the daemon is restarted

ASSUME DNSAssumption ==
    /\ NoPid \notin Pids
    /\ NoGw \notin Gateways
    /\ Reusable \subseteq Pids
    /\ MaxCrashes \in Nat

VARIABLES
    bridge,   \* gateways whose address is on a bridge
    pidfile,  \* <gateway>.pid
    pst,      \* process table: the servers
    gw,       \* the gateway a server was started for
    kids,     \* servers whose parent is the daemon that runs now
    crashes,  \* how often the daemon was restarted
    due,      \* history: StartEmbeddedDNS returned, and no teardown began since
    pc,       \* next step of each thread
    tgt,      \* the gateway it works on
    early,    \* the launch it makes comes before SetupNamedBridge
    seen      \* the pid it read from the pid file or started

host == <<bridge, pidfile>>
procs == <<pst, gw, kids>>
thr == <<pc, tgt, early, seen>>
vars == <<host, procs, crashes, due, thr>>

\* kill(pid, 0) == nil, a zombie included
Alive(p) == p # NoPid /\ pst[p] \in {"starting", "serving", "zombie"}

\* What a pid file says, or a thread has read in it.
Named(p) == \/ \E g \in Gateways : pidfile[g] = p
            \/ \E t \in Threads : seen[t] = p

\* The pid of a process that is gone is handed out again.
Unused(p) == \/ pst[p] = "free"
             \/ pst[p] = "gone" /\ (p \in Reusable \/ ~Named(p))

Serves(p, g) == pst[p] = "serving" /\ gw[p] = g
Served(g) == \E p \in Pids : Serves(p, g)

Goto(t, l) == pc' = [pc EXCEPT ![t] = l]

Finish(t) == /\ Goto(t, "idle")
             /\ tgt' = [tgt EXCEPT ![t] = NoGw]
             /\ early' = [early EXCEPT ![t] = FALSE]
             /\ seen' = [seen EXCEPT ![t] = NoPid]

\* what follows StartEmbeddedDNS: the bridge, for the first launch of a
\* session, or the rest of the request
Return(t) ==
    \/ /\ early[t]
       /\ Goto(t, "bridge")
       /\ early' = [early EXCEPT ![t] = FALSE]
       /\ seen' = [seen EXCEPT ![t] = NoPid]
       /\ UNCHANGED tgt
    \/ ~early[t] /\ Finish(t)

Init ==
    /\ bridge = {}
    /\ pidfile = [g \in Gateways |-> NoPid]
    /\ pst = [p \in Pids |-> "free"]
    /\ gw = [p \in Pids |-> NoGw]
    /\ kids = {} /\ due = {}
    /\ crashes = 0
    /\ pc = [t \in Threads |-> "idle"]
    /\ tgt = [t \in Threads |-> NoGw]
    /\ early = [t \in Threads |-> FALSE]
    /\ seen = [t \in Threads |-> NoPid]

-----------------------------------------------------------------------------
Begin(t, g, l) ==
    /\ pc[t] = "idle"
    /\ Goto(t, l)
    /\ tgt' = [tgt EXCEPT ![t] = g]
    /\ UNCHANGED <<host, procs, crashes, seen>>

\* StartContainer launches the server, then RunParent the bridge and the server.
StartContainer(t, g) ==
    Begin(t, g, "check") /\ early' = [early EXCEPT ![t] = TRUE] /\ UNCHANGED due

\* Fault: the server is launched before the bridge.
ServerFirst(t, g) == Begin(t, g, "check") /\ UNCHANGED <<early, due>>

\* StartAttached, and one network of Engine.Up: the bridge, then the server.
BridgeFirst(t, g) == Begin(t, g, "bridge") /\ UNCHANGED <<early, due>>

\* Engine.Down for one network, and DELETE /networks/{name}
ComposeDown(t, g)   == Begin(t, g, "read") /\ due' = due \ {g} /\ UNCHANGED early
NetworkDelete(t, g) == Begin(t, g, "unbridge") /\ due' = due \ {g} /\ UNCHANGED early

-----------------------------------------------------------------------------
\* SetupNamedBridge; its error, which comes before or after the address is on the
\* bridge, ends the request
SetupNamedBridge(t) ==
    /\ pc[t] = "bridge"
    /\ \/ /\ bridge' = bridge \cup {tgt[t]}
          /\ Goto(t, "check")
          /\ UNCHANGED <<tgt, early, seen>>
       \/ Finish(t) /\ bridge' \in {bridge, bridge \cup {tgt[t]}}
    /\ UNCHANGED <<pidfile, procs, crashes, due>>

\* os.WriteFile truncates the pid file first: a reader may find no number in it.
BeingWritten(t) == \E u \in Threads \ {t} : pc[u] = "record" /\ tgt[u] = tgt[t]

\* StartEmbeddedDNS, its test: a process has the recorded pid
CheckPid(t) ==
    /\ pc[t] = "check"
    /\ \/ /\ Alive(pidfile[tgt[t]])
          /\ due' = due \cup {tgt[t]}
          /\ Return(t)
       \/ /\ ~Alive(pidfile[tgt[t]]) \/ BeingWritten(t)
          /\ Goto(t, "spawn")
          /\ UNCHANGED <<due, tgt, early, seen>>
    /\ UNCHANGED <<host, procs, crashes>>

\* cmd.Start, whose failure is not reported
Spawn(t) ==
    /\ pc[t] = "spawn"
    /\ \/ Return(t) /\ UNCHANGED procs
       \/ \E p \in Pids :
             /\ Unused(p)
             /\ pst' = [pst EXCEPT ![p] = "starting"]
             /\ gw' = [gw EXCEPT ![p] = tgt[t]]
             /\ kids' = kids \cup {p}
             /\ seen' = [seen EXCEPT ![t] = p]
             /\ Goto(t, "record")
             /\ UNCHANGED <<tgt, early>>
    /\ UNCHANGED <<host, crashes, due>>

\* Fault: the pid is read after Release, which forgets it.
RecordReleased(t) ==
    /\ pc[t] = "record"
    /\ pidfile' = [pidfile EXCEPT ![tgt[t]] = "released"]
    /\ due' = due \cup {tgt[t]}
    /\ Return(t)
    /\ UNCHANGED <<bridge, procs, crashes>>

\* the pid file is written and the process released: nobody will wait for it
Record(t) ==
    /\ pc[t] = "record"
    /\ pidfile' = [pidfile EXCEPT ![tgt[t]] = seen[t]]
    /\ due' = due \cup {tgt[t]}
    /\ Return(t)
    /\ UNCHANGED <<bridge, procs, crashes>>

-----------------------------------------------------------------------------
\* A server that ends stays a zombie while the daemon that started it runs.
Ended(p) ==
    /\ pst' = [pst EXCEPT ![p] = IF p \in kids THEN "zombie" ELSE "gone"]
    /\ gw' = IF p \in kids THEN gw ELSE [gw EXCEPT ![p] = NoGw]
    /\ UNCHANGED kids

\* RunDNSDaemon: ListenAndServe binds to gateway:53, or the process exits.
RunDNSDaemon(p) ==
    /\ pst[p] = "starting"
    /\ \/ /\ gw[p] \in bridge /\ ~Served(gw[p])
          /\ pst' = [pst EXCEPT ![p] = "serving"]
          /\ UNCHANGED <<gw, kids>>
       \/ /\ gw[p] \notin bridge \/ Served(gw[p])
          /\ Ended(p)
    /\ UNCHANGED <<host, crashes, due, thr>>

-----------------------------------------------------------------------------
\* Down: the pid is read ...
ReadPid(t) ==
    /\ pc[t] = "read"
    /\ \/ /\ pidfile[tgt[t]] # NoPid
          /\ seen' = [seen EXCEPT ![t] = pidfile[tgt[t]]]
          /\ Goto(t, "kill")
       \/ pidfile[tgt[t]] = NoPid /\ Goto(t, "unbridge") /\ UNCHANGED seen
       \/ BeingWritten(t) /\ Goto(t, "unlink") /\ UNCHANGED seen
    /\ UNCHANGED <<host, procs, crashes, due, tgt, early>>

\* ... whoever has it is killed ...
KillPid(t) ==
    /\ pc[t] = "kill"
    /\ IF pst[seen[t]] \in {"starting", "serving"} THEN Ended(seen[t]) ELSE UNCHANGED procs
    /\ Goto(t, "unlink")
    /\ UNCHANGED <<host, crashes, due, tgt, early, seen>>

\* ... the file is removed ...
Unlink(t) ==
    /\ pc[t] = "unlink"
    /\ pidfile' = [pidfile EXCEPT ![tgt[t]] = NoPid]
    /\ Goto(t, "unbridge")
    /\ UNCHANGED <<bridge, procs, crashes, due, tgt, early, seen>>

\* ... and the bridge; this last step is all that DeleteBridge does here.
DeleteBridge(t) ==
    /\ pc[t] = "unbridge"
    /\ bridge' = bridge \ {tgt[t]}
    /\ Finish(t)
    /\ UNCHANGED <<pidfile, procs, crashes, due>>

-----------------------------------------------------------------------------
\* The daemon is restarted: its threads are lost, init reaps its zombies and
\* adopts the servers.
Restart ==
    /\ crashes < MaxCrashes
    /\ crashes' = crashes + 1
    /\ pst' = [p \in Pids |-> IF pst[p] = "zombie" THEN "gone" ELSE pst[p]]
    /\ gw' = [p \in Pids |-> IF pst[p] = "zombie" THEN NoGw ELSE gw[p]]
    /\ kids' = {}
    /\ pc' = [t \in Threads |-> "idle"]
    /\ tgt' = [t \in Threads |-> NoGw]
    /\ early' = [t \in Threads |-> FALSE]
    /\ seen' = [t \in Threads |-> NoPid]
    /\ UNCHANGED <<host, due>>

Step(t) ==
    \/ SetupNamedBridge(t) \/ CheckPid(t) \/ Spawn(t) \/ Record(t)
    \/ ReadPid(t) \/ KillPid(t) \/ Unlink(t) \/ DeleteBridge(t)

Environment == Restart \/ \E p \in Pids : RunDNSDaemon(p)

Next ==
    \/ \E t \in Threads :
          \/ Step(t)
          \/ \E g \in Gateways : \/ StartContainer(t, g) \/ BridgeFirst(t, g)
                                 \/ ComposeDown(t, g) \/ NetworkDelete(t, g)
    \/ Environment

Spec == Init /\ [][Next]_vars

-----------------------------------------------------------------------------
(***************************************************************************)
(* "Careful": nothing launches a server where there is no bridge, as the   *)
(* first StartContainer on a network does, and a network is torn down only *)
(* while nothing else happens to it.  Sessions and compose files still     *)
(* launch its server concurrently, and the daemon may be restarted at any  *)
(* step.                                                                   *)
(***************************************************************************)
TeardownPcs == {"read", "kill", "unlink", "unbridge"}

Untouched(g) == \A u \in Threads : tgt[u] # g
NotTornDown(g) == \A u \in Threads : tgt[u] = g => pc[u] \notin TeardownPcs
NoneStarting(g) == \A p \in Pids : pst[p] = "starting" => gw[p] # g

CarefulBegin(t, g) ==
    \/ NotTornDown(g) /\ BridgeFirst(t, g)
    \/ NotTornDown(g) /\ g \in bridge /\ StartContainer(t, g)
    \/ Untouched(g) /\ NoneStarting(g) /\ (ComposeDown(t, g) \/ NetworkDelete(t, g))

CarefulNext ==
    \/ \E t \in Threads : Step(t) \/ \E g \in Gateways : CarefulBegin(t, g)
    \/ Environment

CarefulSpec == Init /\ [][CarefulNext]_vars

-----------------------------------------------------------------------------
PStates == {"free", "starting", "serving", "zombie", "gone"}
Pcs == {"idle", "bridge", "check", "spawn", "record"} \cup TeardownPcs

\* The variables have their types.
TypeOK ==
    /\ bridge \subseteq Gateways
    /\ pidfile \in [Gateways -> Pids \cup {NoPid}]
    /\ pst \in [Pids -> PStates]
    /\ gw \in [Pids -> Gateways \cup {NoGw}]
    /\ kids \subseteq Pids
    /\ crashes \in Nat
    /\ due \subseteq Gateways
    /\ pc \in [Threads -> Pcs]
    /\ tgt \in [Threads -> Gateways \cup {NoGw}]
    /\ early \in [Threads -> BOOLEAN]
    /\ seen \in [Threads -> Pids \cup {NoPid}]

\* StartEmbeddedDNS promises a process that listens on the gateway (dns.go:79):
\* when it returned and every server that was started has bound or failed to,
\* one serves the gateway, until the network is torn down.  This is under
\* CarefulSpec, and with Reusable = {}: nothing in the code keeps a pid that a file
\* names from being another process's.
DueIsServed == \A g \in due : NoneStarting(g) => Served(g)

\* Not so when Reusable has a pid: Down stops no other network's server.  The pid it
\* read may have been given to one since, and is killed (down.go:43-48).
DownKillsItsOwn ==
    \A t \in Threads : pc[t] = "kill" /\ Alive(seen[t]) => gw[seen[t]] = tgt[t]

\* When the test of StartEmbeddedDNS succeeds, the process is up and healthy, as
\* the comment beside it says (dns.go:84-88), or at least on its way.
HealthyIsServing ==
    [][\A t \in Threads : CheckPid(t) /\ pc'[t] # "spawn" =>
          \E p \in Pids : gw[p] = tgt[t] /\ pst[p] \in {"starting", "serving"}]_vars
-----------------------------------------------------------------------------
(***************************************************************************)
(* What makes DueIsServed inductive under CarefulSpec.                     *)
(***************************************************************************)
\* A thread that works knows its gateway, and launches where there is a bridge.
ThreadsBound ==
    \A t \in Threads :
        /\ pc[t] # "idle" => tgt[t] \in Gateways
        /\ pc[t] \in {"check", "spawn", "record"} => tgt[t] \in bridge

SoleTeardown ==
    \A t \in Threads : pc[t] \in TeardownPcs =>
        \A u \in Threads \ {t} : tgt[u] # tgt[t]

\* A server is of one gateway, and starts only where there is a bridge to stay.
Starters ==
    \A p \in Pids :
        /\ pst[p] \in {"starting", "serving", "zombie"} => gw[p] \in Gateways
        /\ pst[p] = "starting" => gw[p] \in bridge /\ NotTornDown(gw[p])

\* The process a thread has started and not yet recorded.
Launched ==
    \A t \in Threads : pc[t] = "record" =>
        /\ seen[t] \in kids
        /\ gw[seen[t]] = tgt[t]
        /\ pst[seen[t]] \in {"starting", "serving", "zombie"}
        /\ pst[seen[t]] = "zombie" => Served(tgt[t])

\* The process a pid file names is gone, or was started for that gateway; it is a
\* zombie only when another one serves, or when Down has just killed it.
Recorded ==
    \A g \in Gateways : pidfile[g] # NoPid =>
        \/ pst[pidfile[g]] = "gone"
        \/ /\ gw[pidfile[g]] = g
           /\ pst[pidfile[g]] \in {"starting", "serving", "zombie"}
           /\ pst[pidfile[g]] = "zombie" =>
                  Served(g) \/ \E t \in Threads : tgt[t] = g /\ pc[t] = "unlink"

\* What Down has read is what the file says.
Reader ==
    \A t \in Threads : pc[t] = "kill" =>
        seen[t] = pidfile[tgt[t]] /\ seen[t] # NoPid

DueReady ==
    \A g \in due : /\ g \in bridge
                   /\ NotTornDown(g)
                   /\ Served(g) \/ ~NoneStarting(g)

IndInv == /\ TypeOK /\ ThreadsBound /\ SoleTeardown /\ Starters
          /\ Launched /\ Recorded /\ Reader /\ DueReady
=============================================================================
