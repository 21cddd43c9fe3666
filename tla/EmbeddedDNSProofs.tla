-------------------------- MODULE EmbeddedDNSProofs --------------------------
(***************************************************************************)
(* Proofs about EmbeddedDNS, for any number of gateways, requests, servers *)
(* and restarts of the daemon: what its careful use keeps as long as the   *)
(* kernel does not hand out a process id that a pid file names, and the    *)
(* types for any use.                                                      *)
(***************************************************************************)
EXTENDS EmbeddedDNS, TLAPS

LEMMA StartsSound == Init => IndInv
BY DNSAssumption
   DEF Init, IndInv, TypeOK, PStates, Pcs, TeardownPcs, ThreadsBound, SoleTeardown, Starters,
       Launched, Recorded, Reader, DueReady

\* A request begins.
LEMMA BeginKeeps ==
    ASSUME IndInv, NEW t \in Threads, NEW g \in Gateways, CarefulBegin(t, g)
    PROVE  IndInv'
<1> USE DNSAssumption DEF IndInv, Begin, Goto, host, procs, TypeOK, TeardownPcs
<1>1. CASE NotTornDown(g) /\ BridgeFirst(t, g)
  <2> USE <1>1 DEF BridgeFirst, NotTornDown
  <2>1. TypeOK'
    BY DEF Pcs
  <2>2. ThreadsBound' /\ SoleTeardown'
    BY DEF ThreadsBound, SoleTeardown
  <2>3. Starters'
    BY DEF Starters
  <2>4. Launched'
    BY DEF Launched, Served, Serves
  <2>5. Recorded'
    BY DEF Recorded, Served, Serves
  <2>6. Reader' /\ DueReady'
    BY DEF Reader, DueReady, Served, Serves, NoneStarting
  <2> QED
    BY <2>1, <2>2, <2>3, <2>4, <2>5, <2>6
<1>2. CASE Untouched(g) /\ NoneStarting(g) /\ (ComposeDown(t, g) \/ NetworkDelete(t, g))
  <2> USE <1>2 DEF ComposeDown, NetworkDelete, Untouched
  <2>1. TypeOK'
    BY DEF Pcs
  <2>2. ThreadsBound' /\ SoleTeardown'
    BY DEF ThreadsBound, SoleTeardown
  <2>3. Starters'
    BY DEF Starters, NotTornDown, NoneStarting
  <2>4. Launched'
    BY DEF Launched, Served, Serves
  <2>5. Recorded'
    BY DEF Recorded, Served, Serves
  <2>6. Reader' /\ DueReady'
    BY DEF Reader, DueReady, Served, Serves, NoneStarting, NotTornDown
  <2> QED
    BY <2>1, <2>2, <2>3, <2>4, <2>5, <2>6
<1>3. CASE NotTornDown(g) /\ g \in bridge /\ StartContainer(t, g)
  <2> USE <1>3 DEF StartContainer, NotTornDown
  <2>1. TypeOK'
    BY DEF Pcs
  <2>2. ThreadsBound' /\ SoleTeardown'
    BY DEF ThreadsBound, SoleTeardown
  <2>3. Starters'
    BY DEF Starters
  <2>4. Launched'
    BY DEF Launched, Served, Serves
  <2>5. Recorded'
    BY DEF Recorded, Served, Serves
  <2>6. Reader' /\ DueReady'
    BY DEF Reader, DueReady, Served, Serves, NoneStarting
  <2> QED
    BY <2>1, <2>2, <2>3, <2>4, <2>5, <2>6
<1> QED
  BY <1>1, <1>2, <1>3 DEF CarefulBegin

\* What follows a launch leaves the thread's variables in their types.
LEMMA ReturnTypes ==
    ASSUME TypeOK, NEW t \in Threads, Return(t)
    PROVE  /\ pc' \in [Threads -> Pcs]
           /\ tgt' \in [Threads -> Gateways \cup {NoGw}]
           /\ early' \in [Threads -> BOOLEAN]
           /\ seen' \in [Threads -> Pids \cup {NoPid}]
<1>1. pc' \in [Threads -> Pcs]
  BY DEF TypeOK, Return, Finish, Goto, Pcs
<1>2. tgt' \in [Threads -> Gateways \cup {NoGw}]
  BY DEF TypeOK, Return, Finish
<1>3. early' \in [Threads -> BOOLEAN]
  BY DEF TypeOK, Return, Finish
<1>4. seen' \in [Threads -> Pids \cup {NoPid}]
  BY DEF TypeOK, Return, Finish
<1> QED
  BY <1>1, <1>2, <1>3, <1>4

\* A launch, whether the process starts or not, keeps the types.
LEMMA SpawnTypes ==
    ASSUME TypeOK, NEW t \in Threads, tgt[t] \in Gateways, Spawn(t)
    PROVE  TypeOK'
<1>0. UNCHANGED <<bridge, pidfile, crashes, due>>
  BY DEF Spawn, host
<1>1. CASE Return(t) /\ UNCHANGED procs
  <2>1. UNCHANGED <<pst, gw, kids>>
    BY <1>1 DEF procs
  <2> QED
    BY <1>0, <1>1, <2>1, ReturnTypes DEF TypeOK
<1>2. CASE ~(Return(t) /\ UNCHANGED procs)
  <2>1. PICK p \in Pids : /\ pst' = [pst EXCEPT ![p] = "starting"]
                          /\ gw' = [gw EXCEPT ![p] = tgt[t]]
                          /\ kids' = kids \cup {p}
                          /\ seen' = [seen EXCEPT ![t] = p]
                          /\ Goto(t, "record")
                          /\ UNCHANGED <<tgt, early>>
    BY <1>2 DEF Spawn
  <2>2. pst' \in [Pids -> PStates] /\ gw' \in [Pids -> Gateways \cup {NoGw}] /\ kids' \subseteq Pids
    BY <2>1 DEF TypeOK, PStates
  <2>3. pc' \in [Threads -> Pcs] /\ seen' \in [Threads -> Pids \cup {NoPid}]
    BY <2>1 DEF TypeOK, Pcs, Goto
  <2> QED
    BY <1>0, <2>1, <2>2, <2>3 DEF TypeOK
<1> QED
  BY <1>1, <1>2

\* The steps of a launch.
LEMMA LaunchKeeps ==
    ASSUME IndInv, Reusable = {}, NEW t \in Threads,
           SetupNamedBridge(t) \/ CheckPid(t) \/ Spawn(t) \/ Record(t)
    PROVE  IndInv'
<1> USE DNSAssumption DEF IndInv, Goto, Finish, Return, host, procs, TypeOK, TeardownPcs
<1>1. CASE SetupNamedBridge(t)
  <2> USE <1>1 DEF SetupNamedBridge
  <2>1. TypeOK'
    BY DEF Pcs, ThreadsBound
  <2>2. ThreadsBound' /\ SoleTeardown'
    BY DEF ThreadsBound, SoleTeardown
  <2>3. Starters'
    BY DEF Starters, NotTornDown
  <2>4. Launched'
    BY DEF Launched, Served, Serves
  <2>5. Recorded'
    BY DEF Recorded, Served, Serves
  <2>6. Reader' /\ DueReady'
    BY DEF Reader, DueReady, Served, Serves, NoneStarting, NotTornDown
  <2> QED
    BY <2>1, <2>2, <2>3, <2>4, <2>5, <2>6
<1>2. CASE CheckPid(t)
  <2> USE <1>2 DEF CheckPid
  <2>0. NotTornDown(tgt[t]) /\ tgt[t] \in bridge /\ tgt[t] \in Gateways
    BY DEF SoleTeardown, NotTornDown, ThreadsBound
  <2>1. TypeOK'
    BY <2>0 DEF Pcs
  <2>2. ThreadsBound' /\ SoleTeardown'
    BY DEF ThreadsBound, SoleTeardown
  <2>3. Starters'
    BY DEF Starters, NotTornDown
  <2>4. Launched'
    BY DEF Launched, Served, Serves
  <2>5. Recorded'
    BY DEF Recorded, Served, Serves
  <2>6. Reader'
    BY DEF Reader
  <2>7. Alive(pidfile[tgt[t]]) => Served(tgt[t]) \/ ~NoneStarting(tgt[t])
    BY <2>0 DEF Alive, Recorded, Served, Serves, NoneStarting, NotTornDown
  <2>8. DueReady'
    BY <2>0, <2>7 DEF DueReady, Served, Serves, NoneStarting, NotTornDown
  <2> QED
    BY <2>1, <2>2, <2>3, <2>4, <2>5, <2>6, <2>8
<1>3. CASE Spawn(t)
  <2> USE <1>3 DEF Spawn, Unused, Named
  <2>0. NotTornDown(tgt[t]) /\ tgt[t] \in bridge /\ tgt[t] \in Gateways
    BY DEF SoleTeardown, NotTornDown, ThreadsBound
  <2>1. TypeOK'
    BY <2>0, <1>3, SpawnTypes
  <2>2. ThreadsBound' /\ SoleTeardown'
    BY DEF ThreadsBound, SoleTeardown
  <2>3. Starters'
    BY <2>0 DEF Starters, NotTornDown
  <2>9. \A g \in Gateways : Served(g) => Served(g)'
    BY DEF Served, Serves
  <2>4. Launched'
    BY <2>9 DEF Launched, ThreadsBound
  <2>5. Recorded'
    BY <2>9 DEF Recorded
  <2>6. Reader'
    BY DEF Reader
  <2>8. DueReady'
    BY <2>0, <2>9 DEF DueReady, NoneStarting, NotTornDown
  <2> QED
    BY <2>1, <2>2, <2>3, <2>4, <2>5, <2>6, <2>8
<1>4. CASE Record(t)
  <2> USE <1>4 DEF Record
  <2>0. NotTornDown(tgt[t]) /\ tgt[t] \in bridge /\ tgt[t] \in Gateways
    BY DEF SoleTeardown, NotTornDown, ThreadsBound
  <2>9. seen[t] \in Pids /\ seen[t] # NoPid /\ (Served(tgt[t]) \/ ~NoneStarting(tgt[t]))
    BY DEF Launched, Served, Serves, NoneStarting
  <2>1. TypeOK'
    BY <2>0, <2>9 DEF Pcs
  <2>2. ThreadsBound' /\ SoleTeardown'
    BY DEF ThreadsBound, SoleTeardown
  <2>3. Starters'
    BY DEF Starters, NotTornDown
  <2>4. Launched'
    BY DEF Launched, Served, Serves
  <2>5. Recorded'
    BY <2>9 DEF Recorded, Launched, Served, Serves
  <2>6. Reader'
    BY <2>0 DEF Reader, NotTornDown
  <2>8. DueReady'
    BY <2>0, <2>9 DEF DueReady, Served, Serves, NoneStarting, NotTornDown
  <2> QED
    BY <2>1, <2>2, <2>3, <2>4, <2>5, <2>6, <2>8
<1> QED
  BY <1>1, <1>2, <1>3, <1>4

\* The steps of a teardown.
LEMMA TeardownKeeps ==
    ASSUME IndInv, NEW t \in Threads,
           ReadPid(t) \/ KillPid(t) \/ Unlink(t) \/ DeleteBridge(t)
    PROVE  IndInv'
<1> USE DNSAssumption DEF IndInv, Goto, Finish, host, procs, TypeOK, TeardownPcs
<1>0. /\ tgt[t] \in Gateways /\ tgt[t] \notin due
      /\ \A u \in Threads \ {t} : tgt[u] # tgt[t]
      /\ \A p \in Pids : pst[p] = "starting" => gw[p] # tgt[t]
  BY DEF ReadPid, KillPid, Unlink, DeleteBridge, ThreadsBound, SoleTeardown, DueReady,
         NotTornDown, Starters
<1>1. CASE ReadPid(t)
  <2> USE <1>1 DEF ReadPid, BeingWritten
  <2>1. TypeOK'
    BY <1>0 DEF Pcs
  <2>2. ThreadsBound' /\ SoleTeardown'
    BY DEF ThreadsBound, SoleTeardown
  <2>3. Starters'
    BY DEF Starters, NotTornDown
  <2>4. Launched'
    BY DEF Launched, Served, Serves
  <2>5. Recorded'
    BY DEF Recorded, Served, Serves
  <2>6. Reader'
    BY <1>0 DEF Reader
  <2>7. DueReady'
    BY DEF DueReady, Served, Serves, NoneStarting, NotTornDown
  <2> QED
    BY <2>1, <2>2, <2>3, <2>4, <2>5, <2>6, <2>7
<1>2. CASE KillPid(t)
  <2> USE <1>2 DEF KillPid, Ended
  <2>0. seen[t] = pidfile[tgt[t]] /\ seen[t] \in Pids
    BY <1>0 DEF Reader
  <2>8. pst[seen[t]] \in {"starting", "serving"} => gw[seen[t]] = tgt[t]
    BY <1>0, <2>0 DEF Recorded
  <2>9. \A g \in Gateways \ {tgt[t]} : Served(g) => Served(g)'
    BY <2>0, <2>8 DEF Served, Serves
  <2>1. TypeOK'
    BY DEF Pcs, PStates
  <2>2. ThreadsBound' /\ SoleTeardown'
    BY DEF ThreadsBound, SoleTeardown
  <2>3. Starters'
    BY <2>0 DEF Starters, NotTornDown
  <2>4. Launched'
    BY <1>0, <2>0, <2>8, <2>9 DEF Launched, ThreadsBound
  <2>5. Recorded'
    BY <1>0, <2>0, <2>8, <2>9 DEF Recorded
  <2>6. Reader'
    BY DEF Reader
  <2>7. DueReady'
    BY <1>0, <2>0, <2>8, <2>9 DEF DueReady, NoneStarting, NotTornDown
  <2> QED
    BY <2>1, <2>2, <2>3, <2>4, <2>5, <2>6, <2>7
<1>3. CASE Unlink(t)
  <2> USE <1>3 DEF Unlink
  <2>1. TypeOK'
    BY DEF Pcs
  <2>2. ThreadsBound' /\ SoleTeardown'
    BY DEF ThreadsBound, SoleTeardown
  <2>3. Starters'
    BY DEF Starters, NotTornDown
  <2>4. Launched'
    BY DEF Launched, Served, Serves
  <2>5. Recorded'
    BY <1>0 DEF Recorded, Served, Serves
  <2>6. Reader'
    BY <1>0 DEF Reader
  <2>7. DueReady'
    BY DEF DueReady, Served, Serves, NoneStarting, NotTornDown
  <2> QED
    BY <2>1, <2>2, <2>3, <2>4, <2>5, <2>6, <2>7
<1>4. CASE DeleteBridge(t)
  <2> USE <1>4 DEF DeleteBridge
  <2>1. TypeOK'
    BY DEF Pcs
  <2>2. ThreadsBound' /\ SoleTeardown'
    BY <1>0 DEF ThreadsBound, SoleTeardown
  <2>3. Starters'
    BY <1>0 DEF Starters, NotTornDown
  <2>4. Launched'
    BY DEF Launched, Served, Serves
  <2>5. Recorded'
    BY DEF Recorded, Served, Serves
  <2>6. Reader'
    BY DEF Reader
  <2>7. DueReady'
    BY <1>0 DEF DueReady, Served, Serves, NoneStarting, NotTornDown
  <2> QED
    BY <2>1, <2>2, <2>3, <2>4, <2>5, <2>6, <2>7
<1> QED
  BY <1>1, <1>2, <1>3, <1>4

\* A server binds or exits, and the daemon is restarted.
LEMMA EnvironmentKeeps ==
    ASSUME IndInv, Environment
    PROVE  IndInv'
<1> USE DNSAssumption DEF IndInv, host, procs, thr, TypeOK, TeardownPcs
<1>1. ASSUME NEW p \in Pids, RunDNSDaemon(p)
      PROVE  IndInv'
  <2> USE <1>1 DEF RunDNSDaemon, Ended
  <2>8. PICK g \in Gateways : g = gw[p] /\ g \in bridge
    BY DEF Starters
  <2>9. \A q \in Pids, h \in Gateways : Serves(q, h) => Serves(q, h)'
    BY DEF Serves
  <2>0. \A h \in Gateways : Served(h) => Served(h)'
    BY <2>9 DEF Served
  <2>10. Served(g)'
    <3>1. CASE ~Served(g)
      BY <2>8, <3>1 DEF Served, Serves
    <3> QED
      BY <2>0, <3>1
  <2>1. TypeOK'
    BY DEF PStates
  <2>2. ThreadsBound' /\ SoleTeardown'
    BY DEF ThreadsBound, SoleTeardown
  <2>3. Starters'
    BY DEF Starters, NotTornDown
  <2>4. Launched'
    BY <2>0, <2>8, <2>10 DEF Launched, ThreadsBound
  <2>5. Recorded'
    BY <2>0, <2>8, <2>10 DEF Recorded
  <2>6. Reader'
    BY DEF Reader
  <2>7. DueReady'
    BY <2>0, <2>8, <2>10 DEF DueReady, NoneStarting, NotTornDown
  <2> QED
    BY <2>1, <2>2, <2>3, <2>4, <2>5, <2>6, <2>7
<1>2. CASE Restart
  <2> USE <1>2 DEF Restart
  <2>0. \A g \in Gateways : Served(g) => Served(g)'
    BY DEF Served, Serves
  <2>1. TypeOK'
    BY DEF PStates, Pcs
  <2>2. ThreadsBound' /\ SoleTeardown'
    BY DEF ThreadsBound, SoleTeardown
  <2>3. Starters'
    BY DEF Starters, NotTornDown
  <2>4. Launched' /\ Reader'
    BY DEF Launched, Reader
  <2>5. Recorded'
    BY <2>0 DEF Recorded
  <2>6. DueReady'
    BY <2>0 DEF DueReady, NoneStarting, NotTornDown
  <2> QED
    BY <2>1, <2>2, <2>3, <2>4, <2>5, <2>6
<1> QED
  BY <1>1, <1>2 DEF Environment

LEMMA NextKeeps ==
    ASSUME Reusable = {}
    PROVE  IndInv /\ [CarefulNext]_vars => IndInv'
<1> SUFFICES ASSUME IndInv, [CarefulNext]_vars PROVE IndInv'
  OBVIOUS
<1>1. CASE UNCHANGED vars
  BY <1>1 DEF vars, host, procs, thr, IndInv, TypeOK, ThreadsBound, SoleTeardown, Starters,
     Launched, Recorded, Reader, DueReady, Served, Serves, NoneStarting, NotTornDown
<1> QED
  BY <1>1, BeginKeeps, LaunchKeeps, TeardownKeeps, EnvironmentKeeps DEF CarefulNext, Step

(***************************************************************************)
(* Where StartEmbeddedDNS has returned a server listens, once the servers  *)
(* that were started have bound or failed to, until the network is torn    *)
(* down: the promise of dns.go:79, if nothing launches a server where      *)
(* there is no bridge, a network is torn down while nothing else happens   *)
(* to it (CarefulSpec), and no pid that a file names is used again.        *)
(***************************************************************************)
THEOREM ServerListens ==
    ASSUME Reusable = {}
    PROVE  CarefulSpec => []DueIsServed
<1>1. Init => IndInv
  BY StartsSound
<1>2. IndInv /\ [CarefulNext]_vars => IndInv'
  BY NextKeeps
<1>3. IndInv => DueIsServed
  BY DEF IndInv, DueReady, DueIsServed
<1> QED
  BY <1>1, <1>2, <1>3, PTL DEF CarefulSpec

(***************************************************************************)
(* And what StartEmbeddedDNS takes for healthy is a server that serves its *)
(* gateway, or is on its way: a zombie is found only where another serves. *)
(* Under the same two conditions; the first start of a container on a new  *)
(* network, which CarefulSpec leaves out, breaks it.                       *)
(***************************************************************************)
THEOREM HealthyServes ==
    ASSUME Reusable = {}
    PROVE  CarefulSpec => HealthyIsServing
<1> DEFINE A == \A t \in Threads : CheckPid(t) /\ pc'[t] # "spawn" =>
                    \E p \in Pids : gw[p] = tgt[t] /\ pst[p] \in {"starting", "serving"}
<1>1. Init => IndInv
  BY StartsSound
<1>2. IndInv /\ [CarefulNext]_vars => IndInv'
  BY NextKeeps
<1>3. ASSUME IndInv PROVE A
  <2> SUFFICES ASSUME NEW t \in Threads, CheckPid(t), pc'[t] # "spawn"
               PROVE  \E p \in Pids : gw[p] = tgt[t] /\ pst[p] \in {"starting", "serving"}
    OBVIOUS
  <2>1. /\ tgt[t] \in Gateways /\ Alive(pidfile[tgt[t]])
        /\ \A u \in Threads : tgt[u] = tgt[t] => pc[u] # "unlink"
    BY <1>3 DEF CheckPid, Goto, IndInv, TypeOK, ThreadsBound, SoleTeardown, TeardownPcs
  <2> QED
    BY <1>3, <2>1 DEF Alive, IndInv, TypeOK, Recorded, Served, Serves
<1>4. IndInv /\ [CarefulNext]_vars => [A]_vars
  BY <1>3
<1>5. CarefulSpec => [][A]_vars
  BY <1>1, <1>2, <1>4, PTL DEF CarefulSpec
<1> QED
  BY <1>5 DEF HealthyIsServing
-----------------------------------------------------------------------------
(***************************************************************************)
(* Types, for every use: requests in any order, process ids used again.    *)
(***************************************************************************)
TypeInv == TypeOK /\ \A t \in Threads : pc[t] # "idle" => tgt[t] \in Gateways

LEMMA CarefulIsNext == [CarefulNext]_vars => [Next]_vars
BY DEF CarefulNext, CarefulBegin, Next

LEMMA TypeStep ==
    ASSUME TypeInv, NEW t \in Threads, Step(t)
    PROVE  TypeInv'
<1> USE DNSAssumption
        DEF TypeInv, TypeOK, Pcs, TeardownPcs, PStates, Goto, host, procs
<1>1. CASE SetupNamedBridge(t)
  BY <1>1 DEF SetupNamedBridge, Finish
<1>2. CASE CheckPid(t) \/ Record(t)
  <2>1. CASE Return(t)
    <3>1. \A u \in Threads : pc'[u] # "idle" => tgt'[u] = tgt[u] /\ pc[u] # "idle"
      BY <1>2, <2>1 DEF CheckPid, Record, Return, Finish
    <3> QED
      BY <1>2, <2>1, <3>1, ReturnTypes DEF CheckPid, Record
  <2>2. CASE ~Return(t)
    BY <1>2, <2>2 DEF CheckPid, Record
  <2> QED
    BY <2>1, <2>2
<1>3. CASE Spawn(t)
  <2>1. \A u \in Threads : pc'[u] # "idle" => tgt'[u] = tgt[u] /\ pc[u] # "idle"
    BY <1>3 DEF Spawn, Return, Finish
  <2>2. TypeOK'
    BY <1>3, SpawnTypes DEF Spawn
  <2> QED
    BY <2>1, <2>2
<1>4. CASE ReadPid(t) \/ Unlink(t)
  BY <1>4 DEF ReadPid, Unlink
<1>5. CASE KillPid(t)
  BY <1>5 DEF KillPid, Ended
<1>6. CASE DeleteBridge(t)
  BY <1>6 DEF DeleteBridge, Finish
<1> QED
  BY <1>1, <1>2, <1>3, <1>4, <1>5, <1>6 DEF Step

LEMMA TypeNext == TypeInv /\ [Next]_vars => TypeInv'
<1> SUFFICES ASSUME TypeInv, [Next]_vars PROVE TypeInv'
  OBVIOUS
<1> USE DNSAssumption
        DEF TypeInv, TypeOK, Pcs, TeardownPcs, PStates, Goto, host, procs, thr
<1>1. ASSUME NEW t \in Threads, NEW g \in Gateways,
             \/ StartContainer(t, g) \/ BridgeFirst(t, g)
             \/ ComposeDown(t, g) \/ NetworkDelete(t, g)
      PROVE  TypeInv'
  <2>1. PICK l \in {"check", "bridge", "read", "unbridge"} : Begin(t, g, l)
    BY <1>1 DEF StartContainer, BridgeFirst, ComposeDown, NetworkDelete
  <2>2. early' \in [Threads -> BOOLEAN] /\ due' \subseteq Gateways
    BY <1>1 DEF StartContainer, BridgeFirst, ComposeDown, NetworkDelete
  <2>3. pc' \in [Threads -> Pcs] /\ tgt' \in [Threads -> Gateways \cup {NoGw}]
    BY <2>1 DEF Begin
  <2>4. \A u \in Threads : pc'[u] # "idle" => tgt'[u] \in Gateways
    BY <2>1 DEF Begin
  <2> QED
    BY <2>1, <2>2, <2>3, <2>4 DEF Begin
<1>2. ASSUME NEW p \in Pids, RunDNSDaemon(p)
      PROVE  TypeInv'
  BY <1>2 DEF RunDNSDaemon, Ended
<1>3. CASE Restart
  BY <1>3 DEF Restart
<1>4. CASE UNCHANGED vars
  BY <1>4 DEF vars
<1> QED
  BY <1>1, <1>2, <1>3, <1>4, TypeStep DEF Next, Environment

(***************************************************************************)
(* Every variable keeps its type however the requests come: a bridge, a    *)
(* server and a pid file are always of a network that there is.            *)
(***************************************************************************)
THEOREM DNSTypes == Spec => []TypeOK
<1>1. Init => TypeInv
  BY StartsSound DEF IndInv, TypeInv, ThreadsBound
<1>2. TypeInv => TypeOK
  BY DEF TypeInv
<1> QED
  BY <1>1, <1>2, TypeNext, PTL DEF Spec

(***************************************************************************)
(* The careful use is one of those.                                        *)
(***************************************************************************)
COROLLARY CarefulTypes == CarefulSpec => []TypeOK
BY CarefulIsNext, DNSTypes, PTL DEF CarefulSpec, Spec
=============================================================================
