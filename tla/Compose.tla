-------------------------------- MODULE Compose --------------------------------
(***************************************************************************)
(* Compose files going up and down: internal/compose/engine.go and down.go,*)
(* on the bridges of bridge.go and the DNS servers of dns.go, with the     *)
(* starts of the services and the deletion of a network by the user.       *)
(*                                                                         *)
(* The engine keeps no state between requests: Down computes again, from   *)
(* the file, what Up has made.  Both range over Go maps, in any order, and *)
(* number the networks without a subnet as they meet them.                 *)
(*                                                                         *)
(* Requests for one file come one after the other, and its services are    *)
(* started between them; different files run at once.  Servers of one      *)
(* gateway that race for it are in EmbeddedDNS, and the tables, with the   *)
(* address that Up registers for a service before it makes it, in          *)
(* ContainerNetwork (Announce, RemoveTable).                               *)
(***************************************************************************)
EXTENDS Naturals, FiniteSets

CONSTANTS
    Files, Nets, Services,
    NetsOf,     \* the networks of a file
    ServicesOf, \* and its services
    JoinOf,     \* the networks that a service lists
    Explicit,   \* the gateway of a network that has a subnet, else NoSubnet
    NoSubnet,
    Base,       \* 20: the first automatic gateway is 172.20.0.1
    NoNet, NoGw

AutoNets(f) == {n \in NetsOf[f] : Explicit[n] = NoSubnet}

ASSUME ComposeAssumption ==
    /\ IsFiniteSet(Nets)
    /\ NetsOf \in [Files -> SUBSET Nets]
    /\ ServicesOf \in [Files -> SUBSET Services]
    /\ JoinOf \in [Services -> SUBSET Nets]
    /\ Explicit \in [Nets -> Nat \cup {NoSubnet}]
    /\ NoSubnet \notin Nat /\ NoGw \notin Nat /\ NoNet \notin Nets
    /\ Base \in Nat

VARIABLES
    links,   \* bridges
    on,      \* the addresses on a bridge
    dns,     \* gateways with a server
    lost,    \* gateways with a launch that went wrong: if they have a server, no pid file names it
    svc,     \* the container named as a service: "none", "made", "runs"
    at,      \* its BridgeName and GatewayIP
    kept,    \* history: services that a Down could not delete
    pc,      \* the request of a file
    todo,    \* networks it still has to go through
    left,    \* services it still has to go through
    got,     \* networksMap: the gateways it has given
    net,     \* the network or service it is working on
    up       \* history: "up" after an Up that succeeded, "down" after a Down, else "part"

host == <<links, on, dns, lost>>
boxes == <<svc, at, kept>>
req == <<pc, todo, left, got, net>>
vars == <<host, boxes, req, up>>

Automatic(f) == Base..(Base + Cardinality(AutoNets(f)) - 1)
GatewaysOf(f) == {Explicit[n] : n \in NetsOf[f] \ AutoNets(f)} \cup Automatic(f)
Gateways == UNION {GatewaysOf(f) : f \in Files}

Nowhere == [net |-> NoNet, gw |-> NoGw]
Nothing == [n \in Nets |-> NoGw]

Goto(f, l) == pc' = [pc EXCEPT ![f] = l]

Init ==
    /\ links = {} /\ dns = {} /\ lost = {} /\ kept = {}
    /\ on = [n \in Nets |-> {}]
    /\ svc = [s \in Services |-> "none"]
    /\ at = [s \in Services |-> Nowhere]
    /\ pc = [f \in Files |-> "idle"]
    /\ todo = [f \in Files |-> {}]
    /\ left = [f \in Files |-> {}]
    /\ got = [f \in Files |-> Nothing]
    /\ net = [f \in Files |-> NoNet]
    /\ up = [f \in Files |-> "down"]

\* a request that is over keeps nothing
Return(f) ==
    /\ Goto(f, "idle")
    /\ todo' = [todo EXCEPT ![f] = {}]
    /\ left' = [left EXCEPT ![f] = {}]
    /\ got' = [got EXCEPT ![f] = Nothing]
    /\ net' = [net EXCEPT ![f] = NoNet]

Begin(f, l) ==
    /\ pc[f] = "idle"
    /\ Goto(f, l)
    /\ todo' = [todo EXCEPT ![f] = NetsOf[f]]
    /\ left' = [left EXCEPT ![f] = ServicesOf[f]]
    /\ UNCHANGED <<host, boxes, got, net>>

-----------------------------------------------------------------------------
Up(f) == Begin(f, "bridge") /\ up' = [up EXCEPT ![f] = IF @ = "down" THEN "part" ELSE @]

\* Fault: the number is advanced before it is used.
NumberAdvanced(f) == Base + Cardinality(AutoNets(f) \ todo[f]) + 1

\* autoSubnetIndex of Up
UpNumber(f) == Base + Cardinality(AutoNets(f) \ todo[f])
UpGateway(f, n) == IF Explicit[n] = NoSubnet THEN UpNumber(f) ELSE Explicit[n]

AddAddress(n, g) == [on EXCEPT ![n] = @ \cup {g}]

\* SetupNamedBridge: the link, and the address unless it is there; an error, before,
\* between or after them, ends the request.
SetupNamedBridge(f, n) ==
    /\ pc[f] = "bridge" /\ n \in todo[f]
    /\ LET addressed == AddAddress(n, UpGateway(f, n)) IN
       \/ /\ links' = links \cup {n} /\ on' = addressed
          /\ got' = [got EXCEPT ![f][n] = UpGateway(f, n)]
          /\ net' = [net EXCEPT ![f] = n]
          /\ Goto(f, "dns")
          /\ UNCHANGED <<todo, left>>
       \/ links' = links \cup {n} /\ on' \in {on, addressed} /\ Return(f)
       \/ UNCHANGED <<links, on>> /\ Return(f)
    /\ UNCHANGED <<dns, lost, boxes, up>>

\* A server that is there stays: its pid file says so, or it keeps the port to itself.
Serves(g) == g \in dns /\ UNCHANGED <<dns, lost>>

\* It is not forked, has no address yet, or its pid file names another process.
NotStarted(g) == g \notin dns /\ lost' = lost \cup {g} /\ UNCHANGED dns

\* cmd.Start; nothing names the new process before the pid file is written.
Spawn(g) == g \notin dns /\ dns' = dns \cup {g} /\ lost' = lost \cup {g}

NextNetwork(f) ==
    /\ todo' = [todo EXCEPT ![f] = @ \ {net[f]}]
    /\ net' = [net EXCEPT ![f] = NoNet]
    /\ Goto(f, "bridge")

StartEmbeddedDNS(f) ==
    /\ pc[f] = "dns"
    /\ LET g == got[f][net[f]] IN
       \/ Spawn(g) /\ Goto(f, "pid") /\ UNCHANGED <<todo, net>>
       \/ (Serves(g) \/ NotStarted(g)) /\ NextNetwork(f)
    /\ UNCHANGED <<links, on, boxes, left, got, up>>

\* the pid file, whose error is dropped
WritePid(f) ==
    /\ pc[f] = "pid"
    /\ lost' \in {lost, lost \ {got[f][net[f]]}}
    /\ NextNetwork(f)
    /\ UNCHANGED <<links, on, dns, boxes, left, got, up>>

\* The first network of the service's map, which is any; one that the file does not
\* define leaves the container on minibr0, as does none.
Joined(f, s) ==
    IF JoinOf[s] = {} THEN {Nowhere}
    ELSE {IF n \in NetsOf[f] THEN [net |-> n, gw |-> got[f][n]] ELSE Nowhere : n \in JoinOf[s]}

\* CreateContainer; a name that is taken, or a failed save, ends the request.
CreateService(f, s) ==
    /\ pc[f] = "bridge" /\ todo[f] = {} /\ s \in left[f]
    /\ \/ /\ svc[s] = "none"
          /\ svc' = [svc EXCEPT ![s] = "made"]
          /\ \E j \in Joined(f, s) : at' = [at EXCEPT ![s] = j]
          /\ left' = [left EXCEPT ![f] = @ \ {s}]
          /\ UNCHANGED <<pc, todo, got, net>>
       \/ Return(f) /\ UNCHANGED <<svc, at>>
    /\ UNCHANGED <<host, kept, up>>

IsUp(f) ==
    /\ pc[f] = "bridge" /\ todo[f] = {} /\ left[f] = {}
    /\ Return(f)
    /\ up' = [up EXCEPT ![f] = "up"]
    /\ UNCHANGED <<host, boxes>>

-----------------------------------------------------------------------------
Down(f) == Begin(f, "stop") /\ up' = [up EXCEPT ![f] = "part"]

\* StopContainer, then DeleteContainer, whatever they return
StopService(f, s) ==
    /\ pc[f] = "stop" /\ s \in left[f] /\ svc[s] = "runs"
    /\ svc' = [svc EXCEPT ![s] = "made"]
    /\ UNCHANGED <<host, at, kept, req, up>>

\* A container that still runs, or whose directory cannot be removed, stays.
DeleteService(f, s) ==
    /\ pc[f] = "stop" /\ s \in left[f]
    /\ \/ /\ svc[s] # "runs"
          /\ svc' = [svc EXCEPT ![s] = "none"]
          /\ at' = [at EXCEPT ![s] = Nowhere]
          /\ kept' = kept \ {s}
       \/ /\ svc[s] # "none"
          /\ kept' = kept \cup {s}
          /\ UNCHANGED <<svc, at>>
    /\ left' = [left EXCEPT ![f] = @ \ {s}]
    /\ UNCHANGED <<host, pc, todo, got, net, up>>

\* Fault: autoSubnetIndex does not advance in Down.
FirstNumber(f) == Base

\* autoSubnetIndex of Down
DownNumber(f) == Base + Cardinality(AutoNets(f) \ todo[f])

\* Fault: the subnet of the file is overlooked.
DownGatewayAuto(f, n) == DownNumber(f)

DownGateway(f, n) == IF Explicit[n] = NoSubnet THEN DownNumber(f) ELSE Explicit[n]

\* the server that the pid file names ...
KillDNS(f, n) ==
    /\ pc[f] = "stop" /\ left[f] = {} /\ n \in todo[f]
    /\ dns' = dns \ ({DownGateway(f, n)} \ lost)
    /\ todo' = [todo EXCEPT ![f] = @ \ {n}]
    /\ net' = [net EXCEPT ![f] = n]
    /\ Goto(f, "link")
    /\ UNCHANGED <<links, on, lost, boxes, left, got, up>>

\* ... and the bridge
Remove(n) == links' = links \ {n} /\ on' = [on EXCEPT ![n] = {}]

DeleteLink(f) ==
    /\ pc[f] = "link"
    /\ Remove(net[f])
    /\ net' = [net EXCEPT ![f] = NoNet]
    /\ Goto(f, "stop")
    /\ UNCHANGED <<dns, lost, boxes, todo, left, got, up>>

IsDown(f) ==
    /\ pc[f] = "stop" /\ todo[f] = {} /\ left[f] = {}
    /\ Return(f)
    /\ up' = [up EXCEPT ![f] = "down"]
    /\ UNCHANGED <<host, boxes>>

-----------------------------------------------------------------------------
Quiet(s) == \A f \in Files : s \in ServicesOf[f] => pc[f] = "idle"

\* A start sets up the bridge and the server of the record again (RunParent).
StartService(s) ==
    /\ Quiet(s) /\ svc[s] = "made"
    /\ svc' = [svc EXCEPT ![s] = "runs"]
    /\ IF at[s] = Nowhere
       THEN UNCHANGED host
       ELSE /\ links' = links \cup {at[s].net}
            /\ on' = AddAddress(at[s].net, at[s].gw)
            /\ \/ Serves(at[s].gw) \/ NotStarted(at[s].gw) \/ Spawn(at[s].gw)
               \/ dns' = dns \cup {at[s].gw} /\ lost' = lost \ {at[s].gw} /\ at[s].gw \notin dns
    /\ UNCHANGED <<at, kept, req, up>>

EndService(s) ==
    /\ svc[s] = "runs"
    /\ svc' = [svc EXCEPT ![s] = "made"]
    /\ UNCHANGED <<host, at, kept, req, up>>

\* DELETE /networks/{name}, which leaves the server; of a file that is not up
NetworkDelete(n) ==
    /\ \A f \in Files : n \in NetsOf[f] => pc[f] = "idle" /\ up[f] # "up"
    /\ n \in links
    /\ Remove(n)
    /\ UNCHANGED <<dns, lost, boxes, req, up>>

\* Requests die with the daemon; containers, bridges and servers stay.
Crash ==
    /\ pc' = [f \in Files |-> "idle"]
    /\ todo' = [f \in Files |-> {}]
    /\ left' = [f \in Files |-> {}]
    /\ got' = [f \in Files |-> Nothing]
    /\ net' = [f \in Files |-> NoNet]
    /\ UNCHANGED <<host, boxes, up>>

Next ==
    \/ \E f \in Files :
          \/ Up(f) \/ StartEmbeddedDNS(f) \/ WritePid(f) \/ IsUp(f)
          \/ Down(f) \/ DeleteLink(f) \/ IsDown(f)
          \/ \E n \in Nets : SetupNamedBridge(f, n) \/ KillDNS(f, n)
          \/ \E s \in Services : CreateService(f, s) \/ StopService(f, s) \/ DeleteService(f, s)
    \/ \E s \in Services : StartService(s) \/ EndService(s)
    \/ \E n \in Nets : NetworkDelete(n)
    \/ Crash

Spec == Init /\ [][Next]_vars

-----------------------------------------------------------------------------
\* The variables have their types.
TypeOK ==
    /\ links \subseteq Nets
    /\ on \in [Nets -> SUBSET Gateways]
    /\ dns \subseteq Gateways /\ lost \subseteq Gateways
    /\ svc \in [Services -> {"none", "made", "runs"}]
    /\ at \in [Services -> [net : Nets, gw : Gateways] \cup {Nowhere}]
    /\ kept \subseteq Services
    /\ pc \in [Files -> {"idle", "bridge", "dns", "pid", "stop", "link"}]
    /\ todo \in [Files -> SUBSET Nets]
    /\ left \in [Files -> SUBSET Services]
    /\ got \in [Files -> [Nets -> Gateways \cup {NoGw}]]
    /\ net \in [Files -> Nets \cup {NoNet}]
    /\ up \in [Files -> {"down", "part", "up"}]

\* f shares no network, gateway or service with another file.
Apart(f) ==
    \A g \in Files \ {f} : /\ NetsOf[f] \cap NetsOf[g] = {}
                           /\ GatewaysOf(f) \cap GatewaysOf(g) = {}
                           /\ ServicesOf[f] \cap ServicesOf[g] = {}

\* What is left belongs to a service of the file that is left.
OfService(f, n) == \E s \in ServicesOf[f] : svc[s] # "none" /\ at[s].net = n
OfGateway(f, g) == \E s \in ServicesOf[f] : svc[s] # "none" /\ at[s].gw = g

\* After a Down that ended, whatever failed or died before it and in whatever order the
\* maps were walked, a service of the file is left only if its own deletion failed, a
\* bridge only if a service that is left goes back to it, and a server only if that is
\* so or nobody ever wrote down its pid (down.go:14-60, dns.go:99-100).
DownUndoes ==
    \A f \in Files : up[f] = "down" /\ Apart(f) =>
        /\ \A s \in ServicesOf[f] : svc[s] = "none" \/ s \in kept
        /\ \A n \in NetsOf[f] : n \in links => OfService(f, n)
        /\ \A g \in GatewaysOf(f) : g \in dns => g \in lost \/ OfGateway(f, g)

\* After an Up that succeeded every network has its bridge, every address on it a
\* server unless a launch went wrong there, which Up does not notice, and every
\* service its gateway on its bridge, until the file is taken down: other files,
\* failed repetitions and the end of the daemon do not change it (engine.go:24-124).
UpStays ==
    \A f \in Files : up[f] = "up" /\ Apart(f) =>
        /\ NetsOf[f] \subseteq links
        /\ \A n \in NetsOf[f] : on[n] # {} /\ on[n] \subseteq dns \cup lost
        /\ \A s \in ServicesOf[f] :
              /\ svc[s] # "none"
              /\ at[s] # Nowhere => at[s].gw \in on[at[s].net]

-----------------------------------------------------------------------------
\* Inductive strengthening.  The gateways given out when T is still to come:
Passed(f, T) ==
    {Explicit[n] : n \in (NetsOf[f] \ AutoNets(f)) \ T}
        \cup Base..(Base + Cardinality(AutoNets(f) \ T) - 1)

\* where a request is, ...
Phase(f) ==
    /\ todo[f] \subseteq NetsOf[f] /\ left[f] \subseteq ServicesOf[f]
    /\ pc[f] \in {"bridge", "dns", "pid"} =>
          up[f] # "down" /\ \A n \in NetsOf[f] \ todo[f] : got[f][n] \in GatewaysOf(f)
    /\ pc[f] \in {"dns", "pid"} => net[f] \in todo[f] /\ got[f][net[f]] = UpGateway(f, net[f])
    /\ pc[f] \in {"stop", "link"} =>
          up[f] = "part" /\ (left[f] # {} => pc[f] = "stop" /\ todo[f] = NetsOf[f])
    /\ pc[f] = "link" => net[f] \in NetsOf[f] \ todo[f]

\* what is on a bridge or in a record came from one file, ...
From(n, g) == \E f \in Files : n \in NetsOf[f] /\ g \in GatewaysOf(f)
Origins ==
    /\ \A n \in Nets : \A g \in on[n] : From(n, g)
    /\ \A s \in Services : at[s] # Nowhere =>
          \E f \in Files : /\ s \in ServicesOf[f] /\ at[s].net \in NetsOf[f]
                          /\ at[s].gw \in GatewaysOf(f)

\* what Up has done so far, and when it has succeeded, ...
Placed(s) == svc[s] # "none" /\ (at[s] # Nowhere => at[s].gw \in on[at[s].net])
UpSoFar(f) ==
    pc[f] \in {"bridge", "dns", "pid"} =>
        /\ Passed(f, todo[f]) \subseteq dns \cup lost
        /\ pc[f] = "pid" => got[f][net[f]] \in dns
        /\ \A n \in NetsOf[f] :
              n \notin todo[f] \/ (pc[f] # "bridge" /\ n = net[f]) =>
                  n \in links /\ got[f][n] \in on[n]
        /\ \A s \in ServicesOf[f] \ left[f] : Placed(s)
UpDone(f) ==
    up[f] = "up" =>
        /\ \A n \in NetsOf[f] : n \in links /\ on[n] # {}
        /\ GatewaysOf(f) \subseteq dns \cup lost
        /\ \A s \in ServicesOf[f] : Placed(s)

\* and what Down has undone so far, and when it has ended.
DownSoFar(f) ==
    pc[f] \in {"stop", "link"} =>
        /\ \A s \in ServicesOf[f] \ left[f] : svc[s] = "none" \/ s \in kept
        /\ \A n \in NetsOf[f] \ todo[f] : n \in links => pc[f] = "link" /\ n = net[f]
        /\ Passed(f, todo[f]) \cap dns \subseteq lost
DownDone(f) ==
    up[f] = "down" =>
        /\ \A s \in ServicesOf[f] : svc[s] = "none" \/ s \in kept
        /\ \A n \in NetsOf[f] : n \in links => OfService(f, n)
        /\ \A g \in GatewaysOf(f) : g \in dns => g \in lost \/ OfGateway(f, g)

Good(f) == UpSoFar(f) /\ UpDone(f) /\ DownSoFar(f) /\ DownDone(f)

IndInv ==
    /\ TypeOK /\ Origins
    /\ \A f \in Files : Phase(f) /\ (Apart(f) => Good(f))

-----------------------------------------------------------------------------
\* Not so: a Down that ended has left nothing.  It drops the errors of the deletions,
\* and has no way to a server whose pid was not written down.
DownLeavesNothing ==
    \A f \in Files : up[f] = "down" /\ Apart(f) =>
        /\ \A s \in ServicesOf[f] : svc[s] = "none"
        /\ NetsOf[f] \cap links = {} /\ GatewaysOf(f) \cap dns = {}

\* Not so: two networks never have one gateway.  The numbers follow the order of
\* the map, so a second Up may put each one's address on the other's bridge; and
\* every file counts from the same number.
Isolated ==
    \A n, m \in Nets : n # m => on[n] \cap on[m] = {}
=============================================================================
