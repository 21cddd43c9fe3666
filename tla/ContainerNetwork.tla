--------------------------- MODULE ContainerNetwork ---------------------------
(***************************************************************************)
(* A container on its network: the address it gets from its pid and keeps, *)
(* its veth pair, and its names in the table of the network's DNS server   *)
(* (manager.go:184-236, namespaces.go:146-201, veth.go, dns.go:35-77),     *)
(* which compose up and down write as well (engine.go:106-111,             *)
(* down.go:49-50).                                                         *)
(*                                                                         *)
(* One network; those of other networks only compete for the mutex.  The   *)
(* requests of one container come one after the other (LifecycleSerial),   *)
(* so a container stands for its session.  The host part of an address is  *)
(* a pair <<third, fourth>> of octets.                                     *)
(***************************************************************************)
EXTENDS Integers, Sequences

CONSTANTS
    Containers, \* ids of containers
    Names,      \* ids and names
    NameOf,     \* the name of a container, which is its id unless one is given
    Lower,      \* a name in lower case, as the table has it
    Services,   \* <<name, address>>: services that compose files put on this network
    StaticOf,   \* the address its file asks for (ipv4_address), or NoIP
    Pids,       \* process ids
    Octet,      \* 256
    Gateway,    \* address of the bridge
    Wide,       \* the mask is /16, else /24
    NoIP, NoPid, Free, Up,
    MaxCrashes  \* bound: how often the daemon dies

Octets == 0..(Octet - 1)
Addresses == Octets \X Octets

ASSUME NetworkAssumption ==
    /\ Containers \subseteq Names
    /\ NameOf \in [Containers -> Names] /\ Lower \in [Names -> Names]
    /\ \A c \in Containers : Lower[c] = c
    /\ Services \subseteq Names \X Addresses
    /\ StaticOf \in [Containers -> Addresses \cup {NoIP}]
    /\ Pids \subseteq Nat
    /\ Octet \in Nat /\ Octet > 2
    /\ Gateway \in Addresses
    /\ NoIP \notin Addresses /\ NoPid \notin Pids
    /\ Free \notin Containers /\ Up \notin Containers /\ Up # Free
    /\ MaxCrashes \in Nat

VARIABLES
    life,    \* of a container: "new", "made" (it has a record), "gone"
    ip,      \* StaticIP in its record
    pc,      \* its session in the daemon
    todo,    \* records the session still has to preload
    ops,     \* registrations it still has to make, in order
    mu,      \* the mutex of dns.go: Free, or who holds it
    copy,    \* the table that the holder has in memory
    table,   \* <gateway>.json
    cut,     \* the file that the holder is writing has been removed
    proc,    \* the container's process: "none", "held" (on the pipe), "runs"
    pid,     \* and its pid
    addr,    \* the address of its eth0
    veth,    \* veth0_<pid>: "none", "host" (both ends on the host), "moved"
    heard,   \* history: the running daemon has finished a preload
    touched, \* history: names that compose wrote last, and not with the container's address
    crashes

records == <<life, ip>>
work == <<pc, todo, ops>>
names == <<mu, copy, table, cut>>
host == <<proc, pid, addr, veth>>
hist == <<heard, touched, crashes>>
vars == <<records, work, names, host, hist>>

Key(c) == Lower[NameOf[c]]
KeysOf(c) == {c, Key(c)}
Empty == [k \in Names |-> NoIP]

Goto(c, l) == pc' = [pc EXCEPT ![c] = l]

Init ==
    /\ life = [c \in Containers |-> "new"]
    /\ ip = [c \in Containers |-> NoIP]
    /\ pc = [c \in Containers |-> "idle"]
    /\ todo = [c \in Containers |-> {}]
    /\ ops = [c \in Containers |-> <<>>]
    /\ mu = Free /\ copy = Empty /\ table = Empty /\ cut = FALSE
    /\ proc = [c \in Containers |-> "none"]
    /\ pid = [c \in Containers |-> NoPid]
    /\ addr = [c \in Containers |-> NoIP]
    /\ veth = [p \in Pids |-> "none"]
    /\ heard = FALSE /\ touched = {} /\ crashes = 0

-----------------------------------------------------------------------------
Made == {c \in Containers : life[c] = "made"}

\* CreateContainer: no other record has the very same name
Create(c) ==
    /\ life[c] = "new"
    /\ \A o \in Made : NameOf[o] # NameOf[c]
    /\ life' = [life EXCEPT ![c] = "made"]
    /\ ip' = [ip EXCEPT ![c] = StaticOf[c]]
    /\ UNCHANGED <<work, names, host, hist>>

Delete(c) ==
    /\ life[c] = "made" /\ pc[c] = "idle" /\ proc[c] = "none"
    /\ life' = [life EXCEPT ![c] = "gone"]
    /\ ip' = [ip EXCEPT ![c] = NoIP]
    /\ UNCHANGED <<work, names, host, hist>>

\* StartContainer preloads the table from all records, StartAttached does not.
Start(c) ==
    /\ life[c] = "made" /\ pc[c] = "idle" /\ proc[c] = "none"
    /\ \/ Goto(c, "preload") /\ todo' = [todo EXCEPT ![c] = Made]
       \/ Goto(c, "spawn") /\ UNCHANGED todo
    /\ UNCHANGED <<records, ops, names, host, hist>>

\* RegisterRecord and UnregisterRecord, of the two keys of a container
IdThenName(o, a) == <<[key |-> o, to |-> a], [key |-> Key(o), to |-> a]>>
NameThenId(o, a) == <<[key |-> Key(o), to |-> a], [key |-> o, to |-> a]>>

\* the next record of the preload; one that its session is saving may be unreadable
Preload(c, o) ==
    /\ pc[c] = "preload" /\ ops[c] = <<>> /\ o \in todo[c]
    /\ todo' = [todo EXCEPT ![c] = @ \ {o}]
    /\ \/ /\ life[o] = "made" /\ ip[o] # NoIP
          /\ ops' = [ops EXCEPT ![c] = NameThenId(o, ip[o])]
       \/ /\ life[o] # "made" \/ ip[o] = NoIP \/ pc[o] # "idle"
          /\ UNCHANGED ops
    /\ UNCHANGED <<records, pc, names, host, hist>>

Preloaded(c) ==
    /\ pc[c] = "preload" /\ todo[c] = {} /\ ops[c] = <<>>
    /\ Goto(c, "spawn")
    /\ heard' = TRUE
    /\ UNCHANGED <<records, todo, ops, names, host, touched, crashes>>

\* Fault: a registration takes no mutex.
OpenUnlocked(c) ==
    /\ ops[c] # <<>> /\ mu # c
    /\ mu' = c /\ copy' = table /\ table' = Empty
    /\ UNCHANGED <<cut, records, work, host, hist>>

\* Under the mutex: the table is read, then the file truncated ...
OpenTable(c) ==
    /\ ops[c] # <<>> /\ mu = Free
    /\ mu' = c /\ copy' = table /\ table' = Empty
    /\ UNCHANGED <<cut, records, work, host, hist>>

\* ... and written; what is written to a file that was removed meanwhile is lost.
Unlock == mu' = Free /\ copy' = Empty /\ cut' = FALSE

WriteTable(c) ==
    /\ mu = c
    /\ \/ /\ cut
          /\ UNCHANGED <<table, touched>>
       \/ /\ ~cut
          /\ table' = [copy EXCEPT ![Head(ops[c]).key] = Head(ops[c]).to]
          /\ touched' = touched \ {Head(ops[c]).key}
    /\ ops' = [ops EXCEPT ![c] = Tail(@)]
    /\ Unlock
    /\ UNCHANGED <<records, pc, todo, host, heard, crashes>>

-----------------------------------------------------------------------------
\* A compose up registers a service with an ipv4_address before it creates the
\* container, a name that exists already too.
Announce(n, a) ==
    /\ mu = Free
    /\ mu' = Up /\ copy' = [table EXCEPT ![Lower[n]] = a] /\ table' = Empty
    /\ touched' = IF \A c \in Containers : Lower[n] \in KeysOf(c) => StaticOf[c] = a
                  THEN touched ELSE touched \cup {Lower[n]}
    /\ UNCHANGED <<cut, records, work, host, heard, crashes>>

Announced ==
    /\ mu = Up
    /\ table' = IF cut THEN table ELSE copy
    /\ Unlock
    /\ UNCHANGED <<records, work, host, hist>>

\* A compose down removes the file, and does not ask for the mutex.
RemoveTable ==
    /\ table' = Empty
    /\ cut' = (mu # Free)
    /\ touched' = Names
    /\ UNCHANGED <<mu, copy, records, work, host, heard, crashes>>

-----------------------------------------------------------------------------
\* A pid that a session still works with is not handed out again.
Unused(p) == \A c \in Containers : pid[c] # p

\* Fault: the last octet 1 is taken as it is.
FourthAny(p) == IF p % Octet = 0 THEN 2 ELSE p % Octet

\* RunParent: the low 16 bits of the pid, but no .0 and no .1
Fourth(p) == IF p % Octet \in {0, 1} THEN 2 ELSE p % Octet

\* Fault: the third octet is not cut to eight bits.
AddressUncut(p) == <<p \div Octet, Fourth(p)>>

Address(p) == <<(p \div Octet) % Octet, Fourth(p)>>

\* The process, which waits on the pipe, its address, and the veth pair, unless one
\* of that name is left over; a bridge, process or cgroup that fails ends the session.
Spawn(c) ==
    /\ pc[c] = "spawn"
    /\ \/ \E p \in Pids :
             /\ Unused(p)
             /\ pid' = [pid EXCEPT ![c] = p]
             /\ addr' = [addr EXCEPT ![c] = IF ip[c] # NoIP THEN ip[c] ELSE Address(p)]
             /\ proc' = [proc EXCEPT ![c] = "held"]
             /\ \/ veth[p] = "none" /\ veth' = [veth EXCEPT ![p] = "host"] /\ Goto(c, "move")
                \/ Goto(c, "abort") /\ UNCHANGED veth
       \/ Goto(c, "idle") /\ UNCHANGED <<pid, addr, proc, veth>>
    /\ UNCHANGED <<records, todo, ops, names, hist>>

\* the gateway is on the link
Reachable(a) == Wide \/ a[1] = Gateway[1]

\* Its namespace, address and default route, or a failure before or after the move.
\* Then RunParent has two names to register.
LinkMove(c) ==
    /\ pc[c] = "move"
    /\ \/ /\ Reachable(addr[c])
          /\ veth' = [veth EXCEPT ![pid[c]] = "moved"]
          /\ ops' = [ops EXCEPT ![c] = IdThenName(c, addr[c])]
          /\ Goto(c, "register")
       \/ /\ \E v \in {"host", "moved"} : veth' = [veth EXCEPT ![pid[c]] = v]
          /\ Goto(c, "abort")
          /\ UNCHANGED ops
    /\ UNCHANGED <<records, todo, names, proc, pid, addr, hist>>

\* the end of a process takes its namespace and what was moved there
Dies(c) ==
    /\ proc' = [proc EXCEPT ![c] = "none"]
    /\ pid' = [pid EXCEPT ![c] = NoPid]
    /\ addr' = [addr EXCEPT ![c] = NoIP]

\* Fault: nothing is cleaned up after a failed set-up but what dies with the child.
AbortLeaves(c) ==
    /\ pc[c] = "abort"
    /\ Goto(c, "idle") /\ Dies(c)
    /\ veth' = [veth EXCEPT ![pid[c]] = IF @ = "moved" THEN "none" ELSE @]
    /\ UNCHANGED <<records, todo, ops, names, hist>>

\* Kill and CleanupNetwork, which deletes the pair by its name
Abort(c) ==
    /\ pc[c] = "abort"
    /\ Goto(c, "idle") /\ Dies(c)
    /\ veth' = [veth EXCEPT ![pid[c]] = "none"]
    /\ UNCHANGED <<records, todo, ops, names, hist>>

\* Fault: the address is not kept for the next session.
SaveNothing(c) ==
    /\ pc[c] = "register" /\ ops[c] = <<>>
    /\ Goto(c, "ready")
    /\ UNCHANGED <<records, todo, ops, names, host, hist>>

\* onReady: IP and StaticIP
SaveAddress(c) ==
    /\ pc[c] = "register" /\ ops[c] = <<>>
    /\ Goto(c, "ready")
    /\ ip' = [ip EXCEPT ![c] = addr[c]]
    /\ UNCHANGED <<life, todo, ops, names, host, hist>>

\* "ready" on the pipe
Release(c) ==
    /\ pc[c] = "ready"
    /\ Goto(c, "wait")
    /\ proc' = [proc EXCEPT ![c] = "runs"]
    /\ UNCHANGED <<records, todo, ops, names, pid, addr, veth, hist>>

\* The process ends and is waited for; the deferred calls drop the name, the id ...
Ended(c) ==
    /\ pc[c] = "wait"
    /\ Goto(c, "undo")
    /\ proc' = [proc EXCEPT ![c] = "none"]
    /\ veth' = [veth EXCEPT ![pid[c]] = "none"]
    /\ ops' = [ops EXCEPT ![c] = NameThenId(c, NoIP)]
    /\ UNCHANGED <<records, todo, names, pid, addr, hist>>

\* ... and the pair.
CleanupNetwork(c) ==
    /\ pc[c] = "undo" /\ ops[c] = <<>>
    /\ Goto(c, "idle") /\ Dies(c)
    /\ veth' = [veth EXCEPT ![pid[c]] = "none"]
    /\ UNCHANGED <<records, todo, ops, names, hist>>

-----------------------------------------------------------------------------
\* The daemon dies with its sessions: a child on the pipe exits, a container that
\* runs goes on; a table that is being written is left empty.
Crash ==
    /\ crashes < MaxCrashes
    /\ crashes' = crashes + 1 /\ heard' = FALSE /\ touched' = {}
    /\ pc' = [c \in Containers |-> "idle"]
    /\ todo' = [c \in Containers |-> {}]
    /\ ops' = [c \in Containers |-> <<>>]
    /\ Unlock
    /\ proc' = [c \in Containers |-> IF proc[c] = "runs" THEN "runs" ELSE "none"]
    /\ pid' = [c \in Containers |-> IF proc[c] = "runs" THEN pid[c] ELSE NoPid]
    /\ addr' = [c \in Containers |-> IF proc[c] = "runs" THEN addr[c] ELSE NoIP]
    /\ veth' = [p \in Pids |-> IF \E c \in Containers : pid[c] = p /\ proc[c] # "runs"
                                                        /\ veth[p] = "moved"
                               THEN "none" ELSE veth[p]]
    /\ UNCHANGED <<records, table>>

\* A container that outlived its daemon ends: nobody undoes its registrations.
AdoptedEnds(c) ==
    /\ pc[c] = "idle" /\ proc[c] = "runs"
    /\ Dies(c)
    /\ veth' = [veth EXCEPT ![pid[c]] = "none"]
    /\ UNCHANGED <<records, work, names, hist>>

Session(c) ==
    \/ \E o \in Containers : Preload(c, o)
    \/ Preloaded(c) \/ OpenTable(c) \/ WriteTable(c)
    \/ Spawn(c) \/ LinkMove(c) \/ Abort(c)
    \/ SaveAddress(c) \/ Release(c) \/ CleanupNetwork(c)

Next ==
    \/ \E c \in Containers : \/ Create(c) \/ Delete(c) \/ Start(c)
                             \/ Session(c) \/ Ended(c) \/ AdoptedEnds(c)
    \/ \E s \in Services : Announce(s[1], s[2])
    \/ Announced \/ RemoveTable
    \/ Crash

Spec == Init /\ [][Next]_vars

-----------------------------------------------------------------------------
Pending == [key : Names, to : Addresses \cup {NoIP}]

\* The variables have their types.
TypeOK ==
    /\ life \in [Containers -> {"new", "made", "gone"}]
    /\ ip \in [Containers -> Addresses \cup {NoIP}]
    /\ pc \in [Containers -> {"idle", "preload", "spawn", "move", "abort",
                              "register", "ready", "wait", "undo"}]
    /\ todo \in [Containers -> SUBSET Containers]
    /\ ops \in [Containers -> Seq(Pending)]
    /\ mu \in Containers \cup {Free, Up}
    /\ copy \in [Names -> Addresses \cup {NoIP}]
    /\ table \in [Names -> Addresses \cup {NoIP}]
    /\ cut \in BOOLEAN
    /\ proc \in [Containers -> {"none", "held", "runs"}]
    /\ pid \in [Containers -> Pids \cup {NoPid}]
    /\ addr \in [Containers -> Addresses \cup {NoIP}]
    /\ veth \in [Pids -> {"none", "host", "moved"}]
    /\ heard \in BOOLEAN /\ touched \subseteq Names /\ crashes \in 0..MaxCrashes

\* what the table holds once the write in progress, if any, is done
Content == IF mu = Free THEN table ELSE copy

\* the names of a container that no other has at any time, not even in another case
OwnKeys(c) == {k \in KeysOf(c) : \A o \in Containers \ {c} : k \notin KeysOf(o)}

Right(c, k) == Content[k] = addr[c]
Resolves(c) == \A k \in OwnKeys(c) \ touched : Right(c, k)

\* A container that a session of this daemon runs resolves to the address it has, by
\* its id and its name, whatever other containers preload or drop meanwhile
\* (namespaces.go:182-185, manager.go:207-227).  Excepted are names that another
\* container has or had, also in another case, and what compose wrote since: an up
\* that announces the name with another address, a down that removed the table.
RunningResolves == \A c \in Containers : pc[c] = "wait" => Resolves(c)

\* A daemon that died may have emptied the table under containers that outlived it;
\* once a start of the new daemon has finished its preload they all resolve again,
\* with the same exceptions (manager.go:206).
SurvivorsResolve ==
    heard => \A c \in Containers : proc[c] = "runs" => Resolves(c)

\* No failure leaves a pair behind: one that no container has is of a session that
\* died with its daemon before it moved the pair (namespaces.go:176, veth.go:147).
PairsReleased ==
    \A p \in Pids :
        veth[p] # "none" => \/ \E c \in Containers : pid[c] = p
                            \/ crashes > 0 /\ veth[p] = "host"

\* No pid gives a container the address of a gateway whose fourth octet is 1, as it is
\* unless the file says otherwise, or 0 (namespaces.go:165-170).  The address of the
\* network and the broadcast address are not the matter here.
NotTheGateway ==
    Gateway[2] \in {0, 1} =>
        \A c \in Containers : addr[c] = Gateway => StaticOf[c] = Gateway

-----------------------------------------------------------------------------
\* Inductive strengthening.  What a program counter says of the process, ...
Stages ==
    \A c \in Containers :
        /\ pc[c] \in {"preload", "spawn", "undo"} => proc[c] = "none"
        /\ pc[c] \in {"move", "abort", "register", "ready"} => proc[c] = "held"
        /\ pc[c] = "wait" => proc[c] = "runs"
        /\ pc[c] = "idle" => proc[c] # "held"
        /\ pc[c] # "idle" \/ proc[c] # "none" => life[c] = "made"
        /\ life[c] = "new" => ip[c] = NoIP
        /\ proc[c] # "none" \/ pc[c] = "undo" <=> pid[c] # NoPid
        /\ pid[c] # NoPid <=> addr[c] # NoIP
        /\ ops[c] # <<>> => pc[c] \in {"preload", "register", "undo"}
        /\ mu = c => ops[c] # <<>>

\* ... an address that was kept is the one the container has, ...
Sticky ==
    \A c \in Containers :
        /\ ip[c] # NoIP /\ addr[c] # NoIP => addr[c] = ip[c]
        /\ proc[c] = "runs" \/ pc[c] \in {"ready", "undo"} => addr[c] = ip[c]
        /\ life[c] = "made" /\ StaticOf[c] # NoIP => ip[c] = StaticOf[c]

Elements(q) == {q[i] : i \in DOMAIN q}
Due(c) == Elements(ops[c])

\* ... a registration that is still to come gives a container its own address, by
\* whomever it is made, and only its own session drops it, ...
DueRight ==
    \A s, c \in Containers : \A e \in Due(s) :
        e.key \in OwnKeys(c) /\ life[c] # "gone" =>
            \/ e.to # NoIP /\ e.to = ip[c]
            \/ e.to # NoIP /\ e.to = addr[c] /\ s = c
            \/ s = c /\ pc[c] = "undo"

\* ... and what a session, or a preload of a record that nobody changes, has passed
\* is in the table.
DueOrRight(s, c) == \A k \in OwnKeys(c) \ touched : Right(c, k) \/ \E e \in Due(s) : e.key = k
Registered ==
    \A c \in Containers : pc[c] \in {"register", "ready", "wait"} => DueOrRight(c, c)

Survivor(c) == pc[c] = "idle" /\ proc[c] = "runs"
PreloadedSoFar ==
    \A s, c \in Containers :
        pc[s] = "preload" /\ Survivor(c) => c \in todo[s] \/ DueOrRight(s, c)
SurvivorsBack == heard => \A c \in Containers : Survivor(c) => Resolves(c)

\* A dynamic address does not end in 0 or 1.
Proper(c, a) == a = NoIP \/ a = StaticOf[c] \/ a[2] \notin {0, 1}
ProperAddresses == \A c \in Containers : Proper(c, ip[c]) /\ Proper(c, addr[c])

\* A file that is written is removed under everybody's names.
CutTouched == cut => mu # Free /\ touched = Names

IndInv ==
    /\ CutTouched /\ TypeOK /\ Stages /\ Sticky /\ DueRight /\ Registered
    /\ PreloadedSoFar /\ SurvivorsBack /\ PairsReleased /\ ProperAddresses

-----------------------------------------------------------------------------
\* Not so: a running container resolves by its name.  A name that differs in case has
\* the same record; so has a name given again after a delete, which a preload that
\* read the old record may still register; a repeated up announces the address of its
\* file for the name of a container that has another; and a down removes the table of
\* all who are on its network.
NameResolves == \A c \in Containers : pc[c] = "wait" => Right(c, Key(c))

\* Not so: addresses are distinct.  Pids that agree in their low 16 bits, or end in
\* 0, 1 and 2, give one address, and a container keeps its own while it is stopped.
DistinctAddresses ==
    \A c, o \in Containers : proc[c] = "runs" /\ proc[o] = "runs" /\ addr[c] = addr[o] => c = o

\* Not so: a container without an address of its own connects on any network.  On a
\* /24 network the third octet of its pid is seldom the one of the gateway.
DynamicConnects == \A p \in Pids : Reachable(Address(p))
=============================================================================
