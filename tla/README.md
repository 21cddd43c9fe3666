# minidocker: verification project

TLA+ models, model-checking runs and machine-checked proofs for the container engine
in `src/minidocker` (its user-facing name is Vessel). Paths below are relative to
`src/minidocker`; line numbers are those of the modelled commit.

Contents: 1 inventory, 2 plan, 3 modules and their code, 4 runs, 5 bounds,
6 fairness, 7 proofs, 8 what only model checking shows, 9 disagreements with the
code's own statements, 10 what is not modelled, 11 how to run it.

## 1. Inventory

The daemon `minidockerd` listens on a UNIX socket. Every HTTP request is a goroutine;
`start` is answered at once and goes on in another one. The daemon keeps almost no state
in memory: it is in files, in the kernel, and in processes that outlive it.

| Component | State it keeps | Operations |
|---|---|---|
| Container manager (`internal/container`) | `config.json` per container; `Manager.stopping` in memory | Create, Start, StartAttached, Stop, Delete, Reconcile |
| Isolation (`internal/isolation/namespaces.go`) | the child process, the "ready" pipe | RunParent in the daemon, RunChild in the child |
| Cgroups (`internal/isolation/cgroups.go`) | a directory per container, its members | Apply, KillAll, Cleanup |
| Overlay storage (`internal/storage/overlayfs.go`) | mounts stacked on `<id>/merged` | Mount, Unmount |
| Image store (`internal/storage/image.go`) | a directory per image | PullImage |
| Attach and exec (`internal/api/handlers`, `internal/cli`, `setns.go`) | four yamux streams, a control channel, goroutines on both sides | HandleAttach, HandleExec, RunAttachClient, RunExecClient |
| Embedded DNS (`internal/network/dns.go`) | a server process and a pid file per gateway; a table of names | StartEmbeddedDNS, RunDNSDaemon, RegisterRecord |
| Bridges and veth (`internal/network`) | links, addresses, firewall rules | SetupNamedBridge, DeleteBridge, SetupContainerNetworkDynamic |
| Port proxy (`internal/network/proxy.go`) | a listener per session, two connections per client | StartPortProxy, Close |
| Compose (`internal/compose`) | none of its own | Up, Down |
| Log following (`handle_logs.go`) | a file offset | HandleLogs |
| Daemon process (`cmd/minidockerd`) | boot, serving, shutdown | main |
| CLI and formatting | none | single requests |

How they interact: a session (`StartContainer` or `StartAttached`) pulls the image, mounts
the overlay, saves "running", sets up bridge and DNS, forks the child, enrols it in the
cgroup, connects it, saves its PID, writes "ready" to the pipe, waits, and saves the end.
A stop or delete reads and writes the same file, mount, cgroup and process from another
goroutine. `Manager.mu` guards only `stopping`, and the mutex of `dns.go` only the table
of names.

What is hard: all of the above interleaves without a lock; the daemon may die
between any two steps and containers and DNS servers outlive it; processes are found again
by pid, and pids are reused; set-up fails half way; files are truncated and rewritten in
place; a stop races a start and a session's own end; streams end in several orders.
`PROJECT.json` lists these hazards one by one, each at its line, with the properties that
cover it or the reason why none does.

What makes each component correct:

- Manager: a record that says "running" names the live process and has somebody who will
  rewrite it; a deleted container stays deleted; a stop leaves no process.
- Isolation and cgroups: no user command runs before its limits and its network; by its own
  kill and wait a session reaches nobody else's process; cgroups are released.
- Overlay storage: mounts and unmounts balance, nobody unmounts another session's overlay.
- Image store: a session runs from a complete image, which does not change under it.
- Attach and exec: a kill arrives, goroutines and both sides end, output precedes the answer.
- DNS: after a launch somebody listens; what is taken for healthy serves; a running container resolves to its address, also after a daemon died in a save of the table.
- Bridges and veth: no failure leaves a veth pair; no container gets its gateway's address.
- Compose: Down undoes what Up did, complete or not, but for services it could not delete; what
  Up did stays until Down.
- Port proxy: a direction that ends was passed on whole; connections whose ends read, and the
  listener, end.
- Log following: a reader gets what was there; output is in the log before the session is
  over; a reader that follows ends.

## 2. Plan

Done, in this order:

1. `Lifecycle` with `Sandbox` (abstract life of a container process) and
   `LifecycleSandbox` (the refinement mapping); `LifecycleProofs`.
2. `LifecycleSerial` (restricted use) with `Container` (abstract life of a container), and
   `LifecycleLive` (fairness), over the same actions; proofs in `LifecycleProofs` too.
3. `EmbeddedDNS` with the two requests that launch and the two that take down a network;
   `EmbeddedDNSProofs`.
4. `ImageStore`; `ImageStoreProofs`.
5. `Streams` (attach and exec); `StreamsProofs`.
6. `ContainerNetwork` (addresses, veth pairs, the table of names); `ContainerNetworkProofs`.
7. `Compose` (Up and Down over networks and services); `ComposeProofs`.
8. `LogFollow` (the log between its writers and a reader); `LogFollowProofs`.
9. `PortProxy` (connections through the published port); `PortProxyProofs`.

Left:

- Joining `ContainerNetwork` with `EmbeddedDNS`, so that the server which answers is the
  one whose table is written.

Each module has one passing run; two goroutines or sessions and two of each
resource are enough for the races named in the hazards, and one crash where files or
processes outlive the daemon.

## 3. Modules and their code

Every request or session is a *thread* with a program counter `pc[t]`. A step is one access
to something shared, with all computation up to the next access. Definitions named "Fault"
are not part of any specification: each is a wrong variant of the definition after it, which
the project uses to confirm that its properties notice that mistake.

**Lifecycle** (`manager.go`, `namespaces.go`, `cgroups.go`, `overlayfs.go`, `main.go`).

| State | Code |
|---|---|
| `meta[i]` | `config.json`: state and PID; missing, empty (truncated by `os.WriteFile`) and garbled (two writers overlapped) are values of it |
| `loc[t]` | the `*Container` a method loaded at its head and saves later |
| `fd[t]` | the file a save has open: "open", or "orphan" when it was removed meanwhile |
| `mounts`, `cgdir`, `incg`, `net` | overlays, cgroup directories and members, connected processes |
| `pst`, `own`, `kids`, `child[t]` | process table, the container of a process, unreaped children, `cmd.Process.Pid` |
| `stopping`, `daemon`, `todo`, `adopted`, `crashes`, `life` | `Manager.stopping`, phases of main, Reconcile's work, histories |

A save is two steps (`OpenConfig`, `WriteConfig`), because readers and the end of the daemon
come between them. `StopContainer` is load, mark, `cgroup.kill`, poll with SIGKILL, save.
A failed set-up kills the child without waiting, as the code does. `ControlKill` is the kill of
the goroutine that reads the control channel of an attach (`namespaces.go:130-144`): it keeps the
pid and may come after the session has waited, when the pid is another process's, and no property
says that it does not. `Crash` ends all threads
at any step; a child that waits on the pipe then reads its end and exits.

**Sandbox** says what a process of a container may go through: made, limited, connected,
running, dead, gone, for one container only. **LifecycleSandbox** maps `pst`, `incg`, `net`
and `own` to it.

**LifecycleSerial** restricts when requests begin, not what they do. *Serial*: per container,
the next request begins when the previous one, its session included, has ended, except a
stop of a session that waits. *Sequential*: one client that waits for every answer.
Nothing enforces the first; it is what a lock per container would give, and its properties
say what such a lock would buy. Together they make the daemon an implementation of
**Container**: created once, started any number of times but never twice at once, deleted only
while its command does not run, and never back. A step that ends a command may be one that was
meant for another container, since a stop kills whoever has the pid it loaded, and so does the
goroutine of the control channel.

**EmbeddedDNS** (`dns.go`, `bridge.go`, `delete.go`, `down.go`, `engine.go`). Threads run
`StartContainer` (server, bridge, server), `StartAttached` or `Engine.Up` (bridge, server),
`Engine.Down` and the deletion of a network. `pidfile[g]` is the only trace of a server; a
reader may find it truncated (`BeingWritten`). A server binds when its gateway's address is
on a bridge and nobody else has it, else it exits and stays a zombie while the daemon that
forked it lives. `Reusable` are the pids that the kernel hands out again while a pid file or a
thread still names them; nothing in the code rules that out. `CarefulSpec` leaves out the launch
before the bridge and overlapping use of a network that is being taken down.

**ImageStore** (`image.go`). `layers[i]` and `bin` are what an image directory holds; the
test of `rootfs/bin` is the only mark of completeness. A download or an extraction may fail
at any layer; bin appears while its layer is being extracted; `RemoveAll` takes files from
under another extraction (`hurt`). `Serialised` names the images whose pulls do not overlap,
which nothing in the code sees to. `Crash` is the end of the daemon, by itself or because a download
had no response at all: `image.go:103` then reads the status of a nil response and panics.

**Streams** (`handle_attach.go`, `handle_exec.go`, `cli/attach.go`, `cli/exec.go`,
`namespaces.go:90-144`, `setns.go`). One session, attach or exec, with the handler (`hpc`), the
process, the copy goroutines (`copier`, `feeder`), the forwarder and the consumer of
`controlChan` (`fwd`, `cons`, `chan`), the four streams, and the client's goroutines with its
`select`. `exec.Cmd.Wait` waits for the copies of streams that are no files; the PTY of an
attach is a file, so nothing waits for its copy. The exit code of a failed set-up is 1, or 0 if
a stop has marked the container meanwhile. Yamux is external: a stream keeps order,
and what was written before either side closed can still be read.

**ContainerNetwork** (`manager.go:97-128, 184-236`, `namespaces.go:146-201`, `veth.go`,
`dns.go:35-77`, `engine.go:106-111`, `down.go:49-50`). One network.

| State | Code |
|---|---|
| `life[c]`, `ip[c]` | that a record exists, and its `StaticIP` |
| `pc[c]`, `todo[c]`, `ops[c]` | the session: where it is, the records its preload has still to read, and the registrations it has still to make, in order |
| `mu`, `copy`, `table`, `cut` | the mutex of `dns.go`, what its holder has read, `<gateway>.json`, which is empty between the truncation and the write, and whether it was removed in between |
| `touched` | history: the names that compose wrote last, and not with the container's address |
| `proc[c]`, `pid[c]`, `addr[c]`, `veth[p]` | the process, its pid, the address of its `eth0`, and where the pair `veth0_<pid>` is |

A registration is `OpenTable` and `WriteTable`, under the mutex. Two writers of the table are no
sessions: `Announce` is the address that compose up registers for a service before it looks whether
there is a container of that name, and `RemoveTable` is compose down, which removes the file without the
mutex. A container has its id for a name unless one was given (`NameOf`). `Address` is the arithmetic
of `namespaces.go:165-170`; `Lower` is the function `strings.ToLower` on the names of the
instance. The set-up of the pair may fail before and after the move into the
container's namespace, and the end of a process takes what was moved. A container is
not started twice at once (`LifecycleSerial` says what such an order is worth).

**Compose** (`engine.go`, `down.go`, `handle_compose.go`, `handle_network_delete.go`). `links`,
`on` and `dns` are the bridges, their addresses and the servers, `svc` and `at` the services'
containers with the network their record names, and `pc`, `todo`, `left`, `got`, `net` the
request of a file. The engine keeps nothing between requests; `todo` as a set stands for the
random order of Go maps, and the number of a network without a subnet is computed from how many such
networks have been passed (`UpNumber`, `DownNumber`). The launch of a server and the writing of
its pid file are two steps, and a launch may go wrong as `EmbeddedDNS` says; `lost` are the gateways where
that happened, or where the daemon died between the two. A deletion may fail, which Down does not look at (`kept`). A failure
ends Up where it is; a crash, of which there may be any number, ends every request.

**LogFollow** (`handle_logs.go`, `manager.go:135-178, 229-277, 293-325`). `printed`, `inlog` and
`dropped` count lines from the command through the pipe to `container.log`; `sink` says whether
the copy has a log to write to, for a session that cannot open it runs on without, and a write that fails ends the copy; `rec` is the state in
the record, which nobody can read while a save goes on (`Saving`). Sessions, a stop and a crash
change both, while a reader alternates between the end of file and the record.

**PortProxy** (`proxy.go`, `namespaces.go:187-192`). The listener, its goroutine, and per
connection the handler, the two copies and the channel `done`. A direction is three counters (sent,
written on, received) and the piece that its copy holds. TCP is external: it keeps
order, holds `Buffer` pieces for a receiver that does not read and then blocks the writer,
and a socket closed with unread data, or written to after that, resets the connection, after
which the rest of the other direction may be lost.

**The MC modules** add only symmetry sets and constant values. Threads, pids, ids and gateways
are only compared for equality in the modules with symmetry, so
permuting them is sound for the safety runs; runs with liveness use no symmetry, nor do
those of `ContainerNetwork` and `Compose`, whose elements differ.

## 4. Runs

| Run | Specification | What it shows |
|---|---|---|
| `overlap` | Lifecycle, any overlap of two requests, one crash | `RunningSupervised`, `ConfinedBeforeUser`, `SessionOwnsChild`, `MountsBalanced`, and `ImplementsSandbox` |
| `serial` | SerialSpec, two containers, a reused pid, two crashes | `LiveIsRecorded`, `MountsExact`, `StopLeavesNothing`, and `ImplementsContainer` |
| `liveness` | LifecycleLive, no crash | `StopEndsSession`, `RecordSettles` |
| `dns` | CarefulSpec, two networks, two restarts | `DueIsServed` |
| `images` | three sessions, three images, all failures, ends of the daemon | `LowerStays` |
| `streams` | both kinds of session, with fairness | `ExecAnswersLast`, `KillEnds`, `ControlEnds`, `SessionEnds` |
| `network` | two containers, compose files that write the same table, one crash, all failures of the set-up | `RunningResolves`, `SurvivorsResolve`, `PairsReleased`, `NotTheGateway` |
| `compose` | two files at once, failures, ends of the daemon | `DownUndoes`, `UpStays` |
| `logs` | two sessions, with and without a log, a stop, a crash and a reader, with fairness | `SnapshotSent`, `LoggedAtEnd`, `FollowEnds`, `CatchesUp` |
| `proxy` | one connection, with fairness | `FirstIsComplete`, `ConnectionsEnd`, `ListenerEnds`, `AnswerArrives` |
| `double_start`, `unhealthy_dns` | as section 9 | one disagreement each, by counterexample |

`TypeOK` is checked in one run of every system. The properties, in words, are in the
comments above their definitions.

## 5. Bounds and why they are enough

- `overlap`: one container, two threads, two pids, one crash. The races are between two
  requests on one record; a second pid is there for a second start. Without serialisation
  a third request would only add combinations of pairwise races, at a cost beyond the time
  a run should take.
- `serial`: two containers and one pid that also the host may take (`HostPids`), so that a
  pid is reused within and across containers; two crashes, so that a recovery is interrupted.
- `liveness`: one container, two threads, one pid: a stop and a session.
- `dns`: two gateways (so that killing the wrong server is possible), two threads, four server
  processes in all, two restarts. No pid is handed out again while a file names it
  (`Reusable = {}`): with such a pid `DueIsServed` is false, since the launch takes a stranger for
  its server and Down kills it, and no check in the code could make it true.
- `images`: two layers, bin with the first (a failure after it is partial) or with the last;
  three sessions, so that one runs while another pulls and a third pulls something else.
- `streams`: `Cap = 1` for the 4 of the code and four events (three window sizes and a kill),
  so that the channel is full and the forwarder blocks; two pieces of output and of input, so that
  one is consumed before and one after the process ends.

- `network`: two containers, one whose name is its id, one with a static address and a name in
  mixed case. Compose announces that name with its address, and the same name in lower case with
  another. No two containers share a name, since `OwnKeys` would leave only their ids: shared names, in
  one case or two, are covered by the proofs, which know of no other constants. `Octet = 4` stands
  for 256, so that the pids 1 and 22 reach the lowest octets, the correction of the
  fourth and the cut of the third; the arithmetic is proved for every `Octet` above 2.
  One crash: it may come in the middle of a save of the table, and after it the containers
  that survived, a second daemon and its preload are there.
- `compose`: a file with two networks without a subnet, whose numbers depend on the order, and a
  service that joins both; a second file with one network that has a subnet runs at the same
  time. Files that mix both kinds, or have several services, are left to the proofs. There is no
  bound on crashes or on failures.
- `logs`: three lines and two sessions, so that a reader meets the end of one session
  and the beginning of the next, and lines come before, between and after its looks at the record.
- `proxy`: one connection, since connections share only the listener, and two
  pieces in each direction with room for one, so that the copy may be blocked in a write with the second
  one in its hand.

`CHECK_DEADLOCK FALSE` is used where the system may rightly stop: when every id was
created and deleted there is nothing to ask (`Lifecycle`, `ContainerNetwork`), a session that is over on
both sides ends (`Streams`), the log is complete and nobody asks (`LogFollow`), the
port is closed and its connections are over (`PortProxy`). `dns`, `images` and `compose` check deadlock; in
the last two the daemon may always die, so that only `dns` shows something by it.

## 6. Fairness

`LifecycleLive`, `Streams`, `LogFollow` and `PortProxy` assume weak fairness of the steps of goroutines (the Go scheduler runs
every runnable goroutine; a blocking call is not enabled until it can return), of the death
of a process that was sent SIGKILL, and of boot. `PortProxy` adds that Accept fails on a listener
that was closed; a copy whose write is blocked is not enabled, and nothing is assumed of the delivery: that
a receiver reads what comes as long as it stays (`Reads`) is a premise of each property that needs it. Never
assumed: that a request comes, that
a user process prints or ends, that a user types, that a client connects, sends, stays or leaves, that the daemon ends
or is started. No strong fairness is used. `streams` treats the handler as one process
under one fairness condition, since at most one kind of step of it is enabled; where it may
fail or go on, both are allowed for ever. In `LogFollow` the session, the copy, the stop and
the reader are one goroutine each.

## 7. Proofs

All proofs are for every value of the constants under the named assumptions.

- `LifecycleProofs`: `TypeCorrect`, `Confined`, `ChildrenOwned`, `Supervised`, and
  `Balanced`, and `Inductive` (`Spec => []IndInv`). `IndInv` has four parts. *Confinement*: being
  confined is not inductive alone; one needs that a session past Apply has its child in the
  cgroup (`ChildPrepared`), that the pid it holds is still its own (`SessionOwnsChild`, which
  holds because an unreaped pid is not reused; the control goroutine's late kill is not meant), that free pids leave no trace (`TableClean`),
  and that the directory of a live member cannot be removed (`MembersHaveDir`). *Supervision*:
  only a session's two saves write "running" (`QuietSaves`), goroutines exist only while
  the daemon serves (`PhaseOK`), and at boot Reconcile still has to look at what it has not
  corrected (`RunningReconciled`). *Overlays*: `MountsBalanced` compares a number with the
  cardinality of the holders, which is only a number if the holders are finitely many; the set of
  goroutines need not be finite, but only finitely many are at work at a time (`Working`).
- In the same module, `Implementation`. Each step moves each process along an edge of
  Sandbox or leaves it; it uses the invariant, because that a released child is connected
  is a fact about all earlier steps.
- In the same module, the serial use: `SerialLiveRecorded`, `SerialOneInstance`, `SerialGoneStaysGone`,
  `SerialMountsExact`, `SerialStopLeavesNothing`, `SerialImplementation`, all from `SerialInductive`
  (`SerialSpec => []SerialInv`). That a live command is recorded is not inductive: one needs that
  whoever writes a record finds its container quiet (`QuietContainers`), that start, attach and delete
  decide on a copy which is still what the file says (`CopiesCurrent`), because two requests
  on one container are always a stop and the session it found waiting (`OnePerContainer`), that the
  PID is in the file before the command is let go (`PidAnnounced`), and that an id nobody has used, or
  that is gone, has no record and no request (`OnlyUsed`). A stop leaves nothing because a
  process on the pipe has its session at the other end (`HeldHasSession`), which is not waiting, and so
  cannot be beside a stop. The refinement of `Container` adds that a save never writes an unreadable
  copy (`CopiesReadable`), and that a kill ends one command at most (`KillsOne`).
- `EmbeddedDNSProofs`: `ServerListens` and `HealthyServes`, under `CarefulSpec` and
  `Reusable = {}`: no first `StartContainer` on a network, no teardown beside other use, no pid that is handed out again
  while a file names it. The code ensures none of the three, so these theorems say what it would
  take. The last is the property that the run `unhealthy_dns` shows to be false without the care. The invariant follows a server from fork to pid file to bind: what a file
  names is of that gateway, and is a zombie only if another serves (`Recorded`); what a
  thread forked and has not recorded satisfies the same (`Launched`); what is due has a server that
  serves or one still on its way (`DueReady`). `DNSTypes` holds for `Spec`, with reused pids too, and `CarefulTypes` is its restriction to the use that the run checks.
- `ImageStoreProofs`: `StoreTypes`, `LowerIsStable`, the latter for images that have their bin and are
  pulled by one session at a time. While such an image is mounted its bin is
  there (`Mounted`), because a pull that is past the layer with bin has put it there
  (`BinInTime`) and pulls of it do not overlap (`OnePull`).
- `StreamsProofs`: `StreamTypes`, `ExecAnswerComesLast`. Output is conserved (`Conserved`), an
  exec is answered only after its copy ended (`Settled`), which then left nothing behind or
  has nobody to send it to (`Drained`); the answer keeps that (`Told`).

- `ContainerNetworkProofs`: `RunningIsFound`, `SurvivorsAreFound`, `PairsAreReleased`,
  `GatewayIsFree`. That a running container resolves is not inductive: others preload
  and drop at the same time. The invariant says that whatever registration is still to come, from
  whomever, gives a container its own address unless its own session drops it (`DueRight`);
  this needs that the address in the record is the one the container has (`Sticky`), for a preload reads records.
  `Registered` and `PreloadedSoFar` say what a session, or a preload, has already put into the table, and
  `Content` reads through the copy of the mutex's holder, so that the truncated file is no hole.
  Only keys that no other container has, also in another case, are spoken of (`OwnKeys`), and not those that
  compose wrote last (`touched`); a file that is removed while it is written is gone for all (`CutTouched`).
  `GatewayIsFree` is about gateways that end in 0 or 1. `AddressesDiffer` is about the arithmetic
  alone: which pids can share an address at all.
- `ComposeProofs`: `DownFindsAll`, `UpIsKept`. Down walks the map in another order than Up did, so
  single networks and numbers do not match, but the sets do: after Up has passed a set of
  networks it has used exactly `Passed(f, todo)`, and Down has freed exactly that. The lemmas on
  `Passed` are about cardinalities: the number given next is the first one not yet used. `UpSoFar`,
  `UpDone`, `DownSoFar`, `DownDone` state this for each phase, and `Origins` that whatever is on a bridge
  or in a record came from one file, so that files that share nothing (`Apart`) do not touch each other.
- `LogFollowProofs`: `SnapshotIsSent`, `OutputIsLogged`. Only a session that waits has a command that prints
  to its pipe (`Supervised`), no other has output left to copy (`Settled`), and a copy that still
  writes to the log has dropped nothing (`Kept`).
- `PortProxyProofs`: `ProxyTypes`, `FlowsOnce`, `FirstCompletes`, `SignalsAlwaysFit`. The types need that no more is written
  than was read and no more received than was written (`Flow`, which `FlowsOnce` states). A copy that ends while both sockets are open has nothing left to copy or lost an
  end (`EndsSettled`); what is in the channel has ended (`Signalled`), so what wakes the handler was settled,
  and remains so because its sender sends no more. Each copy signals once (`SignalsOnce`), so
  two places are enough for both.
- `NetworkTypes`, `ComposeTypes` and `LogTypes` are the type invariants of the three.

Assumptions: those named `...Assumption` in each module
only say that bounds are numbers, that functions have their domains, and that the values that stand for
"none" are not members of the sets. Every one is evaluated by a run.

## 8. Only model-checked

All liveness (`StopEndsSession`, `RecordSettles`, `KillEnds`, `ControlEnds`, `SessionEnds`, `FollowEnds`,
`CatchesUp`, `ConnectionsEnd`, `ListenerEnds`, `AnswerArrives`), since the prover has neither fairness nor
`ENABLED`. Every safety property of a passing run is also a theorem; the two runs that expect a violation
check properties that are theorems under a restricted use (`SerialOneInstance`, `HealthyServes`).

## 9. Where the code and its own statements disagree

With a run that shows it:

- `double_start`: two starts of one container both pass the check and run the command.
- `unhealthy_dns`: the first start on a network launches DNS before the bridge; the server
  cannot bind, stays a zombie and is taken for healthy.

As definitions marked "Not so" next to the properties that do hold; naming one in a cfg
instead of those properties gives the counterexample:

- `StopLeavesNothing` under `SequentialSpec` instead of `SerialSpec`: a stop that meets a session
  before its PID is recorded answers with success and the process goes on.
- `CgroupReleased` (`LifecycleSerial`): after a failed set-up the child is killed and the cgroup
  removed at once, which fails while the child is dying; it is not tried again.
- `RecordSettles` (`LifecycleLive`) with `MaxCrashes = 1`: nobody waits for a container that
  outlived a daemon; its record says running for ever.
- `RunsComplete` (`ImageStore`): a pull that fails after bin leaves an image the next session runs from.
- `DistinctAddresses` (`ContainerNetwork`) with the pids 1 and 18 and no static address: pids that agree in their low 16 bits, or end in 0, 1 and 2,
  give one address (`namespaces.go:165`), and a container keeps its own while another gets it.
- `DynamicConnects`, with `Wide = FALSE`: on a network with a subnet, which is a /24, the
  third octet of a pid is seldom the gateway's, so the default route fails (`veth.go:140`) and
  with it the start.
- `NameResolves` (`ContainerNetwork`): a running container need not resolve by its name, see the comment
  there: two names in different case, a name given again, and the two writers of compose.
- `DownKillsItsOwn` (`EmbeddedDNS`) with a pid in `Reusable`: a pid file may name a process of another network, which Down
  kills (`down.go:43-48`).
- `DownLeavesNothing` (`Compose`): Down drops the errors of stopping and deleting (`down.go:18-19`) and goes
  on, and a server whose daemon died before `dns.go:100` is named by no file.
- `LoggedWhenStopped` (`LogFollow`): a stop saves "stopped" while the session's last lines are being copied.
- `LeavingEnds` (`PortProxy`): a client that is gone does not end its connection while the copy waits in a
  write (`proxy.go:67`) for a container that does not read.
- `Isolated` (`Compose`): a second Up may number the networks in another order and put each one's
  gateway on the other's bridge, because `bridge.go:31`, whose comment says that a bridge should not get
  several addresses, only looks for the same one; and every file counts from 20.
- `FollowsToTheEnd` (`LogFollow`): a reader that follows misses the lines between its end of file
  and its look at the record, and takes a save in progress for the end.
- `HalfCloseAnswered` (`PortProxy`): a client that shuts its sending half and waits loses the answer,
  since the handler closes both sockets at the first end (`proxy.go:83`).

Seen in the models, without a document that says otherwise: a save after a
delete recreates the deleted container; stale copies of a record
overwrite newer ones; two saves can leave an unreadable file; a delete of a container that
is starting; a stop mark that outlives its session; output in the PTY lost at the end of an
attach; an exit code dropped by the client's select; an exec that waits for its input after
its command ended; a forwarder blocked for ever when attach fails early; names that differ in
case only share a key of the DNS table (`dns.go:44`), though `manager.go:115` tells them apart; the
lines of a container that outlived its daemon are lost; a kill by a goroutine of an attach
after its process was reaped (`namespaces.go:130-144`, 201). Seen in the
source, outside the models: the two compose files of the repository share the network
`backend`, so a Down of one takes the bridge and the server of the other; `compose up` says
that it starts the services (`cli/compose.go:21`) and Up only creates them; two creates with one
name at once both pass (`manager.go:115`).

## 10. Not modelled, and why

- Firewall rules: they accumulate with every session and nothing reads them.
- Limits, statistics, environment, `pivot_root`, window sizes: data or single system calls on
  which no property depends.
- I/O errors of saves: the methods ignore them; the resulting empty file is modelled.
- The HTTP layer, argument parsing, parsing of compose files, printing: no state of their own.
- Lookup by name and uniqueness of names: lookup is by id, and `Create` of `ContainerNetwork` is one step.
- `Streams` and `PortProxy` assume that the daemon stays up; its end is modelled in `Lifecycle` and
  takes every connection and port with it. `Streams` does not bound the
  PTY's buffer and does not reuse pids.
- `ContainerNetwork`: the save of the address is one step (its halves are in `Lifecycle`), as is the
  saving of a record that a preload finds unreadable; a pid is not handed out again while a session
  still uses it to clean up; one network, with one preload per start.
- `Compose`: the table of names is in `ContainerNetwork`; requests of one file, and the starts and ends of its services, do not overlap with
  one another; a network is deleted by hand only while no file that has it is up or in work;
  a gateway that is on two bridges counts as served when its one server is there.
- `LogFollow`: one reader, since readers change nothing; two saves that overlap do not garble the record
  (they do in `Lifecycle`).

## 11. Running

`tlc -config MCLifecycle.cfg MCLifecycle` and likewise for the other configurations named after their
module; `DoubleStart.cfg` is for `MCLifecycleSerial` and `UnhealthyDNS.cfg` for `MCEmbeddedDNS`. `tlapm` on
each module whose name ends in `Proofs`. `overlap` takes one to three minutes
on two cores, `compose` about one, `streams` and `serial` about half a minute, the rest less.
