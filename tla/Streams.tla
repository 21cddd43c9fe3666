------------------------------- MODULE Streams -------------------------------
(***************************************************************************)
(* One interactive session over yamux: HandleAttach or HandleExec in the   *)
(* daemon, RunAttachClient or RunExecClient in the terminal, and the       *)
(* goroutines each of them starts.  A behaviour begins when the four       *)
(* streams are open.  The daemon stays up.                                 *)
(*                                                                         *)
(* A yamux stream keeps its order, loses nothing of what was written before *)
(* either side closed, and ends with EOF after it.                         *)
(***************************************************************************)
EXTENDS Naturals, Sequences

CONSTANTS
    Cap,      \* capacity of controlChan (4 in the code)
    MaxMsgs,  \* bound: control messages of a client
    MaxOut,   \* bound: pieces of output
    MaxIn     \* bound: pieces of input

ASSUME StreamsAssumption ==
    Cap \in Nat \ {0} /\ MaxMsgs \in Nat /\ MaxOut \in Nat /\ MaxIn \in Nat

VARIABLES
    kind,     \* "attach" or "exec"
    hpc,      \* next step of the handler
    proc,     \* the process: "held" is the child of RunParent before "ready"
    code,     \* its exit code
    exitCode, \* the handler's
    made,     \* pieces of output the process wrote
    pending,  \* those still in the PTY or the pipe
    copier,   \* goroutine that copies them to the stdout stream
    feeder,   \* goroutine of exec.Cmd that copies the stdin stream to the process
    fwd,      \* goroutine that decodes the control stream
    held,     \* the event it is sending
    chan,     \* controlChan, closed when fwd is done
    cons,     \* goroutine that handles the events
    ctl,      \* control stream to the daemon
    stdin,    \* pieces in the stdin stream
    stdout,   \* pieces in the stdout stream
    answer,   \* exit message in the control stream to the client
    closed,   \* the handler closed its streams and the connection
    cli,      \* the client's main
    status,   \* what it returned
    shown,    \* pieces it printed
    errs,     \* errChan holds something
    exitChan, \* exitCodeChan
    sent,     \* control messages sent, input typed: bounds only
    typed,
    killed    \* the client sent "kill"

handler == <<hpc, exitCode, closed, answer>>
process == <<proc, code, made>>
outputs == <<pending, copier, stdout, shown>>
inputs == <<feeder, stdin, typed>>
control == <<fwd, held, chan, cons, ctl, sent, killed>>
client == <<cli, status, errs, exitChan>>
vars == <<kind, handler, process, outputs, inputs, control, client>>

Codes == {0, 1}
NoCode == 2
Live == {"held", "running"}
Attached == kind = "attach"

\* what the client writes still reaches the daemon
Connected == cli = "on" /\ ~closed

Init ==
    /\ kind \in {"attach", "exec"}
    /\ hpc = "start" /\ proc = "none"
    /\ code = 0 /\ exitCode = 0
    /\ made = 0 /\ pending = 0 /\ stdout = 0 /\ shown = 0
    /\ copier = "off" /\ feeder = "off" /\ cons = "off"
    /\ fwd = IF Attached THEN "read" ELSE "off"
    /\ held = "none" /\ chan = <<>> /\ ctl = <<>>
    /\ stdin = 0 /\ sent = 0 /\ typed = 0
    /\ answer = NoCode /\ exitChan = NoCode /\ status = NoCode
    /\ closed = FALSE /\ errs = FALSE /\ killed = FALSE
    /\ cli = "on"

-----------------------------------------------------------------------------
\* The handler.  StartAttached fails before it has a process, execCmd cannot
\* be started, or no request comes from a client that is gone.
StartFails ==
    /\ hpc = "start"
    /\ exitCode' = 1 /\ hpc' = "answer"
    /\ UNCHANGED <<kind, closed, answer, process, outputs, inputs, control, client>>

\* RunParent has started the child and the consumer of controlChan; execCmd.Run
\* has started the process and one goroutine for each stream that is no file.
StartProcess ==
    /\ hpc = "start"
    /\ copier' = "on"
    /\ \/ /\ Attached
          /\ proc' = "held" /\ cons' = "on" /\ hpc' = "setup"
          /\ UNCHANGED feeder
       \/ /\ ~Attached
          /\ proc' = "running" /\ feeder' = "on" /\ hpc' = "wait"
          /\ UNCHANGED cons
    /\ UNCHANGED <<kind, exitCode, closed, answer, code, made, pending, stdout, shown,
                   stdin, typed, fwd, held, chan, ctl, sent, killed, client>>

\* Cgroup or network fail: the child is killed, and the PTY closed; a stop that was
\* asked for clears this error, too.
SetupFails ==
    /\ hpc = "setup"
    /\ proc' = "over" /\ code' = 1 /\ exitCode' \in 0..1 /\ copier' = "done" /\ hpc' = "answer"
    /\ UNCHANGED <<kind, closed, answer, made, pending, stdout, shown, inputs, control, client>>

\* "ready" is written; a child that was killed meanwhile does not read it
Ready ==
    /\ hpc = "setup"
    /\ proc' = IF proc = "held" THEN "running" ELSE proc
    /\ hpc' = "wait"
    /\ UNCHANGED <<kind, exitCode, closed, answer, code, made, outputs, inputs, control, client>>

\* cmd.Wait of an attached session waits for the process only, and then the PTY
\* is closed with what it holds; a stop that was asked for clears the error.
WaitAttached ==
    /\ Attached /\ hpc = "wait" /\ proc = "over"
    /\ exitCode' \in 0..code
    /\ copier' = "done" /\ hpc' = "answer"
    /\ UNCHANGED <<kind, closed, answer, process, pending, stdout, shown, inputs, control, client>>

\* Fault: Wait returns when the process ends, whatever the copies do.
WaitProcessOnly ==
    /\ ~Attached /\ hpc = "wait" /\ proc = "over"
    /\ exitCode' = code /\ hpc' = "answer"
    /\ UNCHANGED <<kind, closed, answer, process, outputs, inputs, control, client>>

\* execCmd.Run also waits for the copies of all three streams.
WaitExec ==
    /\ ~Attached /\ hpc = "wait" /\ proc = "over"
    /\ copier = "done" /\ feeder = "done"
    /\ exitCode' = code /\ hpc' = "answer"
    /\ UNCHANGED <<kind, closed, answer, process, outputs, inputs, control, client>>

\* the exit message is encoded; to a client that is gone the write fails
Answer ==
    /\ hpc = "answer"
    /\ answer' = IF cli = "on" THEN exitCode ELSE answer
    /\ hpc' = "close"
    /\ UNCHANGED <<kind, exitCode, closed, process, outputs, inputs, control, client>>

\* the deferred calls: streams, session and connection
Close ==
    /\ hpc = "close"
    /\ closed' = TRUE /\ hpc' = "done"
    /\ UNCHANGED <<kind, exitCode, answer, process, outputs, inputs, control, client>>

-----------------------------------------------------------------------------
Produce ==
    /\ proc = "running" /\ made < MaxOut
    /\ made' = made + 1 /\ pending' = pending + 1
    /\ UNCHANGED <<kind, handler, proc, code, copier, stdout, shown, inputs, control, client>>

Exit ==
    /\ proc = "running"
    /\ proc' = "over" /\ code' \in Codes
    /\ UNCHANGED <<kind, handler, made, outputs, inputs, control, client>>

\* io.Copy of the output: until the other side of the PTY or the pipe is closed,
\* or nobody takes it
CopyOutput ==
    /\ copier = "on"
    /\ \/ /\ pending > 0 /\ Connected
          /\ pending' = pending - 1 /\ stdout' = stdout + 1
          /\ UNCHANGED copier
       \/ /\ \/ pending > 0 /\ ~Connected
             \/ pending = 0 /\ proc = "over"
          /\ copier' = "done"
          /\ UNCHANGED <<pending, stdout>>
    /\ UNCHANGED <<kind, handler, process, shown, inputs, control, client>>

\* Fault: a write to a process that is over does not end the copy.
CopyInputToEnd ==
    /\ feeder = "on"
    /\ \/ stdin > 0 /\ stdin' = stdin - 1 /\ UNCHANGED feeder
       \/ stdin = 0 /\ cli = "done" /\ feeder' = "done" /\ UNCHANGED stdin
    /\ UNCHANGED <<kind, handler, process, outputs, typed, control, client>>

\* io.Copy of the input of an exec: it ends with the stream, or when it writes
\* to a process that is over; it is not told that the process ended
CopyInput ==
    /\ feeder = "on"
    /\ \/ /\ stdin > 0
          /\ stdin' = stdin - 1
          /\ feeder' = IF proc = "over" THEN "done" ELSE feeder
       \/ /\ stdin = 0 /\ cli = "done"
          /\ feeder' = "done"
          /\ UNCHANGED stdin
    /\ UNCHANGED <<kind, handler, process, outputs, typed, control, client>>

\* Fault: the forwarder ends without closing the channel.
DecodeNoClose ==
    /\ fwd = "read"
    /\ ctl # <<>>
    /\ held' = Head(ctl) /\ ctl' = Tail(ctl) /\ fwd' = "send"
    /\ UNCHANGED <<kind, handler, process, outputs, inputs, chan, cons, sent, killed, client>>

\* The forwarder of HandleAttach decodes one message, or ends with the stream
\* and closes controlChan ...
Decode ==
    /\ fwd = "read"
    /\ \/ /\ ctl # <<>>
          /\ held' = Head(ctl) /\ ctl' = Tail(ctl) /\ fwd' = "send"
       \/ /\ ctl = <<>> /\ ~Connected
          /\ fwd' = "done"
          /\ UNCHANGED <<held, ctl>>
    /\ UNCHANGED <<kind, handler, process, outputs, inputs, chan, cons, sent, killed, client>>

\* Faults: a queue without a bound instead of the channel; an event is dropped
\* when the channel is full.
ForwardUnbounded ==
    /\ fwd = "send"
    /\ chan' = Append(chan, held)
    /\ held' = "none" /\ fwd' = "read"
    /\ UNCHANGED <<kind, handler, process, outputs, inputs, cons, ctl, sent, killed, client>>

ForwardDrops ==
    /\ fwd = "send"
    /\ chan' = IF Len(chan) < Cap THEN Append(chan, held) ELSE chan
    /\ held' = "none" /\ fwd' = "read"
    /\ UNCHANGED <<kind, handler, process, outputs, inputs, cons, ctl, sent, killed, client>>

\* ... and sends it, as soon as the channel has room
Forward ==
    /\ fwd = "send" /\ Len(chan) < Cap
    /\ chan' = Append(chan, held)
    /\ held' = "none" /\ fwd' = "read"
    /\ UNCHANGED <<kind, handler, process, outputs, inputs, cons, ctl, sent, killed, client>>

\* The goroutine of RunParent: it outlives RunParent, and ends with the channel.
Consume ==
    /\ cons = "on"
    /\ \/ /\ chan # <<>>
          /\ chan' = Tail(chan)
          /\ IF Head(chan) = "kill" /\ proc \in Live
             THEN proc' = "over" /\ code' = 1
             ELSE UNCHANGED <<proc, code>>
          /\ UNCHANGED cons
       \/ /\ chan = <<>> /\ fwd = "done"
          /\ cons' = "done"
          /\ UNCHANGED <<chan, proc, code>>
    /\ UNCHANGED <<kind, handler, made, outputs, inputs, fwd, held, ctl, sent, killed, client>>

-----------------------------------------------------------------------------
\* The client of an attach sends window sizes, and "kill" at the first SIGINT or
\* SIGTERM.
SendResize ==
    /\ Attached /\ Connected /\ sent < MaxMsgs
    /\ ctl' = Append(ctl, "resize") /\ sent' = sent + 1
    /\ UNCHANGED <<kind, handler, process, outputs, inputs, fwd, held, chan, cons, killed, client>>

SendKill ==
    /\ Attached /\ Connected /\ ~killed
    /\ ctl' = Append(ctl, "kill") /\ killed' = TRUE
    /\ UNCHANGED <<kind, handler, process, outputs, inputs, fwd, held, chan, cons, sent, client>>

\* Only an exec waits for its input; that of an attach is of no consequence.
Type ==
    /\ ~Attached /\ Connected /\ typed < MaxIn
    /\ stdin' = stdin + 1 /\ typed' = typed + 1
    /\ UNCHANGED <<kind, handler, process, outputs, feeder, control, client>>

\* End of the client's standard input: its copy ends, the stream stays open.
EndInput ==
    /\ cli = "on"
    /\ errs' = TRUE
    /\ UNCHANGED <<kind, handler, process, outputs, inputs, control, cli, status, exitChan>>

Display ==
    /\ cli = "on" /\ stdout > 0
    /\ stdout' = stdout - 1 /\ shown' = shown + 1
    /\ UNCHANGED <<kind, handler, process, pending, copier, inputs, control, client>>

\* The copy of stderr, which holds nothing, ends with the connection; that of
\* stdout does so when it has printed everything.
EndOutput ==
    /\ cli = "on" /\ closed
    /\ errs' = TRUE
    /\ UNCHANGED <<kind, handler, process, outputs, inputs, control, cli, status, exitChan>>

ReadExit ==
    /\ cli = "on" /\ answer # NoCode
    /\ exitChan' = answer /\ answer' = NoCode
    /\ UNCHANGED <<kind, hpc, exitCode, closed, process, outputs, inputs, control,
                   cli, status, errs>>

\* the select: an exit code, or the end of any copy
Return ==
    /\ cli = "on"
    /\ \/ exitChan # NoCode /\ status' = exitChan
       \/ errs /\ status' = 0
    /\ cli' = "done"
    /\ UNCHANGED <<kind, handler, process, outputs, inputs, control, errs, exitChan>>

\* a signal ends the client, SIGINT that of an exec
ClientDies ==
    /\ cli = "on"
    /\ cli' = "done"
    /\ UNCHANGED <<kind, handler, process, outputs, inputs, control, status, errs, exitChan>>

Handler == \/ StartFails \/ StartProcess \/ SetupFails \/ Ready
           \/ WaitAttached \/ WaitExec \/ Answer \/ Close

Goroutines == \/ Handler
              \/ CopyOutput \/ CopyInput \/ Decode \/ Forward \/ Consume
              \/ Display \/ EndOutput \/ ReadExit \/ Return

Outside == \/ Produce \/ Exit
           \/ SendResize \/ SendKill \/ Type \/ EndInput \/ ClientDies

Next == Goroutines \/ Outside

Spec == Init /\ [][Next]_vars

\* Every goroutine that can go on goes on; what the process, the user and the
\* network do is never owed.
Fairness == /\ WF_vars(Handler)
            /\ WF_vars(CopyOutput) /\ WF_vars(CopyInput)
            /\ WF_vars(Decode) /\ WF_vars(Forward) /\ WF_vars(Consume)
            /\ WF_vars(Display) /\ WF_vars(EndOutput)
            /\ WF_vars(ReadExit) /\ WF_vars(Return)

FairSpec == Spec /\ Fairness

-----------------------------------------------------------------------------
Answers == Codes \cup {NoCode}
Phases == {"off", "on", "done"}

Scalars ==
    /\ kind \in {"attach", "exec"}
    /\ hpc \in {"start", "setup", "wait", "answer", "close", "done"}
    /\ proc \in {"none", "over"} \cup Live
    /\ code \in Codes /\ exitCode \in Codes
    /\ answer \in Answers /\ exitChan \in Answers /\ status \in Answers
    /\ made \in 0..MaxOut /\ pending \in Nat /\ stdout \in Nat /\ shown \in Nat
    /\ copier \in Phases /\ feeder \in Phases
    /\ typed \in 0..MaxIn /\ stdin \in Nat
    /\ cli \in {"on", "done"}

Flags == closed \in BOOLEAN /\ errs \in BOOLEAN /\ killed \in BOOLEAN

Events == {"resize", "kill"}

ControlOK ==
    /\ fwd \in {"off", "read", "send", "done"}
    /\ held \in Events \cup {"none"} /\ (fwd = "send" => held \in Events)
    /\ chan \in Seq(Events) /\ Len(chan) <= Cap
    /\ ctl \in Seq(Events)
    /\ cons \in Phases
    /\ sent \in 0..MaxMsgs

\* The variables have their types, and controlChan its capacity.
TypeOK == Scalars /\ Flags /\ ControlOK

\* A client that is told the exit code of an exec has got, or will get before the
\* end of its stdout stream, everything the command wrote (handle_exec.go:92-121).
ExecAnswersLast == ~Attached /\ (answer # NoCode \/ exitChan # NoCode) => stdout + shown = made

\* A "kill" the client sent ends the attached process for good, also when it was
\* sent before there was one, when window sizes queue before it, or when the
\* client is gone since (handle_attach.go:66-83, namespaces.go:130-144).
KillEnds == [](killed => <>[](proc \notin Live))

\* Once RunParent has started the consumer, the two goroutines of the control
\* channel end with the session.
ControlEnds == (hpc = "done" /\ cons # "off") ~> (fwd = "done" /\ cons = "done")

\* When the process is over the session ends on both sides; for an exec, whose
\* handler waits for the input too, when there is input or the client leaves.
SessionEnds ==
    (proc = "over" /\ (Attached \/ stdin > 0 \/ cli = "done")) ~> (hpc = "done" /\ cli = "done")
-----------------------------------------------------------------------------
(***************************************************************************)
(* What makes ExecAnswersLast inductive.                                   *)
(***************************************************************************)
\* Output is neither lost nor made up while somebody holds it.
Conserved == made = pending + stdout + shown

\* The handler answers when the process is over and the copy of its output ended,
\* or when there never was a process.
Settled ==
    ~Attached /\ hpc \in {"answer", "close", "done"} =>
        \/ proc = "none"
        \/ proc = "over" /\ copier = "done"

\* That copy leaves nothing behind, unless there is nobody to send it to.
Drained ==
    /\ ~Attached /\ copier = "done" /\ Connected => pending = 0 /\ proc = "over"
    /\ proc = "none" => made = 0
    /\ hpc = "start" <=> proc = "none" /\ hpc \notin {"answer", "close", "done"}
    /\ hpc = "setup" => Attached
    /\ closed => hpc = "done"

Told ==
    ~Attached /\ (answer # NoCode \/ exitChan # NoCode) =>
        hpc \in {"close", "done"} /\ proc \in {"none", "over"} /\ pending = 0

IndInv == TypeOK /\ Conserved /\ Settled /\ Drained /\ Told
=============================================================================
