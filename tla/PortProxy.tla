------------------------------ MODULE PortProxy ------------------------------
(***************************************************************************)
(* The port of a container on the host: internal/network/proxy.go, started *)
(* and closed by RunParent (namespaces.go:187-192).                        *)
(*                                                                         *)
(* A connection is two TCP sockets of the daemon, one to the client and    *)
(* one to the container, and two goroutines that copy.  Direction "in"     *)
(* goes from the client to the container, "out" back.  TCP is external: it *)
(* keeps the order, so a direction is told by counters; it holds a bounded *)
(* number of pieces that the peer has not read, and blocks the writer of   *)
(* more; a socket closed with unread data, or written to afterwards,       *)
(* resets its connection, and what the peer has not received by then may   *)
(* be lost.                                                                *)
(***************************************************************************)
EXTENDS Naturals, Sequences

CONSTANTS
    Conns,     \* connections of clients to the port
    MaxPieces, \* bound: pieces sent in one direction of a connection
    Buffer     \* pieces that the two kernels hold for a receiver that does not read

ASSUME ProxyAssumption == MaxPieces \in Nat /\ Buffer \in Nat \ {0}

Dirs == {"in", "out"}
Back(d) == IF d = "in" THEN "out" ELSE "in"

VARIABLES
    sess,    \* what RunParent does with the proxy
    open,    \* the listener
    stop,    \* stopChan is closed
    acc,     \* goroutine of StartPortProxy
    hand,    \* handleProxyConn of each connection
    cop,     \* its two copies
    done,    \* its channel done
    first,   \* the direction that woke it
    held,    \* pieces a copy has read and not yet written
    sent,    \* pieces sent in a direction,
    passed,  \*   written to the other socket,
    got,     \*   and received at the other end
    eof,     \* the sender of a direction will send no more
    left,    \* the sender of a direction has closed its socket or died
    lost     \* the rest of a direction does not arrive any more

listener == <<sess, open, stop, acc>>
copies == <<cop, held, passed>>
ends == <<sent, got, eof, left>>
vars == <<listener, hand, done, first, copies, ends, lost>>

Each(v) == [c \in Conns |-> [d \in Dirs |-> v]]

Init ==
    /\ sess = "start" /\ open = FALSE /\ stop = FALSE /\ acc = "off"
    /\ hand = [c \in Conns |-> "none"]
    /\ done = [c \in Conns |-> <<>>]
    /\ first = [c \in Conns |-> "none"]
    /\ cop = Each("off") /\ held = Each(0)
    /\ sent = Each(0) /\ passed = Each(0) /\ got = Each(0)
    /\ eof = Each(FALSE) /\ left = Each(FALSE) /\ lost = Each(FALSE)

-----------------------------------------------------------------------------
\* StartPortProxy; a port that is taken is not reported, the container runs without
StartPortProxy ==
    /\ sess = "start"
    /\ \/ sess' = "serve" /\ open' = TRUE /\ acc' = "accept"
       \/ sess' = "over" /\ UNCHANGED <<open, acc>>
    /\ UNCHANGED <<stop, hand, done, first, copies, ends, lost>>

\* Fault: Close leaves stopChan as it is.
CloseSilent ==
    /\ sess = "serve"
    /\ sess' = "close"
    /\ UNCHANGED <<open, stop, acc, hand, done, first, copies, ends, lost>>

\* Close, which RunParent defers: first stopChan ...
CloseStop ==
    /\ sess = "serve"
    /\ sess' = "close" /\ stop' = TRUE
    /\ UNCHANGED <<open, acc, hand, done, first, copies, ends, lost>>

\* ... then the listener; who was not accepted yet is refused
CloseListener ==
    /\ sess = "close"
    /\ sess' = "over" /\ open' = FALSE
    /\ hand' = [c \in Conns |-> IF hand[c] = "backlog" THEN "done" ELSE hand[c]]
    /\ UNCHANGED <<stop, acc, done, first, copies, ends, lost>>

Accept(c) ==
    /\ acc = "accept" /\ open /\ hand[c] = "backlog"
    /\ hand' = [hand EXCEPT ![c] = "dial"]
    /\ UNCHANGED <<listener, done, first, copies, ends, lost>>

\* An error of Accept, the one of a closed listener or another, ends the goroutine
\* when stopChan is closed; else it tries again at once.
AcceptFails ==
    /\ acc = "accept" /\ stop
    /\ acc' = "done"
    /\ UNCHANGED <<sess, open, stop, hand, done, first, copies, ends, lost>>

-----------------------------------------------------------------------------
\* handleProxyConn: net.Dial and the two goroutines, or the end of the client
Dial(c) ==
    /\ hand[c] = "dial"
    /\ \/ /\ hand' = [hand EXCEPT ![c] = "copy"]
          /\ cop' = [cop EXCEPT ![c] = [d \in Dirs |-> "copy"]]
       \/ /\ hand' = [hand EXCEPT ![c] = "done"]
          /\ UNCHANGED cop
    /\ UNCHANGED <<listener, done, first, held, passed, ends, lost>>

\* the daemon's socket from which a direction is read, and that it is written to
Source(c, d) == hand[c] \in {"copy", "closeTarget"} \/ (d = "in" /\ hand[c] = "closeClient")
Dest(c, d) == Source(c, Back(d))

\* io.Copy reads ...
Read(c, d) ==
    /\ cop[c][d] = "copy" /\ held[c][d] = 0
    /\ Source(c, d) /\ passed[c][d] < sent[c][d]
    /\ held' = [held EXCEPT ![c][d] = 1]
    /\ UNCHANGED <<listener, hand, done, first, cop, passed, ends, lost>>

\* Fault: a piece whose write was short is written again.
WriteAgain(c, d) ==
    /\ cop[c][d] = "copy" /\ held[c][d] = 1
    /\ Dest(c, d) /\ passed[c][d] - got[c][d] < Buffer
    /\ passed' = [passed EXCEPT ![c][d] = @ + 1]
    /\ UNCHANGED <<listener, hand, done, first, cop, held, ends, lost>>

\* ... and writes, which waits for room while the receiver is there and does not
\* read; what goes to a peer that left may be written too
Room(c, d) == passed[c][d] - got[c][d] < Buffer \/ left[c][Back(d)]

Write(c, d) ==
    /\ cop[c][d] = "copy" /\ held[c][d] = 1
    /\ Dest(c, d) /\ Room(c, d)
    /\ held' = [held EXCEPT ![c][d] = 0]
    /\ passed' = [passed EXCEPT ![c][d] = @ + 1]
    /\ UNCHANGED <<listener, hand, done, first, cop, ends, lost>>

\* Fault: a read that brings the end of file drops the data that come with it.
DrainedAlmost(c, d) == eof[c][d]

\* Fault: a read that waits too long ends the copy, as with a deadline.
ReadTimesOut(c, d) == held[c][d] = 0

\* the read that ends a copy: end of file, or an error
Drained(c, d) == eof[c][d] /\ passed[c][d] = sent[c][d]
ReadEnds(c, d) == held[c][d] = 0 /\ (Drained(c, d) \/ left[c][d] \/ ~Source(c, d))
WriteFails(c, d) == held[c][d] = 1 /\ (left[c][Back(d)] \/ ~Dest(c, d))

CopyEnds(c, d) ==
    /\ cop[c][d] = "copy"
    /\ ReadEnds(c, d) \/ WriteFails(c, d)
    /\ cop' = [cop EXCEPT ![c][d] = "shut"]
    /\ held' = [held EXCEPT ![c][d] = 0]
    /\ UNCHANGED <<listener, hand, done, first, passed, ends, lost>>

\* CloseWrite tells the receiver that no more comes; it knows of a closed socket too.
CloseWrite(c, d) ==
    /\ cop[c][d] = "shut"
    /\ cop' = [cop EXCEPT ![c][d] = "signal"]
    /\ UNCHANGED <<listener, hand, done, first, held, passed, ends, lost>>

\* Fault: the channel done has no buffer, a send waits for the receiver.
HasReceiver(c) == hand[c] = "copy" /\ done[c] = <<>>

HasRoom(c) == Len(done[c]) < 2

Signal(c, d) ==
    /\ cop[c][d] = "signal" /\ HasRoom(c)
    /\ done' = [done EXCEPT ![c] = Append(@, d)]
    /\ cop' = [cop EXCEPT ![c][d] = "done"]
    /\ UNCHANGED <<listener, hand, first, held, passed, ends, lost>>

\* The handler is woken by the first copy that ends, and closes both sockets.
Wake(c) ==
    /\ hand[c] = "copy" /\ done[c] # <<>>
    /\ hand' = [hand EXCEPT ![c] = "closeTarget"]
    /\ first' = [first EXCEPT ![c] = Head(done[c])]
    /\ done' = [done EXCEPT ![c] = Tail(@)]
    /\ UNCHANGED <<listener, copies, ends, lost>>

\* Data that the daemon has not read when it closes the socket, or that come
\* later, make the kernel reset the connection.
Unread(c, d) == passed[c][d] + held[c][d] < sent[c][d]
MayLose(c, d, reset) == \/ UNCHANGED lost
                        \/ reset /\ lost' = [lost EXCEPT ![c][d] = TRUE]

CloseTarget(c) ==
    /\ hand[c] = "closeTarget"
    /\ hand' = [hand EXCEPT ![c] = "closeClient"]
    /\ MayLose(c, "in", Unread(c, "out"))
    /\ UNCHANGED <<listener, done, first, copies, ends>>

CloseClient(c) ==
    /\ hand[c] = "closeClient"
    /\ hand' = [hand EXCEPT ![c] = "done"]
    /\ MayLose(c, "out", Unread(c, "in"))
    /\ UNCHANGED <<listener, done, first, copies, ends>>

-----------------------------------------------------------------------------
\* The ends: a client, and the process in the container.
Connect(c) ==
    /\ open /\ hand[c] = "none"
    /\ hand' = [hand EXCEPT ![c] = "backlog"]
    /\ UNCHANGED <<listener, done, first, copies, ends, lost>>

\* the sender of a direction has a connection
There(c, d) == /\ IF d = "in" THEN hand[c] # "none" ELSE cop[c]["out"] # "off"
               /\ ~eof[c][d]

Send(c, d) ==
    /\ There(c, d) /\ sent[c][d] < MaxPieces
    /\ sent' = [sent EXCEPT ![c][d] = @ + 1]
    /\ MayLose(c, Back(d), hand[c] \notin {"backlog", "dial"} /\ ~Source(c, d))
    /\ UNCHANGED <<listener, hand, done, first, copies, got, eof, left>>

\* shutdown of the sending half
HalfClose(c, d) ==
    /\ There(c, d)
    /\ eof' = [eof EXCEPT ![c][d] = TRUE]
    /\ UNCHANGED <<listener, hand, done, first, copies, sent, got, left, lost>>

Leave(c, d) ==
    /\ There(c, d) \/ (eof[c][d] /\ ~left[c][d])
    /\ eof' = [eof EXCEPT ![c][d] = TRUE]
    /\ left' = [left EXCEPT ![c][d] = TRUE]
    /\ UNCHANGED <<listener, hand, done, first, copies, sent, got, lost>>

\* whether the receiver of a direction reads is its own choice
Receive(c, d) ==
    /\ got[c][d] < passed[c][d] /\ ~lost[c][d] /\ ~left[c][Back(d)]
    /\ got' = [got EXCEPT ![c][d] = @ + 1]
    /\ UNCHANGED <<listener, hand, done, first, copies, sent, eof, left, lost>>

-----------------------------------------------------------------------------
Copy(c, d) == Read(c, d) \/ Write(c, d) \/ CopyEnds(c, d) \/ CloseWrite(c, d) \/ Signal(c, d)
Handle(c) == Dial(c) \/ Wake(c) \/ CloseTarget(c) \/ CloseClient(c)

Next ==
    \/ StartPortProxy \/ CloseStop \/ CloseListener \/ AcceptFails
    \/ \E c \in Conns :
          \/ Accept(c) \/ Handle(c) \/ Connect(c)
          \/ \E d \in Dirs : \/ Copy(c, d) \/ Receive(c, d)
                             \/ Send(c, d) \/ HalfClose(c, d) \/ Leave(c, d)

Spec == Init /\ [][Next]_vars

\* Goroutines go on where they do not wait, and a closed listener fails; whether
\* anybody connects, sends, reads or closes, and when the session ends, is nobody's
\* duty.
Fairness ==
    /\ WF_vars(CloseListener) /\ WF_vars(~open /\ AcceptFails)
    /\ \A c \in Conns :
          /\ WF_vars(Handle(c))
          /\ \A d \in Dirs : WF_vars(Copy(c, d))

FairSpec == Spec /\ Fairness

-----------------------------------------------------------------------------
Count == [Conns -> [Dirs -> 0..MaxPieces]]
Flag == [Conns -> [Dirs -> BOOLEAN]]

\* The variables have their types.
TypeOK ==
    /\ sess \in {"start", "serve", "close", "over"}
    /\ open \in BOOLEAN /\ stop \in BOOLEAN
    /\ acc \in {"off", "accept", "done"}
    /\ hand \in [Conns -> {"none", "backlog", "dial", "copy", "closeTarget", "closeClient", "done"}]
    /\ cop \in [Conns -> [Dirs -> {"off", "copy", "shut", "signal", "done"}]]
    /\ done \in [Conns -> Seq(Dirs)]
    /\ first \in [Conns -> Dirs \cup {"none"}]
    /\ held \in [Conns -> [Dirs -> {0, 1}]]
    /\ sent \in Count /\ passed \in Count /\ got \in Count
    /\ eof \in Flag /\ left \in Flag /\ lost \in Flag

\* The handler closes both sockets when one direction ended (proxy.go:83): unless
\* an end left, everything that was sent in that direction has been written.
FirstIsComplete ==
    \A c \in Conns : \A d \in Dirs :
        first[c] = d /\ ~left[c]["in"] /\ ~left[c]["out"] => passed[c][d] = sent[c][d]

\* A copy that has ended never waits for the handler, which takes one of the two
\* signals and may be gone before the other comes (proxy.go:61-83).
SignalsFit ==
    \A c \in Conns : \A d \in Dirs : cop[c][d] = "signal" => HasRoom(c)

\* The receiver of a direction reads on until it leaves.
Reads(c, d) == WF_vars(Receive(c, d))

\* A connection of which one side closes, half or for good, ends with both its
\* sockets and both its goroutines, if the client and the process in the container
\* each read what comes for as long as they stay (proxy.go:63-83).
ConnectionsEnd ==
    \A c \in Conns :
        (\A d \in Dirs : Reads(c, d)) =>
            ((hand[c] = "copy" /\ \E d \in Dirs : eof[c][d]) ~>
                (hand[c] = "done" /\ \A d \in Dirs : cop[c][d] = "done"))

\* Not so: a client that is gone for good ends its connection whatever the container
\* does.  A container that stays and does not read holds the copy "in" in its write
\* (proxy.go:67), where it does not see that the client is gone, and both sockets and
\* goroutines stay.
LeavingEnds ==
    \A c \in Conns : (hand[c] = "copy" /\ left[c]["in"]) ~> hand[c] = "done"

\* Close ends the goroutine that accepts and gives the port back (proxy.go:86-93).
ListenerEnds == (sess = "close") ~> (acc = "done" /\ ~open)

\* The answer of a container that ends its side first and stays reaches a client
\* that reads and has not ended its own side, unless a reset drops it because the
\* client sent more than was read (proxy.go:74-83).
AnswerArrives ==
    \A c \in Conns :
        Reads(c, "out") =>
            ((eof[c]["out"] /\ ~eof[c]["in"] /\ ~left[c]["out"]) ~>
                \/ got[c]["out"] = sent[c]["out"]
                \/ eof[c]["in"] \/ left[c]["out"] \/ lost[c]["out"])

\* Not so: the same for a client that ends its side first, as one that sends a
\* request and then waits for the answer.
HalfCloseAnswered ==
    \A c \in Conns :
        (\A d \in Dirs : Reads(c, d)) =>
            ((eof[c]["in"] /\ ~left[c]["in"] /\ eof[c]["out"] /\ ~left[c]["out"]) ~>
                (got[c]["out"] = sent[c]["out"] \/ left[c]["in"] \/ left[c]["out"]))

\* Nothing is written that was not sent, nothing received that was not written: a
\* copy passes each piece on once (proxy.go:67, 76).
Flow ==
    \A c \in Conns : \A d \in Dirs :
        passed[c][d] + held[c][d] <= sent[c][d] /\ got[c][d] <= passed[c][d]

-----------------------------------------------------------------------------
(***************************************************************************)
(* What makes TypeOK and FirstIsComplete inductive.                        *)
(***************************************************************************)
\* Before the dial there is no copy, and nobody was woken.
Fresh ==
    \A c \in Conns : hand[c] \in {"none", "backlog", "dial"} =>
        cop[c] = [d \in Dirs |-> "off"] /\ done[c] = <<>> /\ first[c] = "none"

\* An end left, or the direction has been written to its last piece.
Settled(c, d) == \/ left[c]["in"] \/ left[c]["out"]
                 \/ eof[c][d] /\ passed[c][d] = sent[c][d]

\* While the sockets are open a copy ends for no other reason.
EndsSettled ==
    \A c \in Conns : \A d \in Dirs :
        hand[c] = "copy" /\ cop[c][d] \in {"shut", "signal", "done"} => Settled(c, d)

\* The channel holds copies that have ended; the one that woke the handler was
\* settled then, and nothing is sent or written in its direction since.
Signalled ==
    \A c \in Conns :
        /\ \A k \in 1..Len(done[c]) : cop[c][done[c][k]] = "done"
        /\ first[c] # "none" => cop[c][first[c]] = "done" /\ Settled(c, first[c])

\* Each copy signals once.
SignalsOnce ==
    \A c \in Conns : \A j, k \in 1..Len(done[c]) : done[c][j] = done[c][k] => j = k

IndInv == TypeOK /\ Flow /\ Fresh /\ EndsSettled /\ Signalled /\ SignalsOnce
=============================================================================
