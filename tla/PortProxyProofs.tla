--------------------------- MODULE PortProxyProofs ---------------------------
(***************************************************************************)
(* Proofs about PortProxy, for any number of connections and of pieces.    *)
(***************************************************************************)
EXTENDS PortProxy, TLAPS

LEMMA Directions == \A d \in Dirs : Back(d) \in Dirs /\ Back(d) # d /\ {d, Back(d)} = Dirs
BY DEF Dirs, Back

LEMMA EachTyped == \A S : \A v \in S : Each(v) \in [Conns -> [Dirs -> S]]
BY DEF Each

\* A count is a number up to the bound.
LEMMA CountNumbers ==
    ASSUME NEW f \in Count, NEW x \in Conns, NEW y \in Dirs
    PROVE  f[x][y] \in Nat /\ f[x][y] <= MaxPieces
BY ProxyAssumption DEF Count

\* One direction of one connection changes.
LEMMA OneChanged ==
    ASSUME NEW S, NEW f \in [Conns -> [Dirs -> S]], NEW c \in Conns, NEW d \in Dirs, NEW v \in S,
           NEW g, g = [f EXCEPT ![c] = [f[c] EXCEPT ![d] = v]]
    PROVE  /\ g \in [Conns -> [Dirs -> S]]
           /\ \A x \in Conns, y \in Dirs : g[x][y] = IF x = c /\ y = d THEN v ELSE f[x][y]
OBVIOUS

\* A count goes up where it is below the bound.
LEMMA CountUp ==
    ASSUME NEW f \in Count, NEW c \in Conns, NEW d \in Dirs, f[c][d] < MaxPieces,
           NEW g, g = [f EXCEPT ![c][d] = @ + 1]
    PROVE  g \in Count
<1> DEFINE S == 0..MaxPieces
           v == f[c][d] + 1
<1>1. v \in S
  BY ProxyAssumption DEF Count
<1>2. f \in [Conns -> [Dirs -> S]] /\ g = [f EXCEPT ![c][d] = v]
  BY DEF Count
<1> HIDE DEF S, v
<1>3. g \in [Conns -> [Dirs -> S]]
  BY <1>1, <1>2
<1> QED
  BY <1>3 DEF Count, S

LEMMA FlagRaised ==
    ASSUME NEW f \in Flag, NEW c \in Conns, NEW d \in Dirs, NEW g, g = [f EXCEPT ![c][d] = TRUE]
    PROVE  g \in Flag
BY DEF Flag

LEMMA Numbers ==
    ASSUME TypeOK, NEW x \in Conns, NEW y \in Dirs
    PROVE  /\ sent[x][y] \in Nat /\ passed[x][y] \in Nat /\ got[x][y] \in Nat
           /\ held[x][y] \in {0, 1} /\ sent[x][y] <= MaxPieces /\ passed[x][y] <= MaxPieces
<1>1. held[x][y] \in {0, 1}
  BY DEF TypeOK
<1> QED
  BY <1>1, CountNumbers DEF TypeOK

LEMMA StartsSound == Init => IndInv
<1> SUFFICES ASSUME Init PROVE IndInv
  OBVIOUS
<1> USE ProxyAssumption DEF Init
<1>1. TypeOK
  <2>1. held \in [Conns -> [Dirs -> {0, 1}]] /\ cop \in [Conns -> [Dirs -> {"off", "copy", "shut", "signal", "done"}]]
    BY EachTyped
  <2>2. 0 \in 0..MaxPieces
    OBVIOUS
  <2>3. sent \in Count /\ passed \in Count /\ got \in Count
    BY <2>2, EachTyped DEF Count
  <2>4. eof \in Flag /\ left \in Flag /\ lost \in Flag
    BY EachTyped DEF Flag
  <2>5. done \in [Conns -> Seq(Dirs)]
    OBVIOUS
  <2> QED
    BY <2>1, <2>3, <2>4, <2>5 DEF TypeOK
<1>2. Flow /\ Fresh /\ EndsSettled /\ Signalled /\ SignalsOnce
  BY DEF Each, Flow, Fresh, EndsSettled, Signalled, SignalsOnce
<1> QED
  BY <1>1, <1>2 DEF IndInv

\* The listener: no connection is in the hands of a goroutine.
LEMMA ListenerKeeps ==
    ASSUME IndInv, StartPortProxy \/ CloseStop \/ CloseListener \/ AcceptFails
    PROVE  IndInv'
<1> USE DEF IndInv, StartPortProxy, CloseStop, CloseListener, AcceptFails, copies, ends
<1>1. TypeOK'
  BY DEF TypeOK
<1>2. Flow' /\ Signalled' /\ SignalsOnce'
  BY DEF Flow, Signalled, Settled, SignalsOnce
<1>3. Fresh' /\ EndsSettled'
  BY DEF TypeOK, Fresh, EndsSettled, Settled
<1> QED
  BY <1>1, <1>2, <1>3

\* The handler, and the two steps that give it a connection.
LEMMA HandlerKeeps ==
    ASSUME IndInv, NEW c \in Conns, Accept(c) \/ Connect(c) \/ Handle(c)
    PROVE  IndInv'
<1> USE DEF IndInv, listener, copies, ends
<1>1. CASE Accept(c) \/ Connect(c)
  <2>1. TypeOK'
    BY <1>1 DEF Accept, Connect, TypeOK
  <2>2. Flow' /\ Signalled' /\ SignalsOnce'
    BY <1>1 DEF Accept, Connect, Flow, Signalled, Settled, SignalsOnce
  <2>3. Fresh' /\ EndsSettled'
    BY <1>1 DEF Accept, Connect, TypeOK, Fresh, EndsSettled, Settled
  <2> QED
    BY <2>1, <2>2, <2>3
<1>2. CASE Dial(c)
  <2> USE <1>2 DEF Dial
  <2>0. [d \in Dirs |-> "copy"] \in [Dirs -> {"off", "copy", "shut", "signal", "done"}]
    OBVIOUS
  <2>1. TypeOK'
    <3>1. cop' \in [Conns -> [Dirs -> {"off", "copy", "shut", "signal", "done"}]]
      BY <2>0 DEF TypeOK
    <3>2. hand' \in [Conns -> {"none", "backlog", "dial", "copy", "closeTarget", "closeClient", "done"}]
      BY DEF TypeOK
    <3> QED
      BY <3>1, <3>2 DEF TypeOK
  <2>2. Flow' /\ Fresh'
    BY DEF TypeOK, Flow, Fresh
  <2>3. EndsSettled'
    BY DEF TypeOK, EndsSettled, Settled
  <2>4. Signalled'
    <3>1. first[c] = "none" /\ Len(done[c]) = 0
      BY DEF Fresh
    <3>2. \A x \in Conns \ {c} : cop'[x] = cop[x]
      BY DEF TypeOK
    <3> QED
      BY <3>1, <3>2 DEF Signalled, Settled
  <2>5. SignalsOnce'
    BY DEF SignalsOnce
  <2> QED
    BY <2>1, <2>2, <2>3, <2>4, <2>5
<1>3. CASE Wake(c)
  <2> USE <1>3 DEF Wake
  <2>1. /\ done[c] \in Seq(Dirs) /\ Head(done[c]) \in Dirs /\ Tail(done[c]) \in Seq(Dirs)
        /\ Head(done[c]) = done[c][1] /\ 1 \in 1..Len(done[c])
        /\ Len(Tail(done[c])) = Len(done[c]) - 1 /\ Len(done[c]) \in Nat
        /\ \A k \in 1..Len(Tail(done[c])) : Tail(done[c])[k] = done[c][k + 1]
    BY DEF TypeOK
  <2>2. TypeOK'
    BY <2>1 DEF TypeOK
  <2>3. Flow' /\ Fresh' /\ EndsSettled'
    BY DEF TypeOK, Flow, Fresh, EndsSettled, Settled
  <2>4. Settled(c, Head(done[c])) /\ cop[c][Head(done[c])] = "done"
    BY <2>1 DEF EndsSettled, Signalled
  <2>5. Signalled'
    <3>1. /\ done'[c] = Tail(done[c]) /\ first'[c] = Head(done[c])
          /\ \A x \in Conns \ {c} : done'[x] = done[x] /\ first'[x] = first[x]
      BY DEF TypeOK
    <3>2. \A k \in 1..Len(Tail(done[c])) : cop[c][Tail(done[c])[k]] = "done"
      BY <2>1 DEF Signalled
    <3> QED
      BY <2>4, <3>1, <3>2 DEF Signalled, Settled
  <2>6. SignalsOnce'
    <3>1. /\ done'[c] = Tail(done[c])
          /\ \A x \in Conns \ {c} : done'[x] = done[x]
      BY DEF TypeOK
    <3>2. \A j, k \in 1..Len(Tail(done[c])) : Tail(done[c])[j] = Tail(done[c])[k] => j = k
      BY <2>1 DEF SignalsOnce
    <3> QED
      BY <3>1, <3>2 DEF SignalsOnce
  <2> QED
    BY <2>2, <2>3, <2>5, <2>6
<1>4. CASE CloseTarget(c) \/ CloseClient(c)
  <2>1. lost' \in Flag
    <3>1. "in" \in Dirs /\ "out" \in Dirs
      BY DEF Dirs
    <3>2. /\ lost' = lost \/ \E e \in Dirs : lost' = [lost EXCEPT ![c][e] = TRUE]
          /\ lost \in Flag
      BY <1>4, <3>1 DEF CloseTarget, CloseClient, MayLose, TypeOK
    <3> QED
      BY <3>2, FlagRaised, Zenon
  <2>2. /\ hand' = [hand EXCEPT ![c] = "closeClient"] \/ hand' = [hand EXCEPT ![c] = "done"]
        /\ hand[c] \notin {"none", "backlog", "dial"}
        /\ UNCHANGED <<listener, done, first, copies, ends>>
    BY <1>4 DEF CloseTarget, CloseClient
  <2>3. TypeOK'
    BY <2>1, <2>2 DEF TypeOK
  <2>4. Flow' /\ Signalled' /\ SignalsOnce'
    BY <2>2 DEF Flow, Signalled, Settled, SignalsOnce
  <2>5. Fresh' /\ EndsSettled'
    BY <2>2 DEF TypeOK, Fresh, EndsSettled, Settled
  <2> QED
    BY <2>3, <2>4, <2>5
<1> QED
  BY <1>1, <1>2, <1>3, <1>4 DEF Handle

\* The copies.  One that ends while the sockets are open has nothing left to copy, or
\* an end is gone.
LEMMA CopyKeeps ==
    ASSUME IndInv, NEW c \in Conns, NEW d \in Dirs, Copy(c, d)
    PROVE  IndInv'
<1> USE ProxyAssumption DEF IndInv, listener, ends
<1>0. hand[c] \notin {"none", "backlog", "dial"}
  BY DEF Copy, Read, Write, CopyEnds, CloseWrite, Signal, Fresh
<1>a. ASSUME UNCHANGED done
      PROVE  SignalsOnce'
  BY <1>a DEF SignalsOnce
<1>1. CASE Read(c, d)
  <2>1. UNCHANGED done
    BY <1>1 DEF Read
  <2>2. TypeOK' /\ Flow' /\ Fresh' /\ EndsSettled' /\ Signalled'
    BY <1>0, <1>1 DEF Read, TypeOK, Count, Flow, Fresh, EndsSettled, Signalled, Settled
  <2> QED
    BY <1>a, <2>1, <2>2
<1>2. CASE Write(c, d)
  <2> USE <1>0, <1>2 DEF Write
  <2>0. /\ \A x \in Conns, y \in Dirs :
              /\ passed[x][y] \in Nat /\ sent[x][y] \in Nat /\ held[x][y] \in Nat /\ got[x][y] \in Nat
              /\ sent[x][y] <= MaxPieces /\ passed[x][y] + held[x][y] <= sent[x][y]
        /\ passed[c][d] < MaxPieces
    BY ProxyAssumption, Numbers DEF Flow
  <2>1. /\ passed' \in Count
        /\ \A x \in Conns, y \in Dirs :
              passed'[x][y] = IF x = c /\ y = d THEN passed[x][y] + 1 ELSE passed[x][y]
    <3>1. passed \in Count /\ passed[c][d] < MaxPieces /\ passed' = [passed EXCEPT ![c][d] = @ + 1]
      BY <2>0 DEF TypeOK
    <3>2. passed' \in Count
      BY <3>1, CountUp, Zenon
    <3> QED
      BY <3>1, <3>2 DEF Count
  <2>2. /\ held' \in [Conns -> [Dirs -> {0, 1}]]
        /\ \A x \in Conns, y \in Dirs : held'[x][y] = IF x = c /\ y = d THEN 0 ELSE held[x][y]
    BY OneChanged DEF TypeOK
  <2>3. TypeOK' /\ Flow'
    BY <2>0, <2>1, <2>2 DEF TypeOK, Flow
  <2>4. Fresh' /\ EndsSettled'
    BY <2>1 DEF TypeOK, Fresh, EndsSettled, Settled
  <2>5. Signalled'
    BY <2>1 DEF TypeOK, Signalled, Settled
  <2> QED
    BY <1>a, <2>3, <2>4, <2>5
<1>3. CASE CopyEnds(c, d)
  <2> USE <1>0, <1>3 DEF CopyEnds
  <2>1. TypeOK'
    BY OneChanged DEF TypeOK
  <2>a. Flow' /\ Fresh'
    <3>1. \A x \in Conns, y \in Dirs :
              passed[x][y] \in Nat /\ sent[x][y] \in Nat /\ held[x][y] \in Nat
      BY Numbers
    <3>2. \A x \in Conns, y \in Dirs : held'[x][y] = IF x = c /\ y = d THEN 0 ELSE held[x][y]
      BY OneChanged DEF TypeOK
    <3> QED
      BY <3>1, <3>2 DEF Flow, Fresh, TypeOK
  <2>2. hand[c] = "copy" => Settled(c, d)
    BY Directions DEF ReadEnds, WriteFails, Drained, Source, Dest, Settled, Dirs
  <2>3. EndsSettled'
    BY <2>2 DEF TypeOK, EndsSettled, Settled
  <2>4. Signalled'
    BY DEF TypeOK, Signalled, Settled
  <2> QED
    BY <1>a, <2>1, <2>a, <2>3, <2>4
<1>4. CASE CloseWrite(c, d)
  BY <1>0, <1>4 DEF CloseWrite, TypeOK, Flow, Fresh, EndsSettled, Signalled, Settled, SignalsOnce
<1>5. CASE Signal(c, d)
  <2> USE <1>0, <1>5 DEF Signal
  <2>1. /\ done[c] \in Seq(Dirs) /\ Append(done[c], d) \in Seq(Dirs) /\ Len(done[c]) \in Nat
        /\ Len(Append(done[c], d)) = Len(done[c]) + 1
        /\ \A k \in 1..Len(done[c]) : Append(done[c], d)[k] = done[c][k]
        /\ Append(done[c], d)[Len(done[c]) + 1] = d
    BY DEF TypeOK
  <2>2. TypeOK' /\ Flow' /\ Fresh' /\ EndsSettled'
    BY <2>1 DEF TypeOK, Flow, Fresh, EndsSettled, Settled
  <2>3. Signalled'
    BY <2>1 DEF TypeOK, Signalled, Settled
  <2>4. \A k \in 1..Len(done[c]) : done[c][k] # d
    BY DEF Signalled
  <2>5. SignalsOnce'
    <3>1. /\ done'[c] = Append(done[c], d)
          /\ \A x \in Conns \ {c} : done'[x] = done[x]
      BY DEF TypeOK
    <3>2. \A j, k \in 1..Len(Append(done[c], d)) :
              Append(done[c], d)[j] = Append(done[c], d)[k] => j = k
      BY <2>1, <2>4 DEF SignalsOnce
    <3> QED
      BY <3>1, <3>2 DEF SignalsOnce
  <2> QED
    BY <2>2, <2>3, <2>5
<1> QED
  BY <1>1, <1>2, <1>3, <1>4, <1>5 DEF Copy

\* The ends: after its end of file a sender sends no more.
LEMMA EndsKeep ==
    ASSUME IndInv, NEW c \in Conns, NEW d \in Dirs,
           Receive(c, d) \/ Send(c, d) \/ HalfClose(c, d) \/ Leave(c, d)
    PROVE  IndInv'
<1> USE ProxyAssumption DEF IndInv, listener, copies
<1>1. CASE Receive(c, d)
  <2> USE <1>1 DEF Receive
  <2>0. got[c][d] < MaxPieces /\ \A x \in Conns, y \in Dirs : passed[x][y] \in Nat /\ got[x][y] \in Nat
    BY CountNumbers DEF TypeOK
  <2>1. /\ got' \in Count
        /\ \A x \in Conns, y \in Dirs :
              got'[x][y] = IF x = c /\ y = d THEN got[x][y] + 1 ELSE got[x][y]
    <3>1. got \in Count /\ got[c][d] < MaxPieces /\ got' = [got EXCEPT ![c][d] = @ + 1]
      BY <2>0 DEF TypeOK
    <3>2. got' \in Count
      BY <3>1, CountUp, Zenon
    <3> QED
      BY <3>1, <3>2 DEF Count
  <2>2. TypeOK' /\ Flow'
    BY <2>0, <2>1 DEF TypeOK, Flow
  <2> QED
    BY <2>2 DEF Fresh, EndsSettled, Signalled, Settled, SignalsOnce
<1>2. CASE Send(c, d)
  <2> USE <1>2 DEF Send, There
  <2>1. lost' \in Flag
    <3>1. /\ lost' = lost \/ \E e \in Dirs : lost' = [lost EXCEPT ![c][e] = TRUE]
          /\ lost \in Flag
      BY Directions DEF MayLose, TypeOK
    <3> QED
      BY <3>1, FlagRaised, Zenon
  <2>2. /\ sent' \in Count
        /\ \A x \in Conns, y \in Dirs :
              sent'[x][y] = IF x = c /\ y = d THEN sent[x][y] + 1 ELSE sent[x][y]
    <3>1. sent \in Count /\ sent[c][d] < MaxPieces /\ sent' = [sent EXCEPT ![c][d] = @ + 1]
      BY DEF TypeOK
    <3>2. sent' \in Count
      BY <3>1, CountUp, Zenon
    <3> QED
      BY <3>1, <3>2 DEF Count
  <2>3. TypeOK'
    BY <2>1, <2>2 DEF TypeOK
  <2>4. Flow' /\ Fresh'
    <3>1. \A x \in Conns, y \in Dirs :
              passed[x][y] \in Nat /\ sent[x][y] \in Nat /\ held[x][y] \in Nat
      BY CountNumbers DEF TypeOK
    <3> QED
      BY <2>2, <3>1 DEF Flow, Fresh
  <2>5. EndsSettled' /\ Signalled' /\ SignalsOnce'
    BY <2>2 DEF TypeOK, EndsSettled, Signalled, Settled, SignalsOnce
  <2> QED
    BY <2>3, <2>4, <2>5
<1>3. CASE HalfClose(c, d)
  BY <1>3 DEF HalfClose, TypeOK, Flag, Flow, Fresh, EndsSettled, Signalled, Settled, SignalsOnce
<1>4. CASE Leave(c, d)
  BY <1>4 DEF Leave, TypeOK, Flag, Flow, Fresh, EndsSettled, Signalled, Settled, SignalsOnce
<1> QED
  BY <1>1, <1>2, <1>3, <1>4

LEMMA NextKeeps == IndInv /\ [Next]_vars => IndInv'
<1> SUFFICES ASSUME IndInv, [Next]_vars PROVE IndInv'
  OBVIOUS
<1>1. CASE UNCHANGED vars
  <2>1. UNCHANGED done
    BY <1>1 DEF vars
  <2>2. SignalsOnce'
    BY <2>1 DEF IndInv, SignalsOnce
  <2>3. TypeOK' /\ Flow' /\ Fresh' /\ EndsSettled' /\ Signalled'
    BY <1>1 DEF vars, listener, copies, ends, IndInv, TypeOK, Flow, Fresh, EndsSettled, Signalled, Settled
  <2> QED
    BY <2>2, <2>3 DEF IndInv
<1> QED
  BY <1>1, ListenerKeeps, HandlerKeeps, CopyKeeps, EndsKeep DEF Next

(***************************************************************************)
(* Every variable keeps its type: a copy holds at most one piece, and the  *)
(* channel done holds directions.                                          *)
(***************************************************************************)
THEOREM ProxyTypes == Spec => []TypeOK
<1>1. IndInv => TypeOK
  BY DEF IndInv
<1> QED
  BY StartsSound, NextKeeps, <1>1, PTL DEF Spec

(***************************************************************************)
(* No copy writes more than it read, and no end receives more than was     *)
(* written to it, with any room in the sockets.                            *)
(***************************************************************************)
THEOREM FlowsOnce == Spec => []Flow
<1>1. IndInv => Flow
  BY DEF IndInv
<1> QED
  BY StartsSound, NextKeeps, <1>1, PTL DEF Spec

(***************************************************************************)
(* When the handler is woken to close both sockets, the direction that     *)
(* woke it has been written to its last piece, unless an end left.         *)
(***************************************************************************)
THEOREM FirstCompletes == Spec => []FirstIsComplete
<1>1. IndInv => FirstIsComplete
  BY DEF IndInv, Signalled, Settled, FirstIsComplete, Dirs
<1> QED
  BY StartsSound, NextKeeps, <1>1, PTL DEF Spec

(***************************************************************************)
(* The channel has room for both copies, so neither goroutine stays behind *)
(* with its signal when the handler has left.                              *)
(***************************************************************************)
THEOREM SignalsAlwaysFit == Spec => []SignalsFit
<1>1. IndInv => SignalsFit
  <2> SUFFICES ASSUME IndInv, NEW c \in Conns, NEW d \in Dirs, cop[c][d] = "signal",
                      Len(done[c]) >= 2
               PROVE  FALSE
    BY DEF IndInv, TypeOK, SignalsFit, HasRoom
  <2>1. /\ done[c] \in Seq(Dirs) /\ 1 \in 1..Len(done[c]) /\ 2 \in 1..Len(done[c])
        /\ done[c][1] \in Dirs /\ done[c][2] \in Dirs
    BY DEF IndInv, TypeOK
  <2>2. done[c][1] # d /\ done[c][2] # d /\ done[c][1] # done[c][2]
    BY <2>1 DEF IndInv, Signalled, SignalsOnce
  <2> QED
    BY <2>1, <2>2 DEF Dirs
<1> QED
  BY StartsSound, NextKeeps, <1>1, PTL DEF Spec
=============================================================================
