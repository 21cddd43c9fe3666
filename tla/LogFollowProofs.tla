---------------------------- MODULE LogFollowProofs ----------------------------
(***************************************************************************)
(* Proofs about LogFollow, for any number of lines, sessions and ends of   *)
(* the daemon.                                                             *)
(***************************************************************************)
EXTENDS LogFollow, TLAPS

LEMMA StartsSound == Init => IndInv
<1> SUFFICES ASSUME Init PROVE IndInv
  OBVIOUS
<1>1. TypeOK
  <2>1. file \in BOOLEAN /\ follow \in BOOLEAN
    BY DEF Init
  <2>2. printed = 0 /\ inlog = 0 /\ dropped = 0 /\ before = 0 /\ pos = 0 /\ had = 0 /\ sessions = 0 /\ crashes = 0
    BY DEF Init
  <2>3. 0 \in 0..MaxLines /\ 0 \in 0..MaxSessions /\ 0 \in 0..MaxCrashes /\ 0 \in 0..0 /\ 0 + 0 <= 0
    BY LogAssumption
  <2> QED
    BY <2>1, <2>2, <2>3 DEF Init, TypeOK
<1>2. Supervised /\ Settled /\ Kept /\ Sent
  BY DEF Init, Supervised, Settled, Kept, Sent
<1> QED
  BY <1>1, <1>2 DEF IndInv

\* The steps of a session.
LEMMA SessionKeeps ==
    ASSUME IndInv, Start \/ Session
    PROVE  IndInv'
<1> USE LogAssumption DEF IndInv, TypeOK, output, reader
<1>1. CASE Start
  BY <1>1 DEF Start, Supervised, Settled, Sent, Kept
<1>2. CASE Prepare
  BY <1>2 DEF Prepare, Supervised, Settled, Sent, Kept
<1>3. CASE Saved
  BY <1>3 DEF Saved, Supervised, Settled, Sent, Kept
<1>4. CASE OpenLog
  <2>1. dropped \in Nat /\ dropped \in 0..dropped
    OBVIOUS
  <2>2. TypeOK'
    BY <1>4, <2>1 DEF OpenLog
  <2>3. (Supervised /\ Settled /\ Sent /\ Kept)'
    BY <1>4 DEF OpenLog, Supervised, Settled, Sent, Kept
  <2> QED
    BY <2>2, <2>3
<1>5. CASE SetUp
  BY <1>5 DEF SetUp, Supervised, Settled, Sent, Kept
<1>6. CASE Wait
  BY <1>6 DEF Wait, Supervised, Settled, Sent, Kept
<1> QED
  BY <1>1, <1>2, <1>3, <1>4, <1>5, <1>6 DEF Session

\* The command and the copy of its output.
LEMMA OutputKeeps ==
    ASSUME IndInv, PrintLine \/ Exit \/ CopyOutput \/ CopyFails
    PROVE  IndInv'
<1> USE LogAssumption DEF IndInv, TypeOK, session, reader
<1>1. CASE PrintLine
  BY <1>1 DEF PrintLine, Supervised, Settled, Sent, Kept
<1>2. CASE Exit
  BY <1>2 DEF Exit, Supervised, Settled, Sent, Kept
<1>3. CASE CopyOutput
  BY <1>3 DEF CopyOutput, Supervised, Settled, Sent, Kept
<1>4. CASE CopyFails
  BY <1>4 DEF CopyFails, Supervised, Settled, Sent, Kept
<1> QED
  BY <1>1, <1>2, <1>3, <1>4

\* The stop of a container, and the end of its daemon.
LEMMA StopKeeps ==
    ASSUME IndInv, StopContainer \/ Stop \/ Crash
    PROVE  IndInv'
<1> USE LogAssumption DEF IndInv, TypeOK, session, output, reader
<1>1. CASE StopContainer
  BY <1>1 DEF StopContainer, Supervised, Settled, Sent, Kept
<1>2. CASE StopKill
  BY <1>2 DEF StopKill, Supervised, Settled, Sent, Kept
<1>3. CASE StopSaved
  BY <1>3 DEF StopSaved, Supervised, Settled, Sent, Kept
<1>4. CASE Crash
  BY <1>4 DEF Crash, Supervised, Settled, Sent, Kept
<1> QED
  BY <1>1, <1>2, <1>3, <1>4 DEF Stop

\* A reader changes nothing but itself.
LEMMA ReaderKeeps ==
    ASSUME IndInv, Reader \/ ReadFails \/ \E f \in BOOLEAN : HandleLogs(f)
    PROVE  IndInv'
<1> USE LogAssumption DEF IndInv, TypeOK, session, output
<1>1. CASE \E f \in BOOLEAN : HandleLogs(f)
  BY <1>1 DEF HandleLogs, Supervised, Settled, Sent, Kept
<1>2. CASE Line
  BY <1>2 DEF Line, Supervised, Settled, Sent, Kept
<1>3. CASE Eof
  BY <1>3 DEF Eof, Supervised, Settled, Sent, Kept
<1>4. CASE Check
  BY <1>4 DEF Check, Supervised, Settled, Sent, Kept
<1>5. CASE Answered
  BY <1>5 DEF Answered, Supervised, Settled, Sent, Kept
<1>6. CASE ReadFails
  BY <1>6 DEF ReadFails, Supervised, Settled, Sent, Kept
<1> QED
  BY <1>1, <1>2, <1>3, <1>4, <1>5, <1>6 DEF Reader

LEMMA StepsKeep == IndInv /\ [Next]_vars => IndInv'
<1> SUFFICES ASSUME IndInv, [Next]_vars PROVE IndInv'
  OBVIOUS
<1>1. CASE Next
  BY <1>1, SessionKeeps, OutputKeeps, StopKeeps, ReaderKeeps DEF Next
<1>2. CASE UNCHANGED vars
  BY <1>2 DEF vars, session, output, reader, IndInv, TypeOK, Supervised, Settled, Sent, Kept
<1> QED
  BY <1>1, <1>2

LEMMA Inductive == Spec => []IndInv
BY StartsSound, StepsKeep, PTL DEF Spec

\* The types of the variables are invariant (manager.go:229-277, handle_logs.go).
THEOREM LogTypes == Spec => []TypeOK
<1>1. IndInv => TypeOK
  BY DEF IndInv
<1> QED
  BY <1>1, Inductive, PTL

\* Whoever asks for the log gets at least what it held then, unless the file cannot be
\* read (handle_logs.go:46-61).
THEOREM SnapshotIsSent == Spec => []SnapshotSent
<1>1. IndInv => SnapshotSent
  BY DEF IndInv, Sent, SnapshotSent
<1> QED
  BY <1>1, Inductive, PTL

\* The output of a session that is over is not on its way any more, and is in the log if
\* the session could open and write it and its daemon lived (manager.go:229-276).
THEOREM OutputIsLogged == Spec => []LoggedAtEnd
<1>1. IndInv => LoggedAtEnd
  BY DEF IndInv, TypeOK, Settled, Kept, LoggedAtEnd
<1> QED
  BY <1>1, Inductive, PTL
================================================================================
