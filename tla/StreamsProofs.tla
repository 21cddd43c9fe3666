---------------------------- MODULE StreamsProofs ----------------------------
(***************************************************************************)
(* The answer of an exec comes after its output, for any amount of output, *)
(* input and control messages.                                             *)
(***************************************************************************)
EXTENDS Streams, TLAPS

LEMMA OpenSound == Init => IndInv
<1> SUFFICES ASSUME Init
             PROVE  IndInv
  OBVIOUS
<1> USE StreamsAssumption
    DEF Init, Codes, NoCode, Answers, Phases, Events, Live, Attached
<1>1. Scalars
  BY DEF Scalars
<1>2. ControlOK
  <2>1. chan \in Seq(Events) /\ Len(chan) = 0 /\ ctl \in Seq(Events)
    OBVIOUS
  <2> QED
    BY <2>1 DEF ControlOK
<1>3. Flags
  BY DEF Flags
<1>4. Conserved /\ Settled /\ Drained /\ Told
  BY DEF Conserved, Settled, Drained, Told
<1> QED
  BY <1>1, <1>2, <1>3, <1>4 DEF IndInv, TypeOK

\* The steps of the handler.
LEMMA HandlerKeeps == IndInv /\ Handler => IndInv'
<1> SUFFICES ASSUME IndInv, Handler
             PROVE  IndInv'
  OBVIOUS
<1> USE StreamsAssumption
    DEF IndInv, TypeOK, Codes, NoCode, Answers, Phases, Events, Live, Attached, Connected,
        handler, process, outputs, inputs, control, client
<1>1. CASE StartFails
  <2>1. Scalars'
    BY <1>1 DEF StartFails, Scalars
  <2>2. ControlOK'
    BY <1>1 DEF StartFails, ControlOK
  <2>3. Flags'
    BY <1>1 DEF StartFails, Flags
  <2>4. Conserved' /\ Settled' /\ Drained' /\ Told'
    BY <1>1 DEF StartFails, Scalars, Conserved, Settled, Drained, Told
  <2> QED
    BY <2>1, <2>2, <2>3, <2>4
<1>2. CASE StartProcess
  <2>1. Scalars'
    BY <1>2 DEF StartProcess, Scalars
  <2>2. ControlOK'
    BY <1>2 DEF StartProcess, ControlOK
  <2>3. Flags'
    BY <1>2 DEF StartProcess, Flags
  <2>4. Conserved' /\ Settled' /\ Drained' /\ Told'
    BY <1>2 DEF StartProcess, Scalars, Conserved, Settled, Drained, Told
  <2> QED
    BY <2>1, <2>2, <2>3, <2>4
<1>3. CASE SetupFails
  <2>1. Scalars'
    BY <1>3 DEF SetupFails, Scalars
  <2>2. ControlOK'
    BY <1>3 DEF SetupFails, ControlOK
  <2>3. Flags'
    BY <1>3 DEF SetupFails, Flags
  <2>4. Conserved' /\ Settled' /\ Drained' /\ Told'
    BY <1>3 DEF SetupFails, Scalars, Conserved, Settled, Drained, Told
  <2> QED
    BY <2>1, <2>2, <2>3, <2>4
<1>4. CASE Ready
  <2>1. Scalars'
    BY <1>4 DEF Ready, Scalars
  <2>2. ControlOK'
    BY <1>4 DEF Ready, ControlOK
  <2>3. Flags'
    BY <1>4 DEF Ready, Flags
  <2>4. Conserved' /\ Settled' /\ Drained' /\ Told'
    BY <1>4 DEF Ready, Scalars, Conserved, Settled, Drained, Told
  <2> QED
    BY <2>1, <2>2, <2>3, <2>4
<1>5. CASE WaitAttached
  <2>1. Scalars'
    BY <1>5 DEF WaitAttached, Scalars
  <2>2. ControlOK'
    BY <1>5 DEF WaitAttached, ControlOK
  <2>3. Flags'
    BY <1>5 DEF WaitAttached, Flags
  <2>4. Conserved' /\ Settled' /\ Drained' /\ Told'
    BY <1>5 DEF WaitAttached, Scalars, Conserved, Settled, Drained, Told
  <2> QED
    BY <2>1, <2>2, <2>3, <2>4
<1>6. CASE WaitExec
  <2>1. Scalars'
    BY <1>6 DEF WaitExec, Scalars
  <2>2. ControlOK'
    BY <1>6 DEF WaitExec, ControlOK
  <2>3. Flags'
    BY <1>6 DEF WaitExec, Flags
  <2>4. Conserved' /\ Settled' /\ Drained' /\ Told'
    BY <1>6 DEF WaitExec, Scalars, Conserved, Settled, Drained, Told
  <2> QED
    BY <2>1, <2>2, <2>3, <2>4
<1>7. CASE Answer
  <2>1. Scalars'
    BY <1>7 DEF Answer, Scalars
  <2>2. ControlOK'
    BY <1>7 DEF Answer, ControlOK
  <2>3. Flags'
    BY <1>7 DEF Answer, Flags
  <2>4. Conserved' /\ Settled' /\ Drained' /\ Told'
    BY <1>7 DEF Answer, Scalars, Conserved, Settled, Drained, Told
  <2> QED
    BY <2>1, <2>2, <2>3, <2>4
<1>8. CASE Close
  <2>1. Scalars'
    BY <1>8 DEF Close, Scalars
  <2>2. ControlOK'
    BY <1>8 DEF Close, ControlOK
  <2>3. Flags'
    BY <1>8 DEF Close, Flags
  <2>4. Conserved' /\ Settled' /\ Drained' /\ Told'
    BY <1>8 DEF Close, Scalars, Conserved, Settled, Drained, Told
  <2> QED
    BY <2>1, <2>2, <2>3, <2>4
<1> QED
  BY <1>1, <1>2, <1>3, <1>4, <1>5, <1>6, <1>7, <1>8 DEF Handler

\* The steps of the daemon's other goroutines.
LEMMA CopiesKeep == IndInv /\ (CopyOutput \/ CopyInput \/ Decode \/ Forward \/ Consume) => IndInv'
<1> SUFFICES ASSUME IndInv, CopyOutput \/ CopyInput \/ Decode \/ Forward \/ Consume
             PROVE  IndInv'
  OBVIOUS
<1> USE StreamsAssumption
    DEF IndInv, TypeOK, Codes, NoCode, Answers, Phases, Events, Live, Attached, Connected,
        handler, process, outputs, inputs, control, client
<1>1. CASE CopyOutput
  <2>1. Scalars'
    BY <1>1 DEF CopyOutput, Scalars
  <2>2. ControlOK'
    BY <1>1 DEF CopyOutput, ControlOK
  <2>3. Flags'
    BY <1>1 DEF CopyOutput, Flags
  <2>4. Conserved' /\ Settled' /\ Drained' /\ Told'
    BY <1>1 DEF CopyOutput, Scalars, Conserved, Settled, Drained, Told
  <2> QED
    BY <2>1, <2>2, <2>3, <2>4
<1>2. CASE CopyInput
  <2>1. Scalars'
    BY <1>2 DEF CopyInput, Scalars
  <2>2. ControlOK'
    BY <1>2 DEF CopyInput, ControlOK
  <2>3. Flags'
    BY <1>2 DEF CopyInput, Flags
  <2>4. Conserved' /\ Settled' /\ Drained' /\ Told'
    BY <1>2 DEF CopyInput, Scalars, Conserved, Settled, Drained, Told
  <2> QED
    BY <2>1, <2>2, <2>3, <2>4
<1>3. CASE Decode
  <2>1. Scalars'
    BY <1>3 DEF Decode, Scalars
  <2>2. ControlOK'
    BY <1>3 DEF Decode, ControlOK
  <2>3. Flags'
    BY <1>3 DEF Decode, Flags
  <2>4. Conserved' /\ Settled' /\ Drained' /\ Told'
    BY <1>3 DEF Decode, Scalars, Conserved, Settled, Drained, Told
  <2> QED
    BY <2>1, <2>2, <2>3, <2>4
<1>4. CASE Forward
  <2>1. Scalars'
    BY <1>4 DEF Forward, Scalars
  <2>2. ControlOK'
    BY <1>4 DEF Forward, ControlOK
  <2>3. Flags'
    BY <1>4 DEF Forward, Flags
  <2>4. Conserved' /\ Settled' /\ Drained' /\ Told'
    BY <1>4 DEF Forward, Scalars, Conserved, Settled, Drained, Told
  <2> QED
    BY <2>1, <2>2, <2>3, <2>4
<1>5. CASE Consume
  <2>1. Scalars'
    BY <1>5 DEF Consume, Scalars
  <2>2. ControlOK'
    BY <1>5 DEF Consume, ControlOK
  <2>3. Flags'
    BY <1>5 DEF Consume, Flags
  <2>4. Conserved' /\ Settled' /\ Drained' /\ Told'
    BY <1>5 DEF Consume, Scalars, Conserved, Settled, Drained, Told
  <2> QED
    BY <2>1, <2>2, <2>3, <2>4
<1> QED
  BY <1>1, <1>2, <1>3, <1>4, <1>5

\* The steps of the client, of its user and of the process.
LEMMA ClientKeeps == IndInv /\ (Display \/ EndOutput \/ ReadExit \/ Return \/ Outside) => IndInv'
<1> SUFFICES ASSUME IndInv, Display \/ EndOutput \/ ReadExit \/ Return \/ Outside
             PROVE  IndInv'
  OBVIOUS
<1> USE StreamsAssumption
    DEF IndInv, TypeOK, Codes, NoCode, Answers, Phases, Events, Live, Attached, Connected,
        handler, process, outputs, inputs, control, client
<1>1. CASE Display
  <2>1. Scalars'
    BY <1>1 DEF Display, Scalars
  <2>2. ControlOK'
    BY <1>1 DEF Display, ControlOK
  <2>3. Flags'
    BY <1>1 DEF Display, Flags
  <2>4. Conserved' /\ Settled' /\ Drained' /\ Told'
    BY <1>1 DEF Display, Scalars, Conserved, Settled, Drained, Told
  <2> QED
    BY <2>1, <2>2, <2>3, <2>4
<1>2. CASE EndOutput \/ EndInput
  <2>1. Scalars'
    BY <1>2 DEF EndOutput, EndInput, Scalars
  <2>2. ControlOK'
    BY <1>2 DEF EndOutput, EndInput, ControlOK
  <2>3. Flags'
    BY <1>2 DEF EndOutput, EndInput, Flags
  <2>4. Conserved' /\ Settled' /\ Drained' /\ Told'
    BY <1>2 DEF EndOutput, EndInput, Scalars, Conserved, Settled, Drained, Told
  <2> QED
    BY <2>1, <2>2, <2>3, <2>4
<1>3. CASE ReadExit
  <2>1. Scalars'
    BY <1>3 DEF ReadExit, Scalars
  <2>2. ControlOK'
    BY <1>3 DEF ReadExit, ControlOK
  <2>3. Flags'
    BY <1>3 DEF ReadExit, Flags
  <2>4. Conserved' /\ Settled' /\ Drained' /\ Told'
    BY <1>3 DEF ReadExit, Scalars, Conserved, Settled, Drained, Told
  <2> QED
    BY <2>1, <2>2, <2>3, <2>4
<1>4. CASE Return \/ ClientDies
  <2>1. Scalars'
    BY <1>4 DEF Return, ClientDies, Scalars
  <2>2. ControlOK'
    BY <1>4 DEF Return, ClientDies, ControlOK
  <2>3. Flags'
    BY <1>4 DEF Return, ClientDies, Flags
  <2>4. Conserved' /\ Settled' /\ Drained' /\ Told'
    BY <1>4 DEF Return, ClientDies, Scalars, Conserved, Settled, Drained, Told
  <2> QED
    BY <2>1, <2>2, <2>3, <2>4
<1>5. CASE Produce
  <2>1. Scalars'
    BY <1>5 DEF Produce, Scalars
  <2>2. ControlOK'
    BY <1>5 DEF Produce, ControlOK
  <2>3. Flags'
    BY <1>5 DEF Produce, Flags
  <2>4. Conserved' /\ Settled' /\ Drained' /\ Told'
    BY <1>5 DEF Produce, Scalars, Conserved, Settled, Drained, Told
  <2> QED
    BY <2>1, <2>2, <2>3, <2>4
<1>6. CASE Exit
  <2>1. Scalars'
    BY <1>6 DEF Exit, Scalars
  <2>2. ControlOK'
    BY <1>6 DEF Exit, ControlOK
  <2>3. Flags'
    BY <1>6 DEF Exit, Flags
  <2>4. Conserved' /\ Settled' /\ Drained' /\ Told'
    BY <1>6 DEF Exit, Scalars, Conserved, Settled, Drained, Told
  <2> QED
    BY <2>1, <2>2, <2>3, <2>4
<1>7. CASE SendResize \/ SendKill
  <2>0. UNCHANGED <<kind, handler, process, outputs, inputs, client>>
    BY <1>7 DEF SendResize, SendKill
  <2>1. Scalars'
    BY ONLY IndInv, <2>0
       DEF IndInv, TypeOK, Scalars, handler, process, outputs, inputs, client, Codes, NoCode,
           Answers, Phases, Live
  <2>2. ControlOK'
    BY <1>7 DEF SendResize, SendKill, ControlOK
  <2>3. Flags'
    BY <1>7 DEF SendResize, SendKill, Flags
  <2>4. Conserved' /\ Settled' /\ Drained' /\ Told'
    BY ONLY IndInv, <2>0
       DEF IndInv, Conserved, Settled, Drained, Told, handler, process, outputs, inputs, client, Live
  <2> QED
    BY <2>1, <2>2, <2>3, <2>4
<1>8. CASE Type
  <2>1. Scalars'
    BY <1>8 DEF Type, Scalars
  <2>2. ControlOK'
    BY <1>8 DEF Type, ControlOK
  <2>3. Flags'
    BY <1>8 DEF Type, Flags
  <2>4. Conserved' /\ Settled' /\ Drained' /\ Told'
    BY <1>8 DEF Type, Scalars, Conserved, Settled, Drained, Told
  <2> QED
    BY <2>1, <2>2, <2>3, <2>4
<1> QED
  BY <1>1, <1>2, <1>3, <1>4, <1>5, <1>6, <1>7, <1>8 DEF Outside

LEMMA SessionInvariant == Spec => []IndInv
<1>1. IndInv /\ UNCHANGED vars => IndInv'
  BY DEF vars, handler, process, outputs, inputs, control, client, IndInv, TypeOK, Scalars,
         Flags, ControlOK, Attached, Connected, Conserved, Settled, Drained, Told
<1>2. IndInv /\ [Next]_vars => IndInv'
  BY <1>1, HandlerKeeps, CopiesKeep, ClientKeeps DEF Next, Goroutines
<1> QED
  BY <1>2, OpenSound, PTL DEF Spec

\* The types of the variables are invariant, and controlChan never exceeds its
\* capacity.
THEOREM StreamTypes == Spec => []TypeOK
<1>1. IndInv => TypeOK
  BY DEF IndInv
<1> QED
  BY <1>1, SessionInvariant, PTL

\* A client that holds the exit code of an exec has got everything the command
\* wrote, or still finds it in its stdout stream (handle_exec.go:92-121).
THEOREM ExecAnswerComesLast == Spec => []ExecAnswersLast
<1>1. IndInv => ExecAnswersLast
  BY DEF IndInv, TypeOK, Scalars, Conserved, Told, ExecAnswersLast
<1> QED
  BY <1>1, SessionInvariant, PTL
=============================================================================
