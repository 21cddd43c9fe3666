------------------------------- MODULE LogFollow -------------------------------
(***************************************************************************)
(* Reading the log of a container while its sessions write it:             *)
(* handle_logs.go and the log file of StartContainer (manager.go:229-276). *)
(*                                                                         *)
(* The command writes to a pipe, for the daemon's writer is no file; a     *)
(* goroutine of exec.Cmd copies it to container.log, which all sessions of *)
(* a container append to.  Lines are told by their number.  Only the state *)
(* of the record matters; it changes when a save ends, and cannot be read  *)
(* while one goes on.                                                      *)
(***************************************************************************)
EXTENDS Naturals

CONSTANTS
    MaxLines,    \* bound: lines that are printed
    MaxSessions, \* bound: sessions
    MaxCrashes   \* bound: how often the daemon dies

ASSUME LogAssumption == MaxLines \in Nat /\ MaxSessions \in Nat /\ MaxCrashes \in Nat

VARIABLES
    rec,      \* State in the record: "created", "running", "stopped" (or failed), or "lost"
    spc,      \* the session
    proc,     \* the command: "none", "runs", "ended", or "alone", without its daemon
    file,     \* container.log exists
    printed,  \* lines printed,
    inlog,    \*   copied to the file,
    dropped,  \*   and never to be copied
    sink,     \* the copy of the last session: "log", or "none" without a file or a reader
    before,   \* history: dropped when it opened its log
    rpc,      \* the reader
    follow,   \* its query asks to follow
    pos,      \* lines it has sent
    had,      \* history: lines in the log when it opened it
    stop,     \* StopContainer
    sessions, crashes

session == <<rec, spc, file, sessions>>
output == <<proc, printed, inlog, dropped, sink, before>>
reader == <<rpc, follow, pos, had>>
vars == <<session, output, reader, stop, crashes>>

Init ==
    /\ rec = "created" /\ spc = "idle" /\ file = FALSE
    /\ proc = "none" /\ printed = 0 /\ inlog = 0 /\ dropped = 0 /\ sink = "none" /\ before = 0
    /\ rpc = "idle" /\ follow = FALSE /\ pos = 0 /\ had = 0
    /\ stop = "idle" /\ sessions = 0 /\ crashes = 0

\* os.WriteFile has truncated config.json and not yet written it.
Saving == spc \in {"saveStale", "saveRun", "saveReady", "saveEnd"} \/ stop = "save"

\* GetContainer succeeds
Readable == ~Saving /\ rec # "lost"

-----------------------------------------------------------------------------
\* A start corrects a record that says running, prepares image and mount, which may
\* fail, and saves.
Start ==
    /\ spc = "idle" /\ Readable /\ proc = "none" /\ sessions < MaxSessions
    /\ spc' = IF rec = "running" THEN "saveStale" ELSE "prepare"
    /\ sessions' = sessions + 1
    /\ UNCHANGED <<rec, file, output, reader, stop, crashes>>

Prepare ==
    /\ spc = "prepare"
    /\ spc' \in {"saveRun", "idle"}
    /\ UNCHANGED <<rec, file, sessions, output, reader, stop, crashes>>

\* A save ends: the session's, which keeps its own copy of the state ...
Saved ==
    /\ \/ spc = "saveStale" /\ spc' = "prepare" /\ rec' = "stopped"
       \/ spc = "saveRun" /\ spc' = "open" /\ rec' = "running"
       \/ spc = "saveReady" /\ spc' = "wait" /\ rec' = "running"
       \/ spc = "saveEnd" /\ spc' = "idle" /\ rec' = "stopped"
    /\ proc' = CASE spc = "saveReady" -> "runs" [] spc = "saveEnd" -> "none" [] OTHER -> proc
    /\ UNCHANGED <<file, sessions, printed, inlog, dropped, sink, before, reader, stop, crashes>>

\* A session that cannot open its log runs without one.
OpenLog ==
    /\ spc = "open"
    /\ spc' = "setup" /\ before' = dropped
    /\ \/ file' = TRUE /\ sink' = "log"
       \/ sink' = "none" /\ UNCHANGED file
    /\ UNCHANGED <<rec, sessions, proc, printed, inlog, dropped, reader, stop, crashes>>

\* RunParent gets to onReady, or fails.
SetUp ==
    /\ spc = "setup"
    /\ spc' \in {"saveReady", "saveEnd"}
    /\ UNCHANGED <<rec, file, sessions, output, reader, stop, crashes>>

\* Fault: the end of the command is enough.
WaitProcess ==
    /\ spc = "wait" /\ proc = "ended"
    /\ spc' = "saveEnd"
    /\ UNCHANGED <<rec, file, sessions, output, reader, stop, crashes>>

\* cmd.Wait: the end of the command and of the copy
Wait ==
    /\ spc = "wait" /\ proc = "ended" /\ inlog + dropped = printed
    /\ spc' = "saveEnd"
    /\ UNCHANGED <<rec, file, sessions, output, reader, stop, crashes>>

\* A container that outlived its daemon has nobody at its pipe: its lines are lost.
PrintLine ==
    /\ proc \in {"runs", "alone"} /\ printed < MaxLines
    /\ printed' = printed + 1
    /\ dropped' = IF proc = "alone" THEN dropped + 1 ELSE dropped
    /\ UNCHANGED <<proc, inlog, sink, before, session, reader, stop, crashes>>

\* ... nor at its end
Exit ==
    /\ proc \in {"runs", "alone"}
    /\ proc' = IF proc = "alone" THEN "none" ELSE "ended"
    /\ UNCHANGED <<printed, inlog, dropped, sink, before, session, reader, stop, crashes>>

\* Fault: the file is given twice to the writer.
CopyTwice ==
    /\ inlog + dropped < printed
    /\ inlog' = inlog + 2
    /\ UNCHANGED <<proc, printed, dropped, sink, before, session, reader, stop, crashes>>

\* the goroutine of exec.Cmd, to the log or past it
CopyOutput ==
    /\ inlog + dropped < printed
    /\ IF sink = "log" THEN inlog' = inlog + 1 /\ UNCHANGED dropped
                       ELSE dropped' = dropped + 1 /\ UNCHANGED inlog
    /\ UNCHANGED <<proc, printed, sink, before, session, reader, stop, crashes>>

\* A write fails, which ends the copy and closes the pipe.
CopyFails ==
    /\ inlog + dropped < printed /\ sink = "log"
    /\ sink' = "none"
    /\ UNCHANGED <<proc, printed, inlog, dropped, before, session, reader, stop, crashes>>

-----------------------------------------------------------------------------
\* StopContainer: the kill, and the save of its copy of the record
StopContainer ==
    /\ stop = "idle" /\ Readable /\ rec = "running"
    /\ stop' = "kill"
    /\ UNCHANGED <<session, output, reader, crashes>>

StopKill ==
    /\ stop = "kill"
    /\ stop' = "save"
    /\ proc' = CASE proc = "runs" -> "ended" [] proc = "alone" -> "none" [] OTHER -> proc
    /\ UNCHANGED <<printed, inlog, dropped, sink, before, session, reader, crashes>>

StopSaved ==
    /\ stop = "save"
    /\ stop' = "idle" /\ rec' = "stopped"
    /\ UNCHANGED <<spc, file, sessions, output, reader, crashes>>

\* The daemon dies and boots: Reconcile corrects a record whose process is gone.
Crash ==
    /\ crashes < MaxCrashes
    /\ crashes' = crashes + 1
    /\ spc' = "idle" /\ stop' = "idle" /\ rpc' = "idle"
    /\ proc' = IF proc \in {"runs", "alone"} THEN "alone" ELSE "none"
    /\ rec' = CASE Saving -> "lost"
                [] ~Saving /\ rec = "running" /\ proc' = "none" -> "stopped"
                [] OTHER -> rec
    /\ dropped' = printed - inlog /\ sink' = "none"
    /\ UNCHANGED <<file, sessions, printed, inlog, before, follow, pos, had>>

-----------------------------------------------------------------------------
\* HandleLogs; without a record or a log the answer is an error.
HandleLogs(f) ==
    /\ rpc = "idle" /\ Readable /\ file
    /\ rpc' = "read" /\ follow' = f
    /\ pos' = 0 /\ had' = inlog
    /\ UNCHANGED <<session, output, stop, crashes>>

Line ==
    /\ rpc = "read" /\ pos < inlog
    /\ pos' = pos + 1
    /\ UNCHANGED <<rpc, follow, had, session, output, stop, crashes>>

\* Fault: the state is asked for before the file is read to its end.
EofEarly ==
    /\ rpc = "read"
    /\ rpc' = IF follow THEN "check" ELSE "done"
    /\ UNCHANGED <<follow, pos, had, session, output, stop, crashes>>

Eof ==
    /\ rpc = "read" /\ pos = inlog
    /\ rpc' = IF follow THEN "check" ELSE "done"
    /\ UNCHANGED <<follow, pos, had, session, output, stop, crashes>>

\* Another error of the read ends the answer, which looks complete.
ReadFails ==
    /\ rpc = "read"
    /\ rpc' = "broken"
    /\ UNCHANGED <<follow, pos, had, session, output, stop, crashes>>

\* Fault: only a record that cannot be read ends it.
GoesOn == Readable

\* Fault: it asks again, and does not read.
CheckOnly ==
    /\ rpc = "check"
    /\ rpc' = IF Readable /\ rec = "running" THEN "check" ELSE "done"
    /\ UNCHANGED <<follow, pos, had, session, output, stop, crashes>>

\* It goes on, 200 ms later, as long as the record says running.
Runs == Readable /\ rec = "running"

Check ==
    /\ rpc = "check"
    /\ rpc' = IF Runs THEN "read" ELSE "done"
    /\ UNCHANGED <<follow, pos, had, session, output, stop, crashes>>

\* the client has its answer
Answered ==
    /\ rpc \in {"done", "broken"}
    /\ rpc' = "idle"
    /\ UNCHANGED <<follow, pos, had, session, output, stop, crashes>>

-----------------------------------------------------------------------------
Session == Prepare \/ Saved \/ OpenLog \/ SetUp \/ Wait
Reader == Line \/ Eof \/ Check \/ Answered
Stop == StopKill \/ StopSaved

Next ==
    \/ Start \/ Session \/ PrintLine \/ Exit \/ CopyOutput \/ CopyFails
    \/ StopContainer \/ Stop \/ Crash
    \/ Reader \/ ReadFails \/ \E f \in BOOLEAN : HandleLogs(f)

Spec == Init /\ [][Next]_vars

\* Goroutines go on; nobody has to start, stop, print, exit or ask.
FairSpec ==
    Spec /\ WF_vars(Session) /\ WF_vars(CopyOutput) /\ WF_vars(Stop) /\ WF_vars(Reader)

-----------------------------------------------------------------------------
\* The variables have their types.
TypeOK ==
    /\ rec \in {"created", "running", "stopped", "lost"}
    /\ spc \in {"idle", "saveStale", "prepare", "saveRun", "open", "setup", "saveReady", "wait", "saveEnd"}
    /\ proc \in {"none", "runs", "ended", "alone"}
    /\ file \in BOOLEAN
    /\ printed \in 0..MaxLines /\ inlog \in 0..printed /\ dropped \in 0..printed
    /\ inlog + dropped <= printed
    /\ sink \in {"log", "none"} /\ before \in 0..dropped
    /\ rpc \in {"idle", "read", "check", "done", "broken"}
    /\ follow \in BOOLEAN
    /\ pos \in 0..inlog /\ had \in 0..inlog
    /\ stop \in {"idle", "kill", "save"}
    /\ sessions \in 0..MaxSessions /\ crashes \in 0..MaxCrashes

\* Whoever asks gets at least what the log held when it was opened, even if the
\* container ends meanwhile, unless the file cannot be read (handle_logs.go:46-61).
SnapshotSent == rpc = "done" => pos >= had

\* When a session is over nothing of its output is still on its way, and if it could
\* open and write its log and its daemon lived, all of it is in the log, so that a
\* reader that comes then misses nothing (manager.go:229-276, exec.Cmd.Wait).
LoggedAtEnd ==
    spc = "idle" =>
        /\ inlog + dropped = printed
        /\ sink = "log" => dropped = before

\* Inductive strengthening of the two: only a session that waits has a command that
\* prints to it, ...
Supervised ==
    /\ proc = "runs" => spc = "wait"
    /\ proc = "alone" => spc = "idle" /\ sink = "none"

\* ... the others have no output that is still to be copied, ...
Settled == spc # "wait" => inlog + dropped = printed

\* ... a copy to the log drops no line, ...
Kept == sink = "log" => dropped = before

\* ... and a reader that has come to an end of file has sent what there was.
Sent == rpc \in {"check", "done"} => pos >= had

IndInv == TypeOK /\ Supervised /\ Settled /\ Kept /\ Sent

Reading == rpc \in {"read", "check"}

\* A reader that follows ends after the session, if a daemon was there to save its
\* end (handle_logs.go:59-62).
FollowEnds ==
    (Reading /\ spc = "idle" /\ crashes = 0) ~> (~Reading \/ spc # "idle" \/ crashes > 0)

\* A reader that goes on following gets every line.
CatchesUp ==
    \A n \in 1..MaxLines : (Reading /\ inlog >= n) ~> (~Reading \/ pos >= n)

\* Not so: a reader that follows has all lines when it ends.  Those between its end of
\* file and its look at the record are missed, and a save in progress looks like the end.
FollowsToTheEnd == rpc = "done" /\ follow => pos = printed

\* Not so: a record that says stopped has its output in the log.  A stop saves it
\* while the last lines are being copied.
LoggedWhenStopped == rec = "stopped" /\ crashes = 0 => inlog + dropped = printed
=============================================================================
