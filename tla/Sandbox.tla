------------------------------- MODULE Sandbox -------------------------------
(***************************************************************************)
(* What minidocker promises about every process it starts for a container: *)
(* the process exists for one container only, it receives its limits, then *)
(* its network, and only then runs the user's command; it may die at any   *)
(* moment, and leaves the process table only once it is dead, or, when no  *)
(* daemon is there to wait for it, directly.                               *)
(*                                                                         *)
(* Several processes may move in one step (cgroup.kill, the end of the     *)
(* daemon), so a step moves each process along one edge or leaves it.      *)
(***************************************************************************)
CONSTANTS Pids, Ids, NoId

VARIABLES phase, box

Phases == {"absent", "made", "limited", "connected", "running", "dead"}

Setup == {<<"absent", "made">>, <<"made", "limited">>,
          <<"limited", "connected">>, <<"connected", "running">>}
Deaths == {"made", "limited", "connected", "running"} \X {"dead"}
Departures == {"running", "dead"} \X {"absent"}

Moves(p) ==
    \/ phase'[p] = phase[p] /\ box'[p] = box[p]
    \/ /\ <<phase[p], phase'[p]>> \in Setup \cup Deaths \cup Departures
       /\ box'[p] = IF phase'[p] = "absent" THEN NoId ELSE box'[p]
       /\ phase[p] # "absent" /\ phase'[p] # "absent" => box'[p] = box[p]
       /\ phase'[p] = "made" => box'[p] \in Ids

Init == /\ phase = [p \in Pids |-> "absent"]
        /\ box = [p \in Pids |-> NoId]

Next == /\ phase' \in [Pids -> Phases]
        /\ box' \in [Pids -> Ids \cup {NoId}]
        /\ \A p \in Pids : Moves(p)

Spec == Init /\ [][Next]_<<phase, box>>
=============================================================================
