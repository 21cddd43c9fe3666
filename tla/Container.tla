------------------------------ MODULE Container ------------------------------
(***************************************************************************)
(* What minidocker promises about a container to a user who keeps to one   *)
(* request at a time for it: the container is created once, runs its       *)
(* command as often as it is started but never twice at once, is deleted   *)
(* only while its command does not run, and does not come back.            *)
(***************************************************************************)
CONSTANTS Ids, Pids

VARIABLES
    life,     \* "fresh", "used" or "gone"
    records,  \* the containers that have a config.json
    commands  \* the processes that run the command of a container

Init == /\ life = [i \in Ids |-> "fresh"]
        /\ records = {}
        /\ commands = [i \in Ids |-> {}]

Create(i) == /\ life[i] = "fresh"
             /\ life' = [life EXCEPT ![i] = "used"]
             /\ UNCHANGED <<records, commands>>

Save(i) == /\ life[i] = "used" /\ commands[i] = {}
           /\ records' = records \cup {i}
           /\ UNCHANGED <<life, commands>>

Start(i, p) == /\ i \in records /\ commands[i] = {}
               /\ \A j \in Ids : p \notin commands[j]
               /\ commands' = [commands EXCEPT ![i] = {p}]
               /\ UNCHANGED <<life, records>>

\* by itself, by a stop, or by a kill that was meant for another one
End(i) == /\ commands[i] # {}
          /\ commands' = [commands EXCEPT ![i] = {}]
          /\ UNCHANGED <<life, records>>

\* os.RemoveAll may take the record and fail on the rest
Delete(i) == /\ life[i] = "used" /\ commands[i] = {}
             /\ records' = records \ {i}
             /\ UNCHANGED life \/ life' = [life EXCEPT ![i] = "gone"]
             /\ UNCHANGED commands

Next == \E i \in Ids : \/ Create(i) \/ Save(i) \/ End(i) \/ Delete(i)
                       \/ \E p \in Pids : Start(i, p)

Spec == Init /\ [][Next]_<<life, records, commands>>
=============================================================================
