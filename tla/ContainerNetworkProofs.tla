------------------------ MODULE ContainerNetworkProofs ------------------------
(***************************************************************************)
(* Proofs about ContainerNetwork, for any number of containers, names,     *)
(* process ids and ends of the daemon.                                     *)
(***************************************************************************)
EXTENDS ContainerNetwork, TLAPS

LEMMA TailElements ==
    ASSUME NEW S, NEW q \in Seq(S), q # <<>>
    PROVE  /\ Head(q) \in S /\ Tail(q) \in Seq(S)
           /\ Head(q) \in Elements(q)
           /\ Elements(Tail(q)) \subseteq Elements(q)
           /\ Elements(q) \subseteq {Head(q)} \cup Elements(Tail(q))
<1>1. Len(q) \in Nat /\ Len(q) > 0 /\ DOMAIN q = 1..Len(q) /\ Head(q) = q[1] /\ 1 \in DOMAIN q
  OBVIOUS
<1>2. Head(q) \in S /\ Tail(q) \in Seq(S) /\ Len(Tail(q)) = Len(q) - 1
  OBVIOUS
<1>3. DOMAIN Tail(q) = 1..(Len(q) - 1)
  BY <1>1, <1>2
<1>4. \A i \in DOMAIN Tail(q) : i + 1 \in DOMAIN q /\ Tail(q)[i] = q[i + 1]
  BY <1>1, <1>2, <1>3
<1>5. \A i \in DOMAIN q : i = 1 \/ (i - 1 \in DOMAIN Tail(q) /\ Tail(q)[i - 1] = q[i])
  BY <1>1, <1>2, <1>3, <1>4
<1>6. Elements(Tail(q)) \subseteq Elements(q)
  BY <1>4 DEF Elements
<1>7. Elements(q) \subseteq {Head(q)} \cup Elements(Tail(q))
  BY <1>1, <1>5 DEF Elements
<1> QED
  BY <1>1, <1>2, <1>6, <1>7 DEF Elements

\* What a key of a container's own says of the container.
LEMMA OwnKeyFacts ==
    ASSUME NEW c \in Containers
    PROVE  /\ c \in Names /\ Key(c) \in Names
           /\ OwnKeys(c) \subseteq {c, Key(c)} /\ OwnKeys(c) \subseteq Names
           /\ \A o \in Containers : {o, Key(o)} \cap OwnKeys(c) # {} => o = c
<1>1. \A o \in Containers : Key(o) \in Names
  BY NetworkAssumption DEF Key
<1> QED
  BY <1>1, NetworkAssumption DEF OwnKeys, KeysOf

LEMMA AddressSound ==
    ASSUME NEW p \in Pids
    PROVE  Address(p) \in Addresses /\ Address(p)[2] \notin {0, 1}
<1> USE NetworkAssumption
<1>1. p \in Nat /\ Octet \in Nat /\ Octet > 2
  OBVIOUS
<1>2. p % Octet \in 0..(Octet - 1)
  BY <1>1
<1>3. p \div Octet \in Nat
  BY <1>1
<1>4. (p \div Octet) % Octet \in 0..(Octet - 1)
  BY <1>1, <1>3
<1>5. Fourth(p) \in Octets /\ Fourth(p) \notin {0, 1}
  BY <1>1, <1>2 DEF Fourth, Octets
<1> QED
  BY <1>4, <1>5 DEF Address, Addresses, Octets

LEMMA PairElements ==
    ASSUME NEW S, NEW x \in S, NEW y \in S
    PROVE  /\ <<x, y>> \in Seq(S) /\ <<x, y>> # <<>>
           /\ Elements(<<x, y>>) = {x, y}
<1>1. Len(<<x, y>>) = 2 /\ DOMAIN <<x, y>> = {1, 2} /\ <<x, y>>[1] = x /\ <<x, y>>[2] = y
  OBVIOUS
<1>2. Elements(<<x, y>>) = {x, y}
  BY <1>1 DEF Elements
<1>3. <<x, y>> \in Seq(S)
  OBVIOUS
<1> QED
  BY <1>1, <1>2, <1>3

\* Two registrations of a container concern its keys and give them the address.
LEMMA TwoEntries ==
    ASSUME NEW o \in Containers, NEW a \in Addresses \cup {NoIP}, NEW q,
           q \in {IdThenName(o, a), NameThenId(o, a)}
    PROVE  /\ q \in Seq(Pending) /\ q # <<>>
           /\ Elements(q) = {[key |-> o, to |-> a], [key |-> Key(o), to |-> a]}
<1> DEFINE x == [key |-> o, to |-> a]
           y == [key |-> Key(o), to |-> a]
<1>1. Key(o) \in Names
  BY NetworkAssumption DEF Key
<1>2. x \in Pending /\ y \in Pending
  BY <1>1, NetworkAssumption DEF Pending
<1>3. q = <<x, y>> \/ q = <<y, x>>
  BY DEF IdThenName, NameThenId
<1> HIDE DEF x, y
<1>4. /\ <<x, y>> \in Seq(Pending) /\ <<x, y>> # <<>> /\ Elements(<<x, y>>) = {x, y}
      /\ <<y, x>> \in Seq(Pending) /\ <<y, x>> # <<>> /\ Elements(<<y, x>>) = {y, x}
  BY <1>2, PairElements
<1>5. q \in Seq(Pending) /\ q # <<>> /\ Elements(q) = {x, y}
  BY <1>3, <1>4
<1> QED
  BY <1>5 DEF x, y

LEMMA NoEntries == Elements(<<>>) = {} /\ <<>> \in Seq(Pending)
BY DEF Elements

\* Where neither the table nor the address changes, nothing is less right.
LEMMA Frame ==
    ASSUME NEW s \in Containers, NEW c \in Containers,
           UNCHANGED <<mu, copy, table, touched>>, addr'[c] = addr[c]
    PROVE  /\ \A k : Right(c, k)' = Right(c, k)
           /\ Resolves(c)' = Resolves(c)
           /\ ops'[s] = ops[s] => Due(s)' = Due(s) /\ DueOrRight(s, c)' = DueOrRight(s, c)
<1>1. Content' = Content
  BY DEF Content
<1>2. \A k : Right(c, k)' = Right(c, k)
  BY <1>1 DEF Right
<1>3. OwnKeys(c)' = OwnKeys(c)
  BY DEF OwnKeys, KeysOf, Key
<1>4. Resolves(c)' = Resolves(c)
  BY <1>2, <1>3 DEF Resolves
<1>5. ASSUME ops'[s] = ops[s] PROVE Due(s)' = Due(s) /\ DueOrRight(s, c)' = DueOrRight(s, c)
  <2>1. Due(s)' = Due(s)
    BY <1>5 DEF Due
  <2> QED
    BY <1>2, <1>3, <2>1 DEF DueOrRight
<1> QED
  BY <1>2, <1>4, <1>5

LEMMA StartsSound == Init => IndInv
<1> SUFFICES ASSUME Init PROVE IndInv
  OBVIOUS
<1> USE NetworkAssumption DEF Init
<1>1. \A c \in Containers : ops[c] = <<>>
  OBVIOUS
<1>2. TypeOK
  <2>1. Empty \in [Names -> Addresses \cup {NoIP}]
    BY DEF Empty
  <2>2. heard \in BOOLEAN
    OBVIOUS
  <2>3. crashes \in 0..MaxCrashes
    OBVIOUS
  <2>4. ops \in [Containers -> Seq(Pending)]
    BY NoEntries
  <2> QED
    BY <2>1, <2>2, <2>3, <2>4 DEF TypeOK
<1>3. \A c \in Containers : Due(c) = {}
  BY <1>1, NoEntries DEF Due
<1>4. Stages /\ Sticky
  BY DEF Stages, Sticky
<1>5. DueRight /\ Registered /\ PreloadedSoFar /\ SurvivorsBack
  BY <1>3 DEF DueRight, Registered, PreloadedSoFar, SurvivorsBack, Survivor
<1>6. PairsReleased /\ ProperAddresses /\ CutTouched
  BY DEF PairsReleased, ProperAddresses, Proper, CutTouched
<1> QED
  BY <1>2, <1>4, <1>5, <1>6 DEF IndInv

\* A record is made or removed.
LEMMA RecordKeeps ==
    ASSUME IndInv, NEW c \in Containers, Create(c) \/ Delete(c)
    PROVE  IndInv'
<1> USE NetworkAssumption DEF IndInv, TypeOK, work, names, host, hist
<1>0. /\ UNCHANGED <<pc, todo, ops, mu, copy, table, cut, proc, pid, addr, veth, heard, touched, crashes>>
      /\ pid[c] = NoPid /\ addr[c] = NoIP
      /\ life' \in [Containers -> {"new", "made", "gone"}]
      /\ ip' \in [Containers -> Addresses \cup {NoIP}]
      /\ \A o \in Containers \ {c} : life'[o] = life[o] /\ ip'[o] = ip[o]
      /\ pc[c] = "idle" /\ proc[c] = "none"
      /\ ip'[c] \in {StaticOf[c], NoIP}
      /\ life'[c] = "made" => ip'[c] = StaticOf[c]
      /\ \/ life[c] = "new" /\ ip[c] = NoIP /\ life'[c] = "made"
         \/ life'[c] = "gone"
  <2>1. CASE Create(c)
    BY <2>1 DEF Create, Stages
  <2>2. CASE Delete(c)
    BY <2>2 DEF Delete, Stages
  <2> QED
    BY <2>1, <2>2
<1>1. TypeOK'
  BY <1>0
<1>2. Stages' /\ Sticky'
  BY <1>0 DEF Stages, Sticky
<1>3. DueRight'
  <2> SUFFICES ASSUME NEW s \in Containers, NEW o \in Containers, NEW e \in Due(s),
                      e.key \in OwnKeys(o), life'[o] # "gone"
               PROVE  \/ e.to # NoIP /\ e.to = ip'[o]
                      \/ e.to # NoIP /\ e.to = addr[o] /\ s = o
                      \/ s = o /\ pc[o] = "undo"
    BY <1>0 DEF DueRight, Due
  <2>1. life[o] # "gone"
    BY <1>0
  <2> QED
    BY <1>0, <2>1 DEF DueRight
<1>4. Registered' /\ PreloadedSoFar' /\ SurvivorsBack'
  BY <1>0 DEF Registered, PreloadedSoFar, SurvivorsBack, Survivor, DueOrRight, Due, Right, Resolves, Content
<1>5. PairsReleased' /\ CutTouched'
  BY <1>0 DEF PairsReleased, CutTouched
<1>6. ProperAddresses'
  BY <1>0 DEF ProperAddresses, Proper
<1> QED
  BY <1>1, <1>2, <1>3, <1>4, <1>5, <1>6

LEMMA StartKeeps ==
    ASSUME IndInv, NEW c \in Containers, Start(c)
    PROVE  IndInv'
<1> USE NetworkAssumption DEF IndInv, TypeOK, records, names, host, hist
<1>0. /\ UNCHANGED <<life, ip, ops, mu, copy, table, cut, proc, pid, addr, veth, heard, touched, crashes>>
      /\ life[c] = "made" /\ pc[c] = "idle" /\ proc[c] = "none"
      /\ pc'[c] \in {"preload", "spawn"} /\ pc' \in [Containers -> {"idle", "preload", "spawn", "move",
                                "abort", "register", "ready", "wait", "undo"}]
      /\ pc'[c] = "preload" => todo'[c] = Made
      /\ todo' \in [Containers -> SUBSET Containers]
      /\ \A o \in Containers \ {c} : pc'[o] = pc[o] /\ todo'[o] = todo[o]
  <2>1. CASE Goto(c, "preload") /\ todo' = [todo EXCEPT ![c] = Made]
    <3>1. Made \subseteq Containers
      BY DEF Made
    <3> QED
      BY <2>1, <3>1 DEF Start, Goto
  <2>2. CASE Goto(c, "spawn") /\ UNCHANGED todo
    BY <2>2 DEF Start, Goto
  <2> QED
    BY <2>1, <2>2 DEF Start
<1>1. TypeOK'
  BY <1>0
<1>2. Stages' /\ Sticky'
  BY <1>0 DEF Stages, Sticky
<1>3. DueRight'
  BY <1>0 DEF DueRight, Due
<1>4. Registered'
  BY <1>0, Frame DEF Registered
<1>5. PreloadedSoFar'
  <2> SUFFICES ASSUME NEW s \in Containers, NEW o \in Containers,
                      pc'[s] = "preload", Survivor(o)'
               PROVE  o \in todo'[s] \/ DueOrRight(s, o)'
    BY DEF PreloadedSoFar
  <2>1. Survivor(o) /\ life[o] = "made"
    BY <1>0 DEF Survivor, Stages
  <2>2. CASE s = c
    BY <1>0, <2>1, <2>2 DEF Made
  <2>3. CASE s # c
    BY <1>0, <2>1, <2>3, Frame DEF PreloadedSoFar
  <2> QED
    BY <2>2, <2>3
<1>6. SurvivorsBack'
  BY <1>0, Frame DEF SurvivorsBack, Survivor
<1>7. PairsReleased' /\ ProperAddresses' /\ CutTouched'
  BY <1>0 DEF PairsReleased, ProperAddresses, Proper, CutTouched
<1> QED
  BY <1>1, <1>2, <1>3, <1>4, <1>5, <1>6, <1>7

\* The preload takes the next record: what it has to register is the address of a
\* record that stays as it is.
LEMMA PreloadKeeps ==
    ASSUME IndInv, NEW c \in Containers, NEW o \in Containers, Preload(c, o)
    PROVE  IndInv'
<1> USE NetworkAssumption DEF IndInv, TypeOK, records, names, host, hist
<1>0. /\ UNCHANGED <<life, ip, pc, mu, copy, table, cut, proc, pid, addr, veth, heard, touched, crashes>>
      /\ pc[c] = "preload" /\ ops[c] = <<>>
      /\ todo' = [todo EXCEPT ![c] = @ \ {o}]
  BY DEF Preload
<1>1. CASE life[o] = "made" /\ ip[o] # NoIP /\ ops' = [ops EXCEPT ![c] = NameThenId(o, ip[o])]
  <2>1. /\ NameThenId(o, ip[o]) \in Seq(Pending) /\ NameThenId(o, ip[o]) # <<>>
        /\ Elements(NameThenId(o, ip[o])) = {[key |-> o, to |-> ip[o]], [key |-> Key(o), to |-> ip[o]]}
    BY TwoEntries
  <2>2. /\ ops' \in [Containers -> Seq(Pending)] /\ ops'[c] # <<>>
        /\ \A s \in Containers \ {c} : ops'[s] = ops[s]
        /\ Due(c)' = {[key |-> o, to |-> ip[o]], [key |-> Key(o), to |-> ip[o]]}
        /\ Due(c) = {}
    BY <1>0, <1>1, <2>1, NoEntries DEF Due
  <2>3. TypeOK'
    BY <1>0, <2>2
  <2>4. Stages' /\ Sticky'
    BY <1>0, <2>2 DEF Stages, Sticky
  <2>5. DueRight'
    <3>1. \A s \in Containers \ {c} : Due(s)' = Due(s)
      BY <2>2 DEF Due
    <3>2. \A e \in Due(c)' : e.key \in {o, Key(o)} /\ e.to = ip[o]
      BY <2>2
    <3>3. \A x \in Containers : \A e \in Due(c)' : e.key \in OwnKeys(x) => x = o
      BY <3>2, OwnKeyFacts
    <3> SUFFICES ASSUME NEW s \in Containers, NEW x \in Containers, NEW e \in Due(s)',
                        e.key \in OwnKeys(x), life[x] # "gone"
                 PROVE  \/ e.to # NoIP /\ e.to = ip[x]
                        \/ e.to # NoIP /\ e.to = addr[x] /\ s = x
                        \/ s = x /\ pc[x] = "undo"
      BY <1>0 DEF DueRight, OwnKeys, KeysOf, Key
    <3>4. CASE s = c
      BY <1>1, <3>2, <3>3, <3>4
    <3>5. CASE s # c
      BY <3>1, <3>5 DEF DueRight
    <3> QED
      BY <3>4, <3>5
  <2>6. Registered'
    <3> SUFFICES ASSUME NEW x \in Containers, pc[x] \in {"register", "ready", "wait"}
                 PROVE  DueOrRight(x, x)'
      BY <1>0 DEF Registered
    <3>1. x # c /\ ops'[x] = ops[x] /\ DueOrRight(x, x)
      BY <1>0, <2>2 DEF Registered
    <3> QED
      BY <1>0, <3>1, Frame
  <2>7. PreloadedSoFar'
    <3> SUFFICES ASSUME NEW s \in Containers, NEW x \in Containers,
                        pc[s] = "preload", Survivor(x), x \notin todo'[s]
                 PROVE  DueOrRight(s, x)'
      BY <1>0 DEF PreloadedSoFar, Survivor
    <3>1. CASE s # c
      BY <1>0, <2>2, <3>1, Frame DEF PreloadedSoFar
    <3>2. CASE s = c /\ x = o
      <4>1. \A k \in {o, Key(o)} : [key |-> k, to |-> ip[o]] \in Due(c)'
        BY <2>2
      <4>2. \A k \in OwnKeys(o) : \E e \in Due(c)' : e.key = k
        BY <4>1, OwnKeyFacts
      <4>3. OwnKeys(o)' = OwnKeys(o)
        BY DEF OwnKeys, KeysOf, Key
      <4> QED
        BY <3>2, <4>2, <4>3 DEF DueOrRight
    <3>3. CASE s = c /\ x # o
      <4>1. \A k \in OwnKeys(x) \ touched : Right(x, k)
        BY <1>0, <2>2, <3>3 DEF PreloadedSoFar, DueOrRight
      <4> QED
        BY <1>0, <3>3, <4>1 DEF DueOrRight, Right, Content
    <3> QED
      BY <3>1, <3>2, <3>3
  <2>8. SurvivorsBack' /\ PairsReleased' /\ ProperAddresses' /\ CutTouched'
    BY <1>0 DEF SurvivorsBack, Survivor, Resolves, Right, Content, PairsReleased, ProperAddresses, Proper, CutTouched
  <2> QED
    BY <2>3, <2>4, <2>5, <2>6, <2>7, <2>8
<1>2. CASE (life[o] # "made" \/ ip[o] = NoIP \/ pc[o] # "idle") /\ UNCHANGED ops
  <2>1. TypeOK'
    BY <1>0, <1>2
  <2>2. Stages' /\ Sticky' /\ DueRight'
    BY <1>0, <1>2 DEF Stages, Sticky, DueRight, Due
  <2>3. Registered'
    BY <1>0, <1>2 DEF Registered, DueOrRight, Due, Right, Content
  <2>4. ~Survivor(o)
    BY <1>2 DEF Survivor, Stages, Sticky
  <2>5. PreloadedSoFar'
    BY <1>0, <1>2, <2>4 DEF PreloadedSoFar, Survivor, DueOrRight, Due, Right, Content
  <2>6. SurvivorsBack' /\ PairsReleased' /\ ProperAddresses' /\ CutTouched'
    BY <1>0 DEF SurvivorsBack, Survivor, Resolves, Right, Content, PairsReleased, ProperAddresses, Proper, CutTouched
  <2> QED
    BY <2>1, <2>2, <2>3, <2>5, <2>6
<1> QED
  BY <1>1, <1>2 DEF Preload

LEMMA PreloadedKeeps ==
    ASSUME IndInv, NEW c \in Containers, Preloaded(c)
    PROVE  IndInv'
<1> USE NetworkAssumption DEF IndInv, TypeOK, records, names, host
<1>0. /\ UNCHANGED <<life, ip, todo, ops, mu, copy, table, cut, proc, pid, addr, veth, touched, crashes>>
      /\ pc[c] = "preload" /\ todo[c] = {} /\ ops[c] = <<>> /\ heard' = TRUE
      /\ pc' = [pc EXCEPT ![c] = "spawn"]
  BY DEF Preloaded, Goto
<1>1. TypeOK'
  BY <1>0
<1>2. Stages' /\ Sticky'
  BY <1>0 DEF Stages, Sticky
<1>3. DueRight'
  BY <1>0 DEF DueRight, Due
<1>4. Registered'
  BY <1>0 DEF Registered, DueOrRight, Due, Right, Content
<1>5. PreloadedSoFar'
  BY <1>0 DEF PreloadedSoFar, Survivor, DueOrRight, Due, Right, Content
<1>6. SurvivorsBack'
  <2>1. Due(c) = {}
    BY <1>0, NoEntries DEF Due
  <2>2. \A o \in Containers : Survivor(o) => Resolves(o)
    BY <1>0, <2>1 DEF PreloadedSoFar, DueOrRight, Resolves
  <2> QED
    BY <1>0, <2>2 DEF SurvivorsBack, Survivor, Resolves, Right, Content
<1>7. PairsReleased' /\ ProperAddresses' /\ CutTouched'
  BY <1>0 DEF PairsReleased, ProperAddresses, Proper, CutTouched
<1> QED
  BY <1>1, <1>2, <1>3, <1>4, <1>5, <1>6, <1>7

LEMMA OpenTableKeeps ==
    ASSUME IndInv, NEW c \in Containers, OpenTable(c)
    PROVE  IndInv'
<1> USE NetworkAssumption DEF IndInv, TypeOK, records, work, host, hist
<1>0. /\ UNCHANGED <<life, ip, pc, todo, ops, proc, pid, addr, veth, heard, touched, crashes, cut>>
      /\ ops[c] # <<>> /\ mu = Free
      /\ mu' = c /\ copy' = table /\ table' = Empty
  BY DEF OpenTable
<1>1. Content' = Content
  BY <1>0 DEF Content
<1>2. \A x \in Containers : \A k : Right(x, k)' = Right(x, k)
  BY <1>0, <1>1 DEF Right
<1>3. \A x \in Containers : Due(x)' = Due(x) /\ OwnKeys(x)' = OwnKeys(x)
  BY <1>0 DEF Due, OwnKeys, KeysOf, Key
<1>4. TypeOK'
  <2>1. Empty \in [Names -> Addresses \cup {NoIP}]
    BY DEF Empty
  <2> QED
    BY <1>0, <2>1
<1>5. Stages' /\ Sticky'
  BY <1>0 DEF Stages, Sticky
<1>6. DueRight'
  BY <1>0, <1>3 DEF DueRight
<1>7. Registered' /\ PreloadedSoFar' /\ SurvivorsBack'
  BY <1>0, <1>2, <1>3 DEF Registered, PreloadedSoFar, SurvivorsBack, Survivor, Resolves, DueOrRight
<1>8. PairsReleased' /\ ProperAddresses' /\ CutTouched'
  <2>1. ~cut
    BY <1>0 DEF CutTouched
  <2> QED
    BY <1>0, <2>1 DEF PairsReleased, ProperAddresses, Proper, CutTouched
<1> QED
  BY <1>4, <1>5, <1>6, <1>7, <1>8

\* A registration that goes to a removed file is done with, as far as a session can tell.
LEMMA LostWriteKeeps ==
    ASSUME IndInv, NEW c \in Containers, WriteTable(c), cut
    PROVE  IndInv'
<1> USE NetworkAssumption DEF IndInv, TypeOK, records, host, hist, Unlock
<1>0. /\ UNCHANGED <<life, ip, pc, todo, proc, pid, addr, veth, heard, touched, crashes, table>>
      /\ mu = c /\ mu' = Free /\ copy' = Empty /\ cut' = FALSE /\ touched = Names
      /\ ops' = [ops EXCEPT ![c] = Tail(@)]
  BY DEF WriteTable, CutTouched
<1>1. ops[c] # <<>> /\ pc[c] \in {"preload", "register", "undo"}
  BY <1>0 DEF Stages
<1>2. Tail(ops[c]) \in Seq(Pending) /\ Due(c)' \subseteq Due(c)
  BY <1>0, <1>1, TailElements DEF Due
<1>3. \A s \in Containers : Due(s)' \subseteq Due(s)
  BY <1>0, <1>2 DEF Due
<1>4. \A s \in Containers : OwnKeys(s)' = OwnKeys(s) /\ OwnKeys(s) \ touched = {}
  BY <1>0, OwnKeyFacts DEF OwnKeys, KeysOf, Key
<1>5. TypeOK'
  <2>1. Empty \in [Names -> Addresses \cup {NoIP}]
    BY DEF Empty
  <2>2. ops' \in [Containers -> Seq(Pending)]
    BY <1>0, <1>2
  <2> QED
    BY <1>0, <2>1, <2>2
<1>6. Stages' /\ Sticky'
  BY <1>0, <1>1 DEF Stages, Sticky
<1>7. DueRight'
  BY <1>0, <1>3, <1>4 DEF DueRight
<1>8. Registered' /\ PreloadedSoFar' /\ SurvivorsBack'
  BY <1>0, <1>4 DEF Registered, PreloadedSoFar, SurvivorsBack, DueOrRight, Resolves
<1>9. PairsReleased' /\ ProperAddresses' /\ CutTouched'
  BY <1>0 DEF PairsReleased, ProperAddresses, Proper, CutTouched
<1> QED
  BY <1>5, <1>6, <1>7, <1>8, <1>9

\* A registration is written: it is right for whom it concerns, and leaves what
\* concerns others.
LEMMA WriteTableKeeps ==
    ASSUME IndInv, NEW c \in Containers, WriteTable(c), ~cut
    PROVE  IndInv'
<1> USE NetworkAssumption DEF IndInv, TypeOK, records, host, hist, Unlock
<1> PICK e : e = Head(ops[c])
  OBVIOUS
<1>0. /\ UNCHANGED <<life, ip, pc, todo, proc, pid, addr, veth, heard, crashes>>
      /\ mu = c /\ mu' = Free /\ copy' = Empty /\ cut' = FALSE
      /\ table' = [copy EXCEPT ![e.key] = e.to]
      /\ touched' = touched \ {e.key}
      /\ ops' = [ops EXCEPT ![c] = Tail(@)]
  BY DEF WriteTable
<1>1. ops[c] # <<>> /\ pc[c] \in {"preload", "register", "undo"}
  BY <1>0 DEF Stages
<1>2. /\ e \in Pending /\ Tail(ops[c]) \in Seq(Pending) /\ e \in Due(c)
      /\ Due(c)' \subseteq Due(c) /\ Due(c) \subseteq {e} \cup Due(c)'
  BY <1>0, <1>1, TailElements DEF Due
<1>3. \A s \in Containers \ {c} : Due(s)' = Due(s)
  BY <1>0 DEF Due
<1>4. \A s \in Containers : OwnKeys(s)' = OwnKeys(s)
  BY DEF OwnKeys, KeysOf, Key
<1>5. Content = copy /\ Content' = table'
  BY <1>0 DEF Content
<1>6. \A x \in Containers : \A k \in OwnKeys(x) :
        Right(x, k) /\ addr[x] # NoIP /\ ~(x = c /\ pc[c] = "undo") => Right(x, k)'
  <2> SUFFICES ASSUME NEW x \in Containers, NEW k \in OwnKeys(x),
                      Right(x, k), addr[x] # NoIP, ~(x = c /\ pc[c] = "undo")
               PROVE  table'[k] = addr[x]
    BY <1>0, <1>4, <1>5 DEF Right
  <2>1. k \in Names
    BY OwnKeyFacts
  <2>2. CASE k # e.key
    BY <1>0, <1>5, <2>1, <2>2 DEF Right
  <2>3. CASE k = e.key
    <3>1. life[x] # "gone"
      BY DEF Stages
    <3>2. \/ e.to # NoIP /\ e.to = ip[x]
          \/ e.to # NoIP /\ e.to = addr[x] /\ c = x
      BY <1>2, <2>3, <3>1 DEF DueRight
    <3>3. e.to = addr[x]
      BY <3>2 DEF Sticky
    <3> QED
      BY <1>0, <2>1, <2>3, <3>3
  <2> QED
    BY <2>2, <2>3
<1>7. \A x \in Containers :
        e.key \in OwnKeys(x) /\ addr[x] # NoIP /\ ~(x = c /\ pc[c] = "undo") => Right(x, e.key)'
  <2> SUFFICES ASSUME NEW x \in Containers, e.key \in OwnKeys(x),
                      addr[x] # NoIP, ~(x = c /\ pc[c] = "undo")
               PROVE  table'[e.key] = addr[x]
    BY <1>0, <1>5 DEF Right
  <2>1. e.key \in Names
    BY OwnKeyFacts
  <2>2. life[x] # "gone"
    BY DEF Stages
  <2>3. \/ e.to # NoIP /\ e.to = ip[x]
        \/ e.to # NoIP /\ e.to = addr[x] /\ c = x
    BY <1>2, <2>2 DEF DueRight
  <2>4. e.to = addr[x]
    BY <2>3 DEF Sticky
  <2> QED
    BY <1>0, <2>1, <2>4
<1>8. ASSUME NEW s \in Containers, NEW x \in Containers, DueOrRight(s, x),
             addr[x] # NoIP, ~(x = c /\ pc[c] = "undo")
      PROVE  DueOrRight(s, x)'
  <2> SUFFICES ASSUME NEW k \in OwnKeys(x), k \notin touched'
               PROVE  Right(x, k)' \/ \E d \in Due(s)' : d.key = k
    BY <1>4 DEF DueOrRight
  <2>0. CASE k = e.key
    BY <1>7, <1>8, <2>0
  <2>1. CASE Right(x, k)
    BY <1>6, <1>8, <2>1
  <2>2. CASE \E d \in Due(s) : d.key = k
    <3>1. PICK d \in Due(s) : d.key = k
      BY <2>2
    <3>2. CASE d \in Due(s)'
      BY <3>1, <3>2
    <3>3. CASE d \notin Due(s)'
      <4>1. d = e
        BY <1>2, <1>3, <3>1, <3>3
      <4> QED
        BY <1>7, <1>8, <3>1, <4>1
    <3> QED
      BY <3>2, <3>3
  <2> QED
    BY <1>0, <1>8, <2>0, <2>1, <2>2 DEF DueOrRight
<1>9. TypeOK'
  <2>1. Empty \in [Names -> Addresses \cup {NoIP}]
    BY DEF Empty
  <2>2. e.key \in Names /\ e.to \in Addresses \cup {NoIP}
    BY <1>2 DEF Pending
  <2>3. ops' \in [Containers -> Seq(Pending)]
    BY <1>0, <1>2
  <2> QED
    BY <1>0, <2>1, <2>2, <2>3
<1>10. Stages' /\ Sticky'
  BY <1>0, <1>1 DEF Stages, Sticky
<1>11. DueRight'
  <2>1. \A s \in Containers : Due(s)' \subseteq Due(s)
    BY <1>2, <1>3
  <2> QED
    BY <1>0, <1>4, <2>1 DEF DueRight
<1>12. Registered'
  <2> SUFFICES ASSUME NEW x \in Containers, pc[x] \in {"register", "ready", "wait"}
               PROVE  DueOrRight(x, x)'
    BY <1>0 DEF Registered
  <2>1. addr[x] # NoIP /\ DueOrRight(x, x)
    BY DEF Stages, Registered
  <2> QED
    BY <1>8, <2>1
<1>13. PreloadedSoFar'
  <2> SUFFICES ASSUME NEW s \in Containers, NEW x \in Containers,
                      pc[s] = "preload", Survivor(x), x \notin todo[s]
               PROVE  DueOrRight(s, x)'
    BY <1>0 DEF PreloadedSoFar, Survivor
  <2>1. addr[x] # NoIP /\ pc[x] = "idle" /\ DueOrRight(s, x)
    BY DEF Stages, Survivor, PreloadedSoFar
  <2> QED
    BY <1>8, <2>1
<1>14. SurvivorsBack'
  <2> SUFFICES ASSUME heard, NEW x \in Containers, Survivor(x)
               PROVE  Resolves(x)'
    BY <1>0 DEF SurvivorsBack, Survivor
  <2>1. addr[x] # NoIP /\ pc[x] = "idle" /\ Resolves(x)
    BY DEF Stages, Survivor, SurvivorsBack
  <2>2. \A k \in OwnKeys(x) \ touched' : k = e.key \/ k \notin touched
    BY <1>0
  <2> QED
    BY <1>4, <1>6, <1>7, <2>1, <2>2 DEF Resolves
<1>15. PairsReleased' /\ ProperAddresses' /\ CutTouched'
  BY <1>0 DEF PairsReleased, ProperAddresses, Proper, CutTouched
<1> QED
  BY <1>9, <1>10, <1>11, <1>12, <1>13, <1>14, <1>15

-----------------------------------------------------------------------------
\* Compose.  An announced name is touched, or its container has that address.
LEMMA AnnounceKeeps ==
    ASSUME IndInv, NEW n \in Names, NEW a \in Addresses, Announce(n, a)
    PROVE  IndInv'
<1> USE NetworkAssumption DEF IndInv, TypeOK, records, work, host
<1>0. /\ UNCHANGED <<life, ip, pc, todo, ops, proc, pid, addr, veth, heard, crashes, cut>>
      /\ mu = Free /\ ~cut /\ Lower[n] \in Names
      /\ mu' = Up /\ copy' = [table EXCEPT ![Lower[n]] = a] /\ table' = Empty
      /\ touched' \in {touched, touched \cup {Lower[n]}}
      /\ \/ Lower[n] \in touched'
         \/ \A x \in Containers : Lower[n] \in KeysOf(x) => StaticOf[x] = a
  BY DEF Announce, CutTouched
<1>1. Content = table /\ Content' = copy'
  BY <1>0 DEF Content
<1>2. \A x \in Containers : OwnKeys(x)' = OwnKeys(x) /\ Due(x)' = Due(x)
  BY <1>0 DEF OwnKeys, KeysOf, Key, Due
<1>3. ASSUME NEW x \in Containers, addr[x] # NoIP, NEW k \in OwnKeys(x), k \notin touched',
             Right(x, k)
      PROVE  Right(x, k)'
  <2>1. k \in Names /\ k \in KeysOf(x)
    BY OwnKeyFacts DEF KeysOf
  <2>2. CASE k # Lower[n]
    BY <1>0, <1>1, <1>3, <2>1, <2>2 DEF Right
  <2>3. CASE k = Lower[n]
    <3>1. StaticOf[x] = a /\ life[x] = "made"
      BY <1>0, <1>3, <2>1, <2>3 DEF Stages
    <3>2. addr[x] = a
      BY <1>3, <3>1 DEF Sticky
    <3> QED
      BY <1>0, <1>1, <2>1, <2>3, <3>2 DEF Right
  <2> QED
    BY <2>2, <2>3
<1>4. TypeOK'
  <2>1. Empty \in [Names -> Addresses \cup {NoIP}]
    BY DEF Empty
  <2> QED
    BY <1>0, <2>1
<1>5. Stages' /\ Sticky'
  BY <1>0 DEF Stages, Sticky
<1>6. DueRight'
  BY <1>0, <1>2 DEF DueRight
<1>7. \A s, x \in Containers : addr[x] # NoIP /\ DueOrRight(s, x) => DueOrRight(s, x)'
  BY <1>0, <1>2, <1>3 DEF DueOrRight
<1>8. Registered' /\ PreloadedSoFar'
  BY <1>0, <1>7 DEF Registered, PreloadedSoFar, Survivor, Stages
<1>9. SurvivorsBack'
  BY <1>0, <1>2, <1>3 DEF SurvivorsBack, Survivor, Resolves, Stages
<1>10. PairsReleased' /\ ProperAddresses' /\ CutTouched'
  BY <1>0 DEF PairsReleased, ProperAddresses, Proper, CutTouched
<1> QED
  BY <1>4, <1>5, <1>6, <1>8, <1>9, <1>10

\* What a removal takes is touched under every name, and with it what was written to
\* the removed file.
LEMMA ComposeKeeps ==
    ASSUME IndInv, Announced \/ RemoveTable
    PROVE  IndInv'
<1> USE NetworkAssumption DEF IndInv, TypeOK, records, work, host, hist
<1>0. UNCHANGED <<life, ip, pc, todo, ops, proc, pid, addr, veth, heard, crashes>>
  BY DEF Announced, RemoveTable
<1>1. /\ touched' = touched \/ touched' = Names
      /\ touched' # Names => Content' = Content
  BY DEF Announced, RemoveTable, CutTouched, Content, Unlock
<1>2. \A x \in Containers : /\ OwnKeys(x)' = OwnKeys(x) /\ Due(x)' = Due(x)
                           /\ OwnKeys(x) \subseteq Names
  BY <1>0, OwnKeyFacts DEF OwnKeys, KeysOf, Key, Due
<1>3. \A x \in Containers : \A k \in OwnKeys(x) \ touched' : k \notin touched /\ Right(x, k)' = Right(x, k)
  BY <1>0, <1>1, <1>2 DEF Right
<1>4. TypeOK'
  <2>1. Empty \in [Names -> Addresses \cup {NoIP}]
    BY DEF Empty
  <2>2. /\ copy' \in [Names -> Addresses \cup {NoIP}] /\ table' \in [Names -> Addresses \cup {NoIP}]
        /\ mu' \in Containers \cup {Free, Up}
    BY <2>1 DEF Announced, RemoveTable, Unlock
  <2>3. cut' \in BOOLEAN /\ touched' \subseteq Names
    BY <1>1 DEF Announced, RemoveTable, Unlock
  <2> QED
    BY <1>0, <2>2, <2>3
<1>5. Stages' /\ Sticky'
  <2>1. \A x \in Containers : mu' = x => mu = x
    BY DEF Announced, RemoveTable, Unlock
  <2> QED
    BY <1>0, <2>1 DEF Stages, Sticky
<1>6. DueRight'
  BY <1>0, <1>2 DEF DueRight
<1>7. Registered' /\ PreloadedSoFar' /\ SurvivorsBack'
  BY <1>0, <1>2, <1>3 DEF Registered, PreloadedSoFar, SurvivorsBack, Survivor, DueOrRight, Resolves
<1>8. PairsReleased' /\ ProperAddresses'
  BY <1>0 DEF PairsReleased, ProperAddresses, Proper
<1>9. CutTouched'
  BY DEF CutTouched, Announced, RemoveTable, Unlock
<1> QED
  BY <1>4, <1>5, <1>6, <1>7, <1>8, <1>9

-----------------------------------------------------------------------------
\* A session that has left its preload disturbs what others have to register or have
\* registered no more, ...
LEMMA OthersKeep ==
    ASSUME IndInv, NEW c \in Containers, UNCHANGED <<mu, copy, table, todo, heard, touched>>,
           \A o \in Containers \ {c} : /\ pc'[o] = pc[o] /\ proc'[o] = proc[o]
                                       /\ addr'[o] = addr[o] /\ ops'[o] = ops[o],
           pc'[c] # "preload", ~Survivor(c)',
           pc'[c] \in {"register", "ready", "wait"} => DueOrRight(c, c)'
    PROVE  Registered' /\ PreloadedSoFar' /\ SurvivorsBack'
<1> USE DEF IndInv
<1>1. Registered'
  BY Frame DEF Registered
<1>2. PreloadedSoFar'
  <2> SUFFICES ASSUME NEW s \in Containers, NEW x \in Containers,
                      pc'[s] = "preload", Survivor(x)', x \notin todo[s]
               PROVE  DueOrRight(s, x)'
    BY DEF PreloadedSoFar
  <2>1. s # c /\ x # c
    OBVIOUS
  <2>2. pc[s] = "preload" /\ Survivor(x)
    BY <2>1 DEF Survivor
  <2>3. DueOrRight(s, x)
    BY <2>2 DEF PreloadedSoFar
  <2> QED
    BY <2>1, <2>3, Frame
<1>3. SurvivorsBack'
  <2> SUFFICES ASSUME heard, NEW x \in Containers, Survivor(x)'
               PROVE  Resolves(x)'
    BY DEF SurvivorsBack
  <2>1. x # c
    OBVIOUS
  <2>2. Resolves(x)
    BY <2>1 DEF Survivor, SurvivorsBack
  <2> QED
    BY <2>1, <2>2, Frame
<1> QED
  BY <1>1, <1>2, <1>3

\* ... and of its own it registers only what is right.
LEMMA OwnDue ==
    ASSUME IndInv, NEW c \in Containers, life' = life,
           \A o \in Containers \ {c} : /\ pc'[o] = pc[o] /\ ip'[o] = ip[o]
                                       /\ addr'[o] = addr[o] /\ ops'[o] = ops[o],
           ip[c] # NoIP => ip'[c] = ip[c],
           \A e \in Due(c)' : /\ e.key \in {c, Key(c)}
                              /\ pc'[c] = "undo" \/ (e.to # NoIP /\ e.to = addr'[c])
    PROVE  DueRight'
<1> USE DEF IndInv
<1>1. \A s \in Containers : OwnKeys(s)' = OwnKeys(s)
  BY DEF OwnKeys, KeysOf, Key
<1> SUFFICES ASSUME NEW s \in Containers, NEW x \in Containers, NEW e \in Due(s)',
                    e.key \in OwnKeys(x), life[x] # "gone"
             PROVE  \/ e.to # NoIP /\ e.to = ip'[x]
                    \/ e.to # NoIP /\ e.to = addr'[x] /\ s = x
                    \/ s = x /\ pc'[x] = "undo"
  BY <1>1 DEF DueRight
<1>2. CASE s = c
  <2>1. x = c
    BY <1>2, OwnKeyFacts
  <2> QED
    BY <1>2, <2>1
<1>3. CASE s # c
  <2>1. e \in Due(s)
    BY <1>3 DEF Due
  <2> QED
    BY <1>3, <2>1 DEF DueRight
<1> QED
  BY <1>2, <1>3

LEMMA SpawnKeeps ==
    ASSUME IndInv, NEW c \in Containers, Spawn(c)
    PROVE  IndInv'
<1> USE NetworkAssumption DEF IndInv, TypeOK, records, names, hist
<1>0. /\ UNCHANGED <<life, ip, todo, ops, mu, copy, table, cut, heard, touched, crashes>>
      /\ pc[c] = "spawn" /\ proc[c] = "none" /\ ops[c] = <<>> /\ life[c] = "made"
      /\ pid[c] = NoPid /\ addr[c] = NoIP
  BY DEF Spawn, Stages
<1>1. CASE /\ pc' = [pc EXCEPT ![c] = "idle"] /\ UNCHANGED <<pid, addr, proc, veth>>
  <2>1. TypeOK'
    BY <1>0, <1>1
  <2>2. Stages' /\ Sticky'
    BY <1>0, <1>1 DEF Stages, Sticky
  <2>3. DueRight'
    BY <1>0, <1>1 DEF DueRight, Due
  <2>4. ~Survivor(c)'
    BY <1>0, <1>1 DEF Survivor
  <2>5. Registered' /\ PreloadedSoFar' /\ SurvivorsBack'
    BY <1>0, <1>1, <2>4, OthersKeep
  <2>6. PairsReleased' /\ ProperAddresses' /\ CutTouched'
    BY <1>0, <1>1 DEF PairsReleased, ProperAddresses, Proper, CutTouched
  <2> QED
    BY <2>1, <2>2, <2>3, <2>5, <2>6
<1>2. CASE ~(pc' = [pc EXCEPT ![c] = "idle"] /\ UNCHANGED <<pid, addr, proc, veth>>)
  <2>1. PICK p \in Pids :
          /\ pid' = [pid EXCEPT ![c] = p]
          /\ addr' = [addr EXCEPT ![c] = IF ip[c] # NoIP THEN ip[c] ELSE Address(p)]
          /\ proc' = [proc EXCEPT ![c] = "held"]
          /\ \/ veth' = [veth EXCEPT ![p] = "host"] /\ pc' = [pc EXCEPT ![c] = "move"]
             \/ pc' = [pc EXCEPT ![c] = "abort"] /\ UNCHANGED veth
    BY <1>2 DEF Spawn, Goto
  <2>2. /\ addr'[c] \in Addresses /\ pc'[c] \in {"move", "abort"}
        /\ ip[c] # NoIP => addr'[c] = ip[c]
        /\ Proper(c, addr'[c])
    BY <2>1, AddressSound DEF ProperAddresses, Proper
  <2>3. TypeOK'
    <3>1. pid' \in [Containers -> Pids \cup {NoPid}] /\ proc' \in [Containers -> {"none", "held", "runs"}]
      BY <2>1
    <3>2. addr' \in [Containers -> Addresses \cup {NoIP}]
      BY <2>1, <2>2
    <3>3. pc' \in [Containers -> {"idle", "preload", "spawn", "move", "abort",
                                  "register", "ready", "wait", "undo"}]
      BY <2>1
    <3>4. veth' \in [Pids -> {"none", "host", "moved"}]
      BY <2>1
    <3> QED
      BY <1>0, <3>1, <3>2, <3>3, <3>4
  <2>4. Stages' /\ Sticky'
    <3>1. Stages'
      BY <1>0, <2>1, <2>2 DEF Stages
    <3>2. Sticky'
      BY <1>0, <2>1, <2>2 DEF Sticky
    <3> QED
      BY <3>1, <3>2
  <2>5. DueRight' /\ Registered' /\ PreloadedSoFar' /\ SurvivorsBack'
    <3>1. Due(c)' = {}
      BY <1>0, NoEntries DEF Due
    <3>2. ~Survivor(c)'
      BY <2>2 DEF Survivor
    <3>3. DueRight'
      BY <1>0, <2>1, <3>1, OwnDue
    <3> QED
      BY <1>0, <2>1, <2>2, <3>2, <3>3, OthersKeep
  <2>6. PairsReleased' /\ CutTouched'
    BY <1>0, <2>1 DEF PairsReleased, CutTouched
  <2>7. ProperAddresses'
    BY <1>0, <2>1, <2>2 DEF ProperAddresses, Proper
  <2> QED
    BY <2>3, <2>4, <2>5, <2>6, <2>7
<1> QED
  BY <1>1, <1>2

LEMMA LinkMoveKeeps ==
    ASSUME IndInv, NEW c \in Containers, LinkMove(c)
    PROVE  IndInv'
<1> USE NetworkAssumption DEF IndInv, TypeOK, records, names, hist
<1>0. /\ UNCHANGED <<life, ip, todo, mu, copy, table, cut, proc, pid, addr, heard, touched, crashes>>
      /\ pc[c] = "move" /\ proc[c] = "held" /\ ops[c] = <<>> /\ life[c] = "made"
      /\ pid[c] \in Pids /\ addr[c] \in Addresses
  BY DEF LinkMove, Stages
<1>1. PICK v \in {"host", "moved"} : veth' = [veth EXCEPT ![pid[c]] = v]
  BY DEF LinkMove
<1>2. /\ ops' \in [Containers -> Seq(Pending)] /\ pc'[c] \in {"register", "abort"}
      /\ pc' = [pc EXCEPT ![c] = pc'[c]]
      /\ \A o \in Containers \ {c} : ops'[o] = ops[o]
      /\ ops'[c] # <<>> => pc'[c] = "register"
      /\ \A e \in Due(c)' : e.key \in {c, Key(c)} /\ e.to = addr[c]
      /\ pc'[c] = "register" => \A k \in {c, Key(c)} : \E e \in Due(c)' : e.key = k
  <2>1. CASE ops' = [ops EXCEPT ![c] = IdThenName(c, addr[c])] /\ Goto(c, "register")
    <3> DEFINE q == IdThenName(c, addr[c])
    <3>1. /\ q \in Seq(Pending)
          /\ Elements(q) = {[key |-> c, to |-> addr[c]], [key |-> Key(c), to |-> addr[c]]}
      BY <1>0, TwoEntries
    <3> HIDE DEF q
    <3>2. ops'[c] = q /\ ops' \in [Containers -> Seq(Pending)]
      BY <2>1, <3>1 DEF q
    <3>3. Due(c)' = {[key |-> c, to |-> addr[c]], [key |-> Key(c), to |-> addr[c]]}
      BY <3>1, <3>2 DEF Due
    <3>4. \A k \in {c, Key(c)} : [key |-> k, to |-> addr[c]] \in Due(c)'
      BY <3>3
    <3>5. \A e \in Due(c)' : e.key \in {c, Key(c)} /\ e.to = addr[c]
      BY <3>3
    <3>6. \A k \in {c, Key(c)} : \E e \in Due(c)' : e.key = k
      BY <3>4
    <3> QED
      BY <2>1, <3>2, <3>5, <3>6 DEF Goto
  <2>2. CASE Goto(c, "abort") /\ UNCHANGED ops
    BY <1>0, <2>2, NoEntries DEF Goto, Due
  <2> QED
    BY <2>1, <2>2 DEF LinkMove
<1>3. TypeOK'
  <2>1. veth' \in [Pids -> {"none", "host", "moved"}]
    BY <1>1
  <2>2. pc' \in [Containers -> {"idle", "preload", "spawn", "move", "abort",
                                "register", "ready", "wait", "undo"}]
    BY <1>2
  <2> QED
    BY <1>0, <1>2, <2>1, <2>2
<1>4. Stages' /\ Sticky'
  BY <1>0, <1>2 DEF Stages, Sticky
<1>5. DueRight'
  <2>1. \A e \in Due(c)' : e.key \in {c, Key(c)} /\ e.to # NoIP /\ e.to = addr'[c]
    BY <1>0, <1>2
  <2>2. \A o \in Containers \ {c} : /\ pc'[o] = pc[o] /\ ip'[o] = ip[o]
                                    /\ addr'[o] = addr[o] /\ ops'[o] = ops[o]
    BY <1>0, <1>2
  <2> QED
    BY <1>0, <2>1, <2>2, OwnDue
<1>6. pc'[c] = "register" => DueOrRight(c, c)'
  <2>1. OwnKeys(c)' \subseteq {c, Key(c)}
    BY DEF OwnKeys, KeysOf, Key
  <2> QED
    BY <1>2, <2>1 DEF DueOrRight
<1>7. Registered' /\ PreloadedSoFar' /\ SurvivorsBack'
  <2>1. ~Survivor(c)'
    BY <1>2 DEF Survivor
  <2> QED
    BY <1>0, <1>2, <1>6, <2>1, OthersKeep
<1>8. PairsReleased' /\ CutTouched'
  BY <1>0, <1>1 DEF PairsReleased, CutTouched
<1>9. ProperAddresses'
  BY <1>0 DEF ProperAddresses, Proper
<1> QED
  BY <1>3, <1>4, <1>5, <1>7, <1>8, <1>9

\* A session or a survivor is over: nothing is left of its process, and of no other.
LEMMA DiesKeeps ==
    ASSUME IndInv, NEW c \in Containers, ops[c] = <<>>, pid[c] # NoPid,
           proc' = [proc EXCEPT ![c] = "none"],
           pid' = [pid EXCEPT ![c] = NoPid],
           addr' = [addr EXCEPT ![c] = NoIP],
           veth' = [veth EXCEPT ![pid[c]] = "none"],
           pc' = [pc EXCEPT ![c] = "idle"],
           UNCHANGED <<life, ip, todo, ops, mu, copy, table, cut, heard, touched, crashes>>
    PROVE  IndInv'
<1> USE NetworkAssumption DEF IndInv, TypeOK
<1>1. TypeOK'
  OBVIOUS
<1>2. Stages' /\ Sticky'
  BY DEF Stages, Sticky
<1>3. DueRight'
  <2>1. Due(c)' = {}
    BY NoEntries DEF Due
  <2> QED
    BY <2>1, OwnDue
<1>4. Registered' /\ PreloadedSoFar' /\ SurvivorsBack'
  <2>1. ~Survivor(c)'
    BY DEF Survivor
  <2> QED
    BY <2>1, OthersKeep
<1>5. PairsReleased' /\ CutTouched'
  BY DEF PairsReleased, CutTouched
<1>6. ProperAddresses'
  BY DEF ProperAddresses, Proper
<1> QED
  BY <1>1, <1>2, <1>3, <1>4, <1>5, <1>6

LEMMA EndKeeps ==
    ASSUME IndInv, NEW c \in Containers, Abort(c) \/ CleanupNetwork(c) \/ AdoptedEnds(c)
    PROVE  IndInv'
<1> USE DEF IndInv, records, names, hist
<1>1. CASE Abort(c)
  <2>1. ops[c] = <<>> /\ pid[c] # NoPid
    BY <1>1 DEF Abort, Stages
  <2> QED
    BY <1>1, <2>1, DiesKeeps DEF Abort, Dies, Goto
<1>2. CASE CleanupNetwork(c)
  <2>1. pid[c] # NoPid
    BY <1>2 DEF CleanupNetwork, Stages
  <2> QED
    BY <1>2, <2>1, DiesKeeps DEF CleanupNetwork, Dies, Goto
<1>3. CASE AdoptedEnds(c)
  <2>1. ops[c] = <<>> /\ pid[c] # NoPid
    BY <1>3 DEF AdoptedEnds, Stages
  <2>2. pc' = [pc EXCEPT ![c] = "idle"]
    BY <1>3 DEF AdoptedEnds, work, TypeOK
  <2> QED
    BY <1>3, <2>1, <2>2, DiesKeeps DEF AdoptedEnds, Dies, work
<1> QED
  BY <1>1, <1>2, <1>3

LEMMA ReadyKeeps ==
    ASSUME IndInv, NEW c \in Containers, SaveAddress(c) \/ Release(c)
    PROVE  IndInv'
<1> USE NetworkAssumption DEF IndInv, TypeOK, names, hist
<1>1. CASE SaveAddress(c)
  <2>0. /\ UNCHANGED <<life, todo, ops, mu, copy, table, cut, proc, pid, addr, veth, heard, touched, crashes>>
        /\ pc[c] = "register" /\ ops[c] = <<>> /\ addr[c] # NoIP
        /\ pc' = [pc EXCEPT ![c] = "ready"]
        /\ ip' = [ip EXCEPT ![c] = addr[c]]
    BY <1>1 DEF SaveAddress, Goto, host, Stages
  <2>1. TypeOK'
    BY <2>0
  <2>2. Stages' /\ Sticky'
    BY <2>0 DEF Stages, Sticky
  <2>3. Due(c)' = {} /\ Due(c) = {}
    BY <2>0, NoEntries DEF Due
  <2>4. DueRight'
    BY <2>0, <2>3, OwnDue DEF Sticky
  <2>5. DueOrRight(c, c)'
    <3>1. DueOrRight(c, c)
      BY <2>0 DEF Registered
    <3> QED
      BY <2>0, <3>1, Frame
  <2>6. Registered' /\ PreloadedSoFar' /\ SurvivorsBack'
    BY <2>0, <2>5, OthersKeep DEF Survivor
  <2>7. PairsReleased' /\ ProperAddresses' /\ CutTouched'
    BY <2>0 DEF PairsReleased, ProperAddresses, Proper, CutTouched
  <2> QED
    BY <2>1, <2>2, <2>4, <2>6, <2>7
<1>2. CASE Release(c)
  <2>0. /\ UNCHANGED <<life, ip, todo, ops, mu, copy, table, cut, pid, addr, veth, heard, touched, crashes>>
        /\ pc[c] = "ready" /\ ops[c] = <<>>
        /\ pc' = [pc EXCEPT ![c] = "wait"]
        /\ proc' = [proc EXCEPT ![c] = "runs"]
    BY <1>2 DEF Release, Goto, records, Stages
  <2>1. TypeOK'
    BY <2>0
  <2>2. Stages' /\ Sticky'
    BY <2>0 DEF Stages, Sticky
  <2>3. DueRight'
    BY <2>0 DEF DueRight, Due
  <2>4. DueOrRight(c, c)'
    <3>1. DueOrRight(c, c)
      BY <2>0 DEF Registered
    <3> QED
      BY <2>0, <3>1, Frame
  <2>5. Registered' /\ PreloadedSoFar' /\ SurvivorsBack'
    BY <2>0, <2>4, OthersKeep DEF Survivor
  <2>6. PairsReleased' /\ ProperAddresses' /\ CutTouched'
    BY <2>0 DEF PairsReleased, ProperAddresses, Proper, CutTouched
  <2> QED
    BY <2>1, <2>2, <2>3, <2>5, <2>6
<1> QED
  BY <1>1, <1>2

LEMMA EndedKeeps ==
    ASSUME IndInv, NEW c \in Containers, Ended(c)
    PROVE  IndInv'
<1> USE NetworkAssumption DEF IndInv, TypeOK, records, names, hist
<1> DEFINE q == NameThenId(c, NoIP)
<1>0. /\ UNCHANGED <<life, ip, todo, mu, copy, table, cut, pid, addr, heard, touched, crashes>>
      /\ pc[c] = "wait" /\ ops[c] = <<>> /\ pid[c] \in Pids
      /\ pc' = [pc EXCEPT ![c] = "undo"]
      /\ proc' = [proc EXCEPT ![c] = "none"]
      /\ veth' = [veth EXCEPT ![pid[c]] = "none"]
      /\ ops' = [ops EXCEPT ![c] = q]
  BY DEF Ended, Goto, Stages
<1>1. /\ q \in Seq(Pending) /\ q # <<>>
      /\ Elements(q) = {[key |-> c, to |-> NoIP], [key |-> Key(c), to |-> NoIP]}
  BY TwoEntries
<1> HIDE DEF q
<1>2. /\ ops' \in [Containers -> Seq(Pending)] /\ ops'[c] # <<>>
      /\ \A e \in Due(c)' : e.key \in {c, Key(c)}
  <2>1. ops'[c] = q /\ ops' \in [Containers -> Seq(Pending)]
    BY <1>0, <1>1
  <2>2. Due(c)' = {[key |-> c, to |-> NoIP], [key |-> Key(c), to |-> NoIP]}
    BY <1>1, <2>1 DEF Due
  <2>3. \A e \in Due(c)' : e.key \in {c, Key(c)}
    BY <2>2
  <2> QED
    BY <1>1, <2>1, <2>3
<1>3. TypeOK'
  BY <1>0, <1>2
<1>4. Stages' /\ Sticky'
  BY <1>0, <1>2 DEF Stages, Sticky
<1>5. DueRight'
  <2>1. \A o \in Containers \ {c} : /\ pc'[o] = pc[o] /\ ip'[o] = ip[o]
                                    /\ addr'[o] = addr[o] /\ ops'[o] = ops[o]
    BY <1>0
  <2>2. pc'[c] = "undo"
    BY <1>0
  <2> QED
    BY <1>0, <1>2, <2>1, <2>2, OwnDue
<1>6. Registered' /\ PreloadedSoFar' /\ SurvivorsBack'
  BY <1>0, OthersKeep DEF Survivor
<1>7. PairsReleased' /\ ProperAddresses' /\ CutTouched'
  BY <1>0 DEF PairsReleased, ProperAddresses, Proper, CutTouched
<1> QED
  BY <1>3, <1>4, <1>5, <1>6, <1>7

LEMMA CrashKeeps ==
    ASSUME IndInv, Crash
    PROVE  IndInv'
<1> USE NetworkAssumption DEF IndInv, TypeOK, records
<1>0. UNCHANGED <<life, ip, table>>
  BY DEF Crash
<1>1. TypeOK'
  <2>1. Empty \in [Names -> Addresses \cup {NoIP}]
    BY DEF Empty
  <2>2. ops' \in [Containers -> Seq(Pending)]
    BY NoEntries DEF Crash
  <2>3. pc' \in [Containers -> {"idle", "preload", "spawn", "move", "abort",
                                "register", "ready", "wait", "undo"}]
    BY DEF Crash
  <2>4. proc' \in [Containers -> {"none", "held", "runs"}]
    BY DEF Crash
  <2>5. pid' \in [Containers -> Pids \cup {NoPid}] /\ addr' \in [Containers -> Addresses \cup {NoIP}]
    BY DEF Crash
  <2>6. veth' \in [Pids -> {"none", "host", "moved"}]
    BY DEF Crash
  <2>7. crashes' \in 0..MaxCrashes
    BY DEF Crash
  <2>8. heard' \in BOOLEAN
    BY DEF Crash
  <2>9. todo' \in [Containers -> SUBSET Containers]
    BY DEF Crash
  <2>10. mu' \in Containers \cup {Free, Up} /\ touched' \subseteq Names /\ cut' \in BOOLEAN /\ copy' \in [Names -> Addresses \cup {NoIP}]
    BY <2>1 DEF Crash, Unlock
  <2> QED
    BY <1>0, <2>2, <2>3, <2>4, <2>5, <2>6, <2>7, <2>8, <2>9, <2>10
<1>2. /\ \A c \in Containers : pc'[c] = "idle" /\ ops'[c] = <<>>
      /\ \A c \in Containers : /\ proc[c] = "runs" => /\ proc'[c] = "runs" /\ pid'[c] = pid[c]
                                                      /\ addr'[c] = addr[c]
                               /\ proc[c] # "runs" => /\ proc'[c] = "none" /\ pid'[c] = NoPid
                                                      /\ addr'[c] = NoIP
      /\ mu' = Free /\ heard' = FALSE /\ cut' = FALSE
  BY DEF Crash, Unlock
<1>3. Stages'
  BY <1>0, <1>2 DEF Stages
<1>4. Sticky'
  BY <1>0, <1>2 DEF Sticky
<1>5. \A c \in Containers : Due(c)' = {}
  BY <1>2, NoEntries DEF Due
<1>6. DueRight' /\ Registered' /\ PreloadedSoFar' /\ SurvivorsBack'
  BY <1>2, <1>5 DEF DueRight, Registered, PreloadedSoFar, SurvivorsBack
<1>7. PairsReleased'
  <2> SUFFICES ASSUME NEW p \in Pids, veth'[p] # "none"
               PROVE  (\E c \in Containers : pid'[c] = p) \/ (crashes' > 0 /\ veth'[p] = "host")
    BY DEF PairsReleased
  <2>1. veth'[p] = veth[p] /\ ~(\E c \in Containers : pid[c] = p /\ proc[c] # "runs" /\ veth[p] = "moved")
    BY DEF Crash
  <2>2. crashes' > 0
    BY DEF Crash
  <2>3. CASE \E c \in Containers : pid[c] = p
    BY <1>2, <2>1, <2>2, <2>3
  <2>4. CASE ~\E c \in Containers : pid[c] = p
    BY <2>1, <2>2, <2>4 DEF PairsReleased
  <2> QED
    BY <2>3, <2>4
<1>8. ProperAddresses' /\ CutTouched'
  BY <1>0, <1>2 DEF ProperAddresses, Proper, CutTouched
<1> QED
  BY <1>1, <1>3, <1>4, <1>6, <1>7, <1>8

LEMMA StutterKeeps == IndInv /\ UNCHANGED vars => IndInv'
<1> SUFFICES ASSUME IndInv, UNCHANGED vars PROVE IndInv'
  OBVIOUS
<1>0. UNCHANGED <<life, ip, pc, todo, ops, mu, copy, table, cut, proc, pid, addr, veth, heard, touched, crashes>>
  BY DEF vars, records, work, names, host, hist
<1>1. TypeOK' /\ Stages' /\ Sticky'
  BY <1>0 DEF IndInv, TypeOK, Stages, Sticky
<1>2. DueRight' /\ Registered' /\ PreloadedSoFar' /\ SurvivorsBack'
  BY <1>0 DEF IndInv, DueRight, Registered, PreloadedSoFar, SurvivorsBack, Survivor, DueOrRight,
              Due, Resolves, Right, Content
<1>3. PairsReleased' /\ ProperAddresses' /\ CutTouched'
  BY <1>0 DEF IndInv, PairsReleased, ProperAddresses, Proper, CutTouched
<1> QED
  BY <1>1, <1>2, <1>3 DEF IndInv

LEMMA StepsKeep == IndInv /\ [Next]_vars => IndInv'
<1> SUFFICES ASSUME IndInv, Next PROVE IndInv'
  BY StutterKeeps
<1>1. ASSUME NEW c \in Containers, Session(c) PROVE IndInv'
  BY <1>1, PreloadKeeps, PreloadedKeeps, OpenTableKeeps, WriteTableKeeps, LostWriteKeeps, SpawnKeeps,
     LinkMoveKeeps, EndKeeps, ReadyKeeps DEF Session
<1>2. ASSUME NEW s \in Services, Announce(s[1], s[2]) PROVE IndInv'
  <2>1. s[1] \in Names /\ s[2] \in Addresses
    BY NetworkAssumption
  <2> QED
    BY <1>2, <2>1, AnnounceKeeps
<1> QED
  BY <1>1, <1>2, RecordKeeps, StartKeeps, EndedKeeps, EndKeeps, CrashKeeps, ComposeKeeps DEF Next

LEMMA Inductive == Spec => []IndInv
BY StartsSound, StepsKeep, PTL DEF Spec

-----------------------------------------------------------------------------
\* The types of the variables are invariant.
THEOREM NetworkTypes == Spec => []TypeOK
<1>1. IndInv => TypeOK
  BY DEF IndInv
<1> QED
  BY <1>1, Inductive, PTL

\* A container that a session runs resolves to its address by the names that are its own
\* and that compose has not touched since (namespaces.go:182-185).
THEOREM RunningIsFound == Spec => []RunningResolves
<1>1. IndInv => RunningResolves
  <2> SUFFICES ASSUME IndInv, NEW c \in Containers, pc[c] = "wait" PROVE Resolves(c)
    BY DEF RunningResolves
  <2>1. ops[c] = <<>> /\ DueOrRight(c, c)
    BY DEF IndInv, Stages, Registered
  <2> QED
    BY <2>1, NoEntries DEF Due, DueOrRight, Resolves
<1> QED
  BY <1>1, Inductive, PTL

\* Once a start has finished its preload, the containers that outlived a daemon resolve
\* again by the names that are their own and that compose has not touched since
\* (manager.go:206-227).
THEOREM SurvivorsAreFound == Spec => []SurvivorsResolve
<1>1. IndInv => SurvivorsResolve
  <2> SUFFICES ASSUME IndInv, heard, NEW c \in Containers, proc[c] = "runs" PROVE Resolves(c)
    BY DEF SurvivorsResolve
  <2>1. CASE pc[c] = "idle"
    BY <2>1 DEF IndInv, SurvivorsBack, Survivor
  <2>2. CASE pc[c] # "idle"
    <3>1. pc[c] = "wait"
      BY <2>2 DEF IndInv, TypeOK, Stages
    <3>2. ops[c] = <<>> /\ DueOrRight(c, c)
      BY <3>1 DEF IndInv, Stages, Registered
    <3> QED
      BY <3>2, NoEntries DEF Due, DueOrRight, Resolves
  <2> QED
    BY <2>1, <2>2
<1> QED
  BY <1>1, Inductive, PTL

\* No failure leaves a veth pair behind (namespaces.go:176).
THEOREM PairsAreReleased == Spec => []PairsReleased
<1>1. IndInv => PairsReleased
  BY DEF IndInv
<1> QED
  BY <1>1, Inductive, PTL

\* The address computed from a pid is not that of a gateway whose fourth octet is 0 or 1
\* (namespaces.go:165-170).
THEOREM GatewayIsFree == Spec => []NotTheGateway
<1>1. IndInv => NotTheGateway
  <2> SUFFICES ASSUME IndInv, Gateway[2] \in {0, 1}, NEW c \in Containers, addr[c] = Gateway
               PROVE  StaticOf[c] = Gateway
    BY DEF NotTheGateway
  <2>1. Proper(c, Gateway) /\ Gateway # NoIP
    BY NetworkAssumption DEF IndInv, ProperAddresses
  <2> QED
    BY <2>1 DEF Proper
<1> QED
  BY <1>1, Inductive, PTL

-----------------------------------------------------------------------------
\* Pids below Octet * Octet give different addresses, unless one ends in an octet
\* that is corrected (namespaces.go:165-170): no octet is cut, and a pid is its two
\* octets.
THEOREM AddressesDiffer ==
    ASSUME NEW p \in Pids, NEW q \in Pids, Address(p) = Address(q),
           p < Octet * Octet, q < Octet * Octet, p % Octet > 1, q % Octet > 1
    PROVE  p = q
<1> USE NetworkAssumption
<1>1. ASSUME NEW r \in Pids, r < Octet * Octet, r % Octet > 1
      PROVE  /\ r = Octet * (r \div Octet) + (r % Octet)
             /\ Address(r) = <<r \div Octet, r % Octet>>
  <2> DEFINE h == r \div Octet
             l == r % Octet
  <2>1. r \in Nat /\ Octet \in Nat /\ Octet > 0 /\ h \in Nat /\ l \in 0..(Octet - 1)
    OBVIOUS
  <2>2. r = Octet * h + l
    BY <2>1
  <2>3. h < Octet
    <3> SUFFICES ASSUME h >= Octet PROVE FALSE
      BY <2>1
    <3>1. Octet * h >= Octet * Octet
      BY <2>1
    <3> QED
      BY <1>1, <2>1, <2>2, <3>1
  <2>4. h % Octet = h
    BY <2>1, <2>3
  <2>5. Fourth(r) = l
    BY <1>1, <2>1 DEF Fourth
  <2>6. Address(r) = <<h % Octet, Fourth(r)>>
    BY DEF Address
  <2> HIDE DEF h, l
  <2>7. Address(r) = <<h, l>>
    BY <2>4, <2>5, <2>6
  <2> QED
    BY <2>2, <2>7 DEF h, l
<1>2. p \div Octet = q \div Octet /\ p % Octet = q % Octet
  BY <1>1
<1>3. p = Octet * (p \div Octet) + (p % Octet) /\ q = Octet * (q \div Octet) + (q % Octet)
  BY <1>1
<1> QED
  BY <1>2, <1>3
================================================================================
