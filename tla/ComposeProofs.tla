----------------------------- MODULE ComposeProofs -----------------------------
(***************************************************************************)
(* Proofs about Compose, for any number of files, networks and services,   *)
(* any order in which the maps are walked, and any number of failures and  *)
(* ends of the daemon.                                                     *)
(***************************************************************************)
EXTENDS Compose, FiniteSetTheorems, TLAPS

\* The networks without a subnet can be counted.
LEMMA AutoCount ==
    ASSUME NEW f \in Files, NEW T
    PROVE  /\ IsFiniteSet(AutoNets(f) \ T) /\ Cardinality(AutoNets(f) \ T) \in Nat
           /\ Cardinality(AutoNets(f) \ T) <= Cardinality(AutoNets(f))
           /\ Cardinality(AutoNets(f) \ T) = Cardinality(AutoNets(f)) => AutoNets(f) \cap T = {}
<1>1. AutoNets(f) \subseteq Nets
  BY ComposeAssumption DEF AutoNets
<1>2. IsFiniteSet(AutoNets(f))
  BY <1>1, ComposeAssumption, FS_Subset
<1>3. AutoNets(f) \ T \in SUBSET AutoNets(f)
  OBVIOUS
<1>4. IsFiniteSet(AutoNets(f) \ T) /\ Cardinality(AutoNets(f) \ T) <= Cardinality(AutoNets(f))
      /\ (Cardinality(AutoNets(f)) = Cardinality(AutoNets(f) \ T) => AutoNets(f) = AutoNets(f) \ T)
  BY <1>2, <1>3, FS_Subset
<1> QED
  BY <1>4, FS_CardinalityType

\* the gateway of a network when T is still to come
Given(f, T, n) ==
    IF Explicit[n] = NoSubnet THEN Base + Cardinality(AutoNets(f) \ T) ELSE Explicit[n]

\* The gateway that comes next, and all of them in the end, whatever the order.
LEMMA PassedFacts ==
    ASSUME NEW f \in Files, NEW T \in SUBSET NetsOf[f]
    PROVE  /\ Passed(f, NetsOf[f]) = {}
           /\ Passed(f, {}) = GatewaysOf(f)
           /\ \A n \in T : /\ Given(f, T, n) \in GatewaysOf(f)
                           /\ Passed(f, T \ {n}) = Passed(f, T) \cup {Given(f, T, n)}
<1> USE ComposeAssumption
<1>1. Passed(f, NetsOf[f]) = {}
  <2>1. AutoNets(f) \ NetsOf[f] = {} /\ (NetsOf[f] \ AutoNets(f)) \ NetsOf[f] = {}
    BY DEF AutoNets
  <2>2. Cardinality({}) = 0
    BY FS_EmptySet
  <2>3. Base..(Base + 0 - 1) = {}
    OBVIOUS
  <2> QED
    BY <2>1, <2>2, <2>3 DEF Passed
<1>2. Passed(f, {}) = GatewaysOf(f)
  <2>1. AutoNets(f) \ {} = AutoNets(f) /\ (NetsOf[f] \ AutoNets(f)) \ {} = NetsOf[f] \ AutoNets(f)
    OBVIOUS
  <2> QED
    BY <2>1 DEF Passed, GatewaysOf, Automatic
<1>3. ASSUME NEW n \in T, Explicit[n] = NoSubnet
      PROVE  /\ Base + Cardinality(AutoNets(f) \ T) \in GatewaysOf(f)
             /\ Passed(f, T \ {n}) = Passed(f, T) \cup {Base + Cardinality(AutoNets(f) \ T)}
  <2> DEFINE k == Cardinality(AutoNets(f) \ T)
  <2>1. n \in AutoNets(f) /\ n \notin AutoNets(f) \ T
    BY <1>3 DEF AutoNets
  <2>2. AutoNets(f) \ (T \ {n}) = (AutoNets(f) \ T) \cup {n}
    BY <2>1
  <2>3. k \in Nat /\ Cardinality(AutoNets(f)) \in Nat /\ k < Cardinality(AutoNets(f))
    <3>1. Cardinality(AutoNets(f)) \in Nat
      <4>1. AutoNets(f) \ {} = AutoNets(f)
        OBVIOUS
      <4> QED
        BY <4>1, AutoCount
    <3>2. k \in Nat /\ k <= Cardinality(AutoNets(f)) /\ k # Cardinality(AutoNets(f))
      BY <2>1, AutoCount
    <3> QED
      BY <3>1, <3>2
  <2>4. Cardinality(AutoNets(f) \ (T \ {n})) = k + 1
    BY <2>1, <2>2, AutoCount, FS_AddElement
  <2>5. (NetsOf[f] \ AutoNets(f)) \ (T \ {n}) = (NetsOf[f] \ AutoNets(f)) \ T
    BY <2>1
  <2> HIDE DEF k
  <2>6. Base..(Base + (k + 1) - 1) = Base..(Base + k - 1) \cup {Base + k}
    BY <2>3
  <2>7. Base + k \in Base..(Base + Cardinality(AutoNets(f)) - 1)
    BY <2>3
  <2>8. Passed(f, T \ {n}) = Passed(f, T) \cup {Base + k}
    BY <2>4, <2>5, <2>6 DEF Passed, k
  <2> QED
    BY <2>7, <2>8 DEF GatewaysOf, Automatic, k
<1>4. ASSUME NEW n \in T, Explicit[n] # NoSubnet
      PROVE  Explicit[n] \in GatewaysOf(f) /\ Passed(f, T \ {n}) = Passed(f, T) \cup {Explicit[n]}
  <2>1. n \in NetsOf[f] \ AutoNets(f)
    BY <1>4 DEF AutoNets
  <2>2. AutoNets(f) \ (T \ {n}) = AutoNets(f) \ T
    BY <2>1
  <2>3. (NetsOf[f] \ AutoNets(f)) \ (T \ {n}) = ((NetsOf[f] \ AutoNets(f)) \ T) \cup {n}
    BY <2>1
  <2>4. Explicit[n] \in GatewaysOf(f)
    BY <2>1 DEF GatewaysOf
  <2>5. \A A : {Explicit[x] : x \in A \cup {n}} = {Explicit[x] : x \in A} \cup {Explicit[n]}
    OBVIOUS
  <2>6. {Explicit[x] : x \in (NetsOf[f] \ AutoNets(f)) \ (T \ {n})}
           = {Explicit[x] : x \in (NetsOf[f] \ AutoNets(f)) \ T} \cup {Explicit[n]}
    BY <2>3, <2>5
  <2>7. Passed(f, T \ {n}) = Passed(f, T) \cup {Explicit[n]}
    BY <2>2, <2>6 DEF Passed
  <2> QED
    BY <2>4, <2>7
<1> QED
  BY <1>1, <1>2, <1>3, <1>4 DEF Given

\* The number that Up and Down compute is the next one.
LEMMA NextGateway ==
    ASSUME IndInv, NEW f \in Files, NEW n \in todo[f]
    PROVE  /\ UpGateway(f, n) \in GatewaysOf(f) /\ DownGateway(f, n) = UpGateway(f, n)
           /\ Passed(f, todo[f] \ {n}) = Passed(f, todo[f]) \cup {UpGateway(f, n)}
<1>1. todo[f] \in SUBSET NetsOf[f]
  BY DEF IndInv, Phase
<1>2. UpGateway(f, n) = Given(f, todo[f], n) /\ DownGateway(f, n) = UpGateway(f, n)
  BY DEF Given, UpGateway, UpNumber, DownGateway, DownNumber
<1> QED
  BY <1>1, <1>2, PassedFacts

\* Files that share nothing do not meet.
LEMMA ApartFacts ==
    ASSUME NEW f \in Files, Apart(f)
    PROVE  /\ \A g \in Files \ {f} : /\ NetsOf[g] \cap NetsOf[f] = {}
                                     /\ GatewaysOf(g) \cap GatewaysOf(f) = {}
                                     /\ ServicesOf[g] \cap ServicesOf[f] = {}
           /\ \A n \in NetsOf[f] : \A x : From(n, x) => x \in GatewaysOf(f)
BY DEF Apart, From

LEMMA Constants ==
    /\ \A f \in Files : NetsOf[f] \subseteq Nets /\ ServicesOf[f] \subseteq Services
                        /\ GatewaysOf(f) \subseteq Gateways /\ GatewaysOf(f) \subseteq Nat
    /\ NoGw \notin Gateways /\ NoNet \notin Nets
    /\ \A f \in Files : GatewaysOf(f)' = GatewaysOf(f) /\ Apart(f)' = Apart(f)
    /\ Gateways' = Gateways
    /\ \A f, T : Passed(f, T)' = Passed(f, T)
    /\ \A n, g : From(n, g)' = From(n, g)
<1>1. \A f \in Files : GatewaysOf(f) \subseteq Nat
  <2> SUFFICES ASSUME NEW f \in Files PROVE GatewaysOf(f) \subseteq Nat
    OBVIOUS
  <2>1. Automatic(f) \subseteq Nat
    <3>1. AutoNets(f) \ {} = AutoNets(f)
      OBVIOUS
    <3>2. Cardinality(AutoNets(f)) \in Nat
      BY <3>1, AutoCount
    <3> QED
      BY <3>2, ComposeAssumption DEF Automatic
  <2>2. \A n \in NetsOf[f] \ AutoNets(f) : Explicit[n] \in Nat
    BY ComposeAssumption DEF AutoNets
  <2> QED
    BY <2>1, <2>2 DEF GatewaysOf
<1>2. \A f \in Files : GatewaysOf(f) \subseteq Gateways
  BY DEF Gateways
<1>3. Gateways \subseteq Nat
  BY <1>1 DEF Gateways
<1>4. NoGw \notin Gateways
  BY <1>3, ComposeAssumption
<1>5. \A f : GatewaysOf(f)' = GatewaysOf(f)
  BY DEF GatewaysOf, Automatic, AutoNets
<1>6. \A f : Apart(f)' = Apart(f)
  BY <1>5 DEF Apart
<1>7. Gateways' = Gateways
  BY <1>5 DEF Gateways
<1>8. \A f, T : Passed(f, T)' = Passed(f, T)
  BY DEF Passed, AutoNets
<1>9. \A n, g : From(n, g)' = From(n, g)
  BY <1>5 DEF From
<1> QED
  BY <1>1, <1>2, <1>4, <1>5, <1>6, <1>7, <1>8, <1>9, ComposeAssumption

LEMMA PassedInside ==
    ASSUME NEW f \in Files, NEW T \in SUBSET NetsOf[f]
    PROVE  Passed(f, T) \subseteq GatewaysOf(f)
<1>1. Cardinality(AutoNets(f)) \in Nat
  <2>1. AutoNets(f) \ {} = AutoNets(f)
    OBVIOUS
  <2> QED
    BY <2>1, AutoCount
<1>2. Base..(Base + Cardinality(AutoNets(f) \ T) - 1) \subseteq Automatic(f)
  <2>1. \A i, k \in Nat : i <= k => Base..(Base + i - 1) \subseteq Base..(Base + k - 1)
    BY ComposeAssumption
  <2>2. Cardinality(AutoNets(f) \ T) \in Nat /\ Cardinality(AutoNets(f) \ T) <= Cardinality(AutoNets(f))
    BY AutoCount
  <2> QED
    BY <1>1, <2>1, <2>2 DEF Automatic
<1> QED
  BY <1>2 DEF Passed, GatewaysOf

\* What does not touch a file leaves it as good as it was.
LEMMA Frame ==
    ASSUME IndInv, NEW f \in Files, Apart(f), Good(f),
           pc'[f] = pc[f], todo'[f] = todo[f], left'[f] = left[f], got'[f] = got[f],
           net'[f] = net[f], up'[f] = up[f],
           \A n \in NetsOf[f] : (n \in links' <=> n \in links) /\ on'[n] = on[n],
           \A g \in GatewaysOf(f) : (g \in dns' <=> g \in dns) /\ (g \in lost' <=> g \in lost),
           \A s \in ServicesOf[f] : svc'[s] = svc[s] /\ at'[s] = at[s] /\ (s \in kept' <=> s \in kept)
    PROVE  Good(f)'
<1>1. todo[f] \in SUBSET NetsOf[f] /\ left[f] \subseteq ServicesOf[f]
  BY DEF IndInv, Phase
<1>2. Passed(f, todo[f]) \subseteq GatewaysOf(f)
  BY <1>1, PassedInside
<1>3. GatewaysOf(f)' = GatewaysOf(f) /\ Passed(f, todo[f])' = Passed(f, todo[f])
  <2>1. \A T : Passed(f, T)' = Passed(f, T)
    BY Constants
  <2> QED
    BY <2>1, Constants
<1>4. \A s \in ServicesOf[f] : at[s] # Nowhere => at[s].net \in NetsOf[f]
  <2> SUFFICES ASSUME NEW s \in ServicesOf[f], at[s] # Nowhere PROVE at[s].net \in NetsOf[f]
    OBVIOUS
  <2>1. s \in Services
    BY Constants
  <2>2. PICK g \in Files : s \in ServicesOf[g] /\ at[s].net \in NetsOf[g]
    BY <2>1 DEF IndInv, Origins
  <2>3. g = f
    BY <2>2, ApartFacts
  <2> QED
    BY <2>2, <2>3
<1>5. \A s \in ServicesOf[f] : Placed(s)' = Placed(s)
  BY <1>4 DEF Placed, Nowhere
<1>6. UpSoFar(f)'
  <2>1. pc[f] = "pid" => got[f][net[f]] \in GatewaysOf(f)
    BY NextGateway DEF IndInv, Phase
  <2> QED
    BY <1>1, <1>2, <1>3, <1>5, <2>1 DEF Good, UpSoFar
<1>7. UpDone(f)'
  BY <1>3, <1>5 DEF Good, UpDone
<1>8. DownSoFar(f)'
  BY <1>2, <1>3 DEF Good, DownSoFar
<1>9. DownDone(f)'
  BY <1>3 DEF Good, DownDone, OfService, OfGateway
<1> QED
  BY <1>6, <1>7, <1>8, <1>9 DEF Good

\* A request of a file touches what is the file's only.
Local(g) ==
    /\ \A f \in Files \ {g} : /\ pc'[f] = pc[f] /\ todo'[f] = todo[f] /\ left'[f] = left[f]
                              /\ got'[f] = got[f] /\ net'[f] = net[f] /\ up'[f] = up[f]
    /\ \A n \in Nets \ NetsOf[g] : (n \in links' <=> n \in links) /\ on'[n] = on[n]
    /\ \A x \in Gateways \ GatewaysOf(g) : (x \in dns' <=> x \in dns) /\ (x \in lost' <=> x \in lost)
    /\ \A s \in Services \ ServicesOf[g] :
          svc'[s] = svc[s] /\ at'[s] = at[s] /\ (s \in kept' <=> s \in kept)

LEMMA PhaseFrame ==
    ASSUME NEW f \in Files, Phase(f),
           pc'[f] = pc[f], todo'[f] = todo[f], left'[f] = left[f], got'[f] = got[f],
           net'[f] = net[f], up'[f] = up[f]
    PROVE  Phase(f)'
<1>1. GatewaysOf(f)' = GatewaysOf(f)
  BY Constants
<1>2. \A n : UpGateway(f, n)' = UpGateway(f, n)
  BY DEF UpGateway, UpNumber, AutoNets
<1> QED
  BY <1>1, <1>2 DEF Phase

LEMMA Conclude ==
    ASSUME IndInv, NEW g \in Files, Local(g), TypeOK', Origins', Phase(g)',
           Apart(g) => Good(g)'
    PROVE  IndInv'
<1> SUFFICES ASSUME NEW f \in Files, f # g
             PROVE  Phase(f)' /\ (Apart(f) => Good(f)')
  <2>1. \A f \in Files : Apart(f)' = Apart(f)
    BY Constants
  <2> QED
    BY <2>1 DEF IndInv
<1>1. Phase(f)'
  BY PhaseFrame DEF IndInv, Local
<1>2. ASSUME Apart(f) PROVE Good(f)'
  <2>1. /\ NetsOf[g] \cap NetsOf[f] = {} /\ GatewaysOf(g) \cap GatewaysOf(f) = {}
        /\ ServicesOf[g] \cap ServicesOf[f] = {}
    BY <1>2, ApartFacts
  <2>2. \A n \in NetsOf[f] : (n \in links' <=> n \in links) /\ on'[n] = on[n]
    BY <2>1, Constants DEF Local
  <2>3. \A x \in GatewaysOf(f) : (x \in dns' <=> x \in dns) /\ (x \in lost' <=> x \in lost)
    BY <2>1, Constants DEF Local
  <2>4. \A s \in ServicesOf[f] : svc'[s] = svc[s] /\ at'[s] = at[s] /\ (s \in kept' <=> s \in kept)
    BY <2>1, Constants DEF Local
  <2>5. Good(f)
    BY <1>2 DEF IndInv
  <2> QED
    BY <1>2, <2>2, <2>3, <2>4, <2>5, Frame DEF Local
<1> QED
  BY <1>1, <1>2

-----------------------------------------------------------------------------
LEMMA StartsSound == Init => IndInv
<1> SUFFICES ASSUME Init PROVE IndInv
  OBVIOUS
<1> USE DEF Init
<1>1. TypeOK
  <2>1. Nowhere \in [net : Nets, gw : Gateways] \cup {Nowhere}
    OBVIOUS
  <2>3. got \in [Files -> [Nets -> Gateways \cup {NoGw}]]
    BY DEF Nothing
  <2> QED
    BY <2>1, <2>3 DEF TypeOK
<1>2. Origins
  BY DEF Origins
<1>3. \A f \in Files : Phase(f)
  BY DEF Phase
<1>4. \A f \in Files : Good(f)
  <2> SUFFICES ASSUME NEW f \in Files PROVE Good(f)
    OBVIOUS
  <2>1. UpSoFar(f) /\ UpDone(f) /\ DownSoFar(f)
    BY DEF UpSoFar, UpDone, DownSoFar
  <2>2. DownDone(f)
    BY Constants DEF DownDone
  <2> QED
    BY <2>1, <2>2 DEF Good
<1> QED
  BY <1>1, <1>2, <1>3, <1>4 DEF IndInv

\* A request begins.
LEMMA BeginKeeps ==
    ASSUME IndInv, NEW f \in Files, Up(f) \/ Down(f)
    PROVE  IndInv'
<1> USE DEF host, boxes, Goto
<1>0. /\ UNCHANGED <<links, on, dns, lost, svc, at, kept, got, net>>
      /\ pc[f] = "idle" /\ up[f] \in {"down", "part", "up"}
      /\ todo' = [todo EXCEPT ![f] = NetsOf[f]]
      /\ left' = [left EXCEPT ![f] = ServicesOf[f]]
      /\ \/ /\ pc' = [pc EXCEPT ![f] = "bridge"]
            /\ up' = [up EXCEPT ![f] = IF @ = "down" THEN "part" ELSE @]
         \/ /\ pc' = [pc EXCEPT ![f] = "stop"]
            /\ up' = [up EXCEPT ![f] = "part"]
  BY DEF Up, Down, Begin, IndInv, TypeOK
<1>1. Local(f)
  BY <1>0 DEF IndInv, TypeOK, Local
<1>2. TypeOK'
  <2>1. Gateways' = Gateways /\ NetsOf[f] \subseteq Nets /\ ServicesOf[f] \subseteq Services
    BY Constants
  <2>2. todo' \in [Files -> SUBSET Nets] /\ left' \in [Files -> SUBSET Services]
    BY <1>0, <2>1 DEF IndInv, TypeOK
  <2>3. pc' \in [Files -> {"idle", "bridge", "dns", "pid", "stop", "link"}]
        /\ up' \in [Files -> {"down", "part", "up"}]
    BY <1>0 DEF IndInv, TypeOK
  <2> QED
    BY <1>0, <2>1, <2>2, <2>3 DEF IndInv, TypeOK
<1>3. Origins'
  <2>1. \A n, x : From(n, x)' = From(n, x)
    BY Constants
  <2>2. \A g \in Files : GatewaysOf(g)' = GatewaysOf(g)
    BY Constants
  <2> QED
    BY <1>0, <2>1, <2>2 DEF IndInv, Origins, Nowhere
<1>4. /\ todo'[f] = NetsOf[f] /\ left'[f] = ServicesOf[f]
      /\ \/ pc'[f] = "bridge" /\ up'[f] = (IF up[f] = "down" THEN "part" ELSE up[f])
         \/ pc'[f] = "stop" /\ up'[f] = "part"
  BY <1>0 DEF IndInv, TypeOK
<1>5. Phase(f)'
  BY <1>0, <1>4 DEF Phase
<1>6. ASSUME Apart(f) PROVE Good(f)'
  <2>1. Passed(f, todo[f])' = {}
    <3>1. \A T : Passed(f, T)' = Passed(f, T)
      BY Constants
    <3>2. Passed(f, NetsOf[f]) = {}
      <4>1. {} \in SUBSET NetsOf[f]
        OBVIOUS
      <4> QED
        BY <4>1, PassedFacts
    <3> QED
      BY <1>4, <3>1, <3>2
  <2>2. UpSoFar(f)'
    BY <1>4, <2>1 DEF UpSoFar
  <2>3. UpDone(f)'
    <3>1. up'[f] = "up" => up[f] = "up"
      BY <1>0, <1>4
    <3>2. UpDone(f)
      BY <1>6 DEF IndInv, Good
    <3>3. GatewaysOf(f)' = GatewaysOf(f)
      BY Constants
    <3> QED
      BY <1>0, <3>1, <3>2, <3>3 DEF UpDone, Placed, Nowhere
  <2>4. DownSoFar(f)'
    BY <1>4, <2>1 DEF DownSoFar
  <2>5. DownDone(f)'
    BY <1>0, <1>4 DEF DownDone
  <2> QED
    BY <2>2, <2>3, <2>4, <2>5 DEF Good
<1> QED
  BY <1>1, <1>2, <1>3, <1>5, <1>6, Conclude

LEMMA OriginsFrame ==
    ASSUME Origins, UNCHANGED <<on, at>>
    PROVE  Origins'
<1>1. \A n, x : From(n, x)' = From(n, x)
  BY Constants
<1>2. \A g \in Files : GatewaysOf(g)' = GatewaysOf(g)
  BY Constants
<1> QED
  BY <1>1, <1>2 DEF Origins, Nowhere

\* What a request that is over leaves of itself.
LEMMA ReturnFacts ==
    ASSUME IndInv, NEW f \in Files, Return(f)
    PROVE  /\ pc' \in [Files -> {"idle", "bridge", "dns", "pid", "stop", "link"}]
           /\ todo' \in [Files -> SUBSET Nets] /\ left' \in [Files -> SUBSET Services]
           /\ got' \in [Files -> [Nets -> Gateways \cup {NoGw}]] /\ net' \in [Files -> Nets \cup {NoNet}]
           /\ \A g \in Files \ {f} : /\ pc'[g] = pc[g] /\ todo'[g] = todo[g] /\ left'[g] = left[g]
                                     /\ got'[g] = got[g] /\ net'[g] = net[g]
           /\ pc'[f] = "idle"
           /\ Phase(f)' /\ UpSoFar(f)' /\ DownSoFar(f)'
<1> USE DEF IndInv, TypeOK, Return, Goto, Nothing
<1>1. pc' \in [Files -> {"idle", "bridge", "dns", "pid", "stop", "link"}]
  OBVIOUS
<1>2. todo' \in [Files -> SUBSET Nets] /\ left' \in [Files -> SUBSET Services]
  OBVIOUS
<1>3. got' \in [Files -> [Nets -> Gateways \cup {NoGw}]] /\ net' \in [Files -> Nets \cup {NoNet}]
  OBVIOUS
<1>4. \A g \in Files \ {f} : /\ pc'[g] = pc[g] /\ todo'[g] = todo[g] /\ left'[g] = left[g]
                             /\ got'[g] = got[g] /\ net'[g] = net[g]
  OBVIOUS
<1>5. pc'[f] = "idle" /\ todo'[f] = {} /\ left'[f] = {}
  OBVIOUS
<1>6. Phase(f)' /\ UpSoFar(f)' /\ DownSoFar(f)'
  BY <1>5 DEF Phase, UpSoFar, DownSoFar
<1> QED
  BY <1>1, <1>2, <1>3, <1>4, <1>5, <1>6

\* A bridge gets the gateway of its network.
LEMMA AddFacts ==
    ASSUME IndInv, NEW f \in Files, NEW n \in todo[f], UNCHANGED <<svc, at>>,
           on' \in {on, AddAddress(n, UpGateway(f, n))}
    PROVE  /\ on' \in [Nets -> SUBSET Gateways] /\ Origins'
           /\ n \in NetsOf[f] /\ n \in Nets
           /\ \A m \in Nets : on[m] \subseteq on'[m] /\ (m # n => on'[m] = on[m])
           /\ \A s \in Services : Placed(s) => Placed(s)'
<1> DEFINE x == UpGateway(f, n)
<1>1. x \in GatewaysOf(f) /\ n \in NetsOf[f] /\ n \in Nets /\ x \in Gateways
  BY NextGateway, Constants DEF IndInv, Phase
<1> HIDE DEF x
<1>2. on' = on \/ on' = [on EXCEPT ![n] = @ \cup {x}]
  BY DEF AddAddress, x
<1>3. on' \in [Nets -> SUBSET Gateways]
  BY <1>1, <1>2 DEF IndInv, TypeOK
<1>4. \A m \in Nets : on[m] \subseteq on'[m] /\ on'[m] \subseteq on[m] \cup {x} /\ (m # n => on'[m] = on[m])
  BY <1>1, <1>2 DEF IndInv, TypeOK
<1>5. Origins'
  <2>1. \A m, y : From(m, y)' = From(m, y)
    BY Constants
  <2>2. \A g \in Files : GatewaysOf(g)' = GatewaysOf(g)
    BY Constants
  <2>3. From(n, x)
    BY <1>1 DEF From
  <2>4. \A m \in Nets : \A y \in on'[m] : From(m, y)
    BY <1>4, <2>3 DEF IndInv, Origins
  <2> QED
    BY <2>1, <2>2, <2>4 DEF IndInv, Origins, Nowhere
<1>6. ASSUME NEW s \in Services, Placed(s) PROVE Placed(s)'
  <2>1. at[s] # Nowhere => at[s].net \in Nets
    BY DEF IndInv, TypeOK
  <2> QED
    BY <1>4, <1>6, <2>1 DEF Placed, Nowhere
<1> QED
  BY <1>1, <1>3, <1>4, <1>5, <1>6

\* After a failure what has succeeded before is still there.
LEMMA FailKeeps ==
    ASSUME IndInv, NEW f \in Files, Return(f), pc[f] = "bridge",
           \/ UNCHANGED <<links, on>>
           \/ \E n \in todo[f] : /\ links' = links \cup {n}
                                 /\ on' \in {on, AddAddress(n, UpGateway(f, n))},
           UNCHANGED <<dns, lost, svc, at, kept, up>>
    PROVE  IndInv'
<1>1. todo[f] \subseteq NetsOf[f] /\ NetsOf[f] \subseteq Nets
  BY Constants DEF IndInv, Phase
<1>2. /\ on' \in [Nets -> SUBSET Gateways] /\ Origins'
      /\ \A m \in Nets : on[m] \subseteq on'[m] /\ (m \notin todo[f] => on'[m] = on[m])
      /\ \A s \in Services : Placed(s) => Placed(s)'
  <2>1. CASE UNCHANGED on
    <3>1. Origins'
      BY <2>1, OriginsFrame DEF IndInv
    <3>2. \A s \in Services : Placed(s)' = Placed(s)
      BY <2>1 DEF Placed, Nowhere
    <3> QED
      BY <2>1, <3>1, <3>2 DEF IndInv, TypeOK
  <2>2. CASE \E n \in todo[f] : on' \in {on, AddAddress(n, UpGateway(f, n))}
    BY <2>2, AddFacts
  <2> QED
    BY <2>1, <2>2
<1>3. /\ links \subseteq links' /\ links' \subseteq Nets
      /\ \A m \in Nets \ todo[f] : m \in links' <=> m \in links
  BY <1>1 DEF IndInv, TypeOK
<1>4. Local(f)
  BY <1>1, <1>2, <1>3, ReturnFacts DEF Local
<1>5. TypeOK'
  <2>1. Gateways' = Gateways
    BY Constants
  <2> QED
    BY <1>2, <1>3, <2>1, ReturnFacts DEF IndInv, TypeOK, Nowhere
<1>6. ASSUME Apart(f) PROVE Good(f)'
  <2>1. UpDone(f)
    BY <1>6 DEF IndInv, Good
  <2>2. up[f] # "down"
    BY DEF IndInv, Phase
  <2>3. GatewaysOf(f)' = GatewaysOf(f) /\ ServicesOf[f] \subseteq Services
    BY Constants
  <2>4. UpDone(f)'
    <3> SUFFICES ASSUME up[f] = "up"
                 PROVE  /\ \A n \in NetsOf[f] : n \in links' /\ on'[n] # {}
                        /\ GatewaysOf(f) \subseteq dns \cup lost
                        /\ \A s \in ServicesOf[f] : Placed(s)'
      BY <2>3 DEF UpDone
    <3>1. \A n \in NetsOf[f] : n \in links' /\ on'[n] # {}
      BY <1>1, <1>2, <1>3, <2>1 DEF UpDone
    <3> QED
      BY <1>2, <2>1, <2>3, <3>1 DEF UpDone
  <2>5. DownDone(f)'
    BY <2>2 DEF DownDone
  <2> QED
    BY <2>4, <2>5, ReturnFacts DEF Good
<1> QED
  BY <1>2, <1>4, <1>5, <1>6, ReturnFacts, Conclude

\* Up makes a bridge.
LEMMA BridgeKeeps ==
    ASSUME IndInv, NEW f \in Files, NEW n \in Nets, SetupNamedBridge(f, n)
    PROVE  IndInv'
<1>0. pc[f] = "bridge" /\ n \in todo[f] /\ UNCHANGED <<dns, lost, svc, at, kept, up>>
  BY DEF SetupNamedBridge, boxes
<1>1. CASE Return(f)
  <2>1. \/ UNCHANGED <<links, on>>
        \/ /\ links' = links \cup {n}
           /\ on' \in {on, AddAddress(n, UpGateway(f, n))}
    BY DEF SetupNamedBridge
  <2> QED
    BY <1>0, <1>1, <2>1, FailKeeps
<1>2. CASE ~Return(f)
  <2> DEFINE x == UpGateway(f, n)
  <2>0. /\ links' = links \cup {n}
        /\ on' = [on EXCEPT ![n] = @ \cup {x}]
        /\ on' = AddAddress(n, UpGateway(f, n))
        /\ got' = [got EXCEPT ![f][n] = x]
        /\ net' = [net EXCEPT ![f] = n]
        /\ pc' = [pc EXCEPT ![f] = "dns"]
        /\ UNCHANGED <<todo, left>>
    BY <1>2 DEF SetupNamedBridge, Goto, AddAddress
  <2>a. /\ on' \in [Nets -> SUBSET Gateways] /\ Origins'
        /\ \A m \in Nets : on[m] \subseteq on'[m] /\ (m # n => on'[m] = on[m])
        /\ \A s \in Services : Placed(s) => Placed(s)'
    BY <1>0, <2>0, AddFacts
  <2>1. x \in GatewaysOf(f) /\ n \in NetsOf[f] /\ x \in Gateways
    BY <1>0, NextGateway, Constants DEF IndInv, Phase
  <2>x. x' = x
    BY <2>0 DEF UpGateway, UpNumber, AutoNets
  <2> HIDE DEF x
  <2>2. Local(f)
    BY <1>0, <2>0, <2>a, <2>1 DEF IndInv, TypeOK, Local
  <2>3. TypeOK'
    <3>1. Gateways' = Gateways
      BY Constants
    <3>2. links' \subseteq Nets
      BY <2>0, <2>1 DEF IndInv, TypeOK
    <3>3. got' \in [Files -> [Nets -> Gateways \cup {NoGw}]]
      BY <2>0, <2>1 DEF IndInv, TypeOK
    <3>4. net' \in [Files -> Nets \cup {NoNet}] /\ pc' \in [Files -> {"idle", "bridge", "dns", "pid", "stop", "link"}]
      BY <2>0 DEF IndInv, TypeOK
    <3> QED
      BY <1>0, <2>0, <2>a, <3>1, <3>2, <3>3, <3>4 DEF IndInv, TypeOK, Nowhere
  <2>5. /\ pc'[f] = "dns" /\ net'[f] = n /\ got'[f][n] = x
        /\ \A m \in Nets \ {n} : got'[f][m] = got[f][m] /\ on'[m] = on[m]
        /\ on'[n] = on[n] \cup {x}
    BY <2>0 DEF IndInv, TypeOK
  <2>6. Phase(f)'
    <3>1. GatewaysOf(f)' = GatewaysOf(f) /\ NetsOf[f] \subseteq Nets
      BY Constants
    <3>2. Phase(f)
      BY DEF IndInv
    <3>3. UpGateway(f, n)' = x
      BY <2>x DEF x
    <3>4. UpGateway(f, net[f])' = x
      BY <2>0, <2>5, <3>3 DEF UpGateway, UpNumber, AutoNets
    <3> QED
      BY <1>0, <2>0, <2>1, <2>5, <3>1, <3>2, <3>4 DEF Phase
  <2>7. ASSUME Apart(f) PROVE Good(f)'
    <3>1. Good(f)
      BY <2>7 DEF IndInv
    <3>2. GatewaysOf(f)' = GatewaysOf(f) /\ NetsOf[f] \subseteq Nets /\ ServicesOf[f] \subseteq Services
      BY Constants
    <3>3. \A T : Passed(f, T)' = Passed(f, T)
      BY Constants
    <3>5. UpSoFar(f)'
      BY <1>0, <2>0, <2>a, <2>5, <3>1, <3>2, <3>3 DEF Good, UpSoFar
    <3>6. UpDone(f)'
      BY <1>0, <2>0, <2>a, <2>5, <3>1, <3>2 DEF Good, UpDone
    <3>7. DownSoFar(f)'
      BY <2>5 DEF DownSoFar
    <3>8. up[f] # "down"
      BY <1>0 DEF IndInv, Phase
    <3>9. DownDone(f)'
      BY <1>0, <3>8 DEF DownDone
    <3> QED
      BY <3>5, <3>6, <3>7, <3>9 DEF Good
  <2> QED
    BY <2>2, <2>3, <2>a, <2>6, <2>7, Conclude
<1> QED
  BY <1>1, <1>2

\* A launch only adds a server.
LEMMA LaunchFacts ==
    ASSUME IndInv, NEW g \in Gateways,
           Serves(g) \/ NotStarted(g) \/ Spawn(g) \/ (dns' = dns \cup {g} /\ lost' = lost \ {g})
    PROVE  /\ dns' \subseteq Gateways /\ lost' \subseteq Gateways
           /\ g \in dns' \cup lost' /\ dns \cup lost \subseteq dns' \cup lost'
           /\ \A x : x # g => (x \in dns' <=> x \in dns) /\ (x \in lost' <=> x \in lost)
BY DEF IndInv, TypeOK, Serves, NotStarted, Spawn

\* Up starts the server of the bridge it made, and goes on.
LEMMA LaunchKeeps ==
    ASSUME IndInv, NEW f \in Files, StartEmbeddedDNS(f) \/ WritePid(f)
    PROVE  IndInv'
<1> PICK n : n = net[f]
  OBVIOUS
<1> PICK g : g = got[f][n]
  OBVIOUS
<1>0. /\ UNCHANGED <<links, on, svc, at, kept, left, got, up>> /\ pc[f] \in {"dns", "pid"}
      /\ \/ /\ Spawn(g) /\ pc' = [pc EXCEPT ![f] = "pid"] /\ UNCHANGED <<todo, net>>
         \/ /\ \/ Serves(g) \/ NotStarted(g)
               \/ pc[f] = "pid" /\ UNCHANGED dns /\ lost' \in {lost, lost \ {g}}
            /\ todo' = [todo EXCEPT ![f] = @ \ {n}]
            /\ net' = [net EXCEPT ![f] = NoNet]
            /\ pc' = [pc EXCEPT ![f] = "bridge"]
  BY DEF StartEmbeddedDNS, WritePid, NextNetwork, boxes, Goto
<1>1. /\ n \in todo[f] /\ n \in NetsOf[f] /\ n \in Nets /\ g = UpGateway(f, n)
      /\ g \in GatewaysOf(f) /\ g \in Gateways
      /\ Passed(f, todo[f] \ {n}) = Passed(f, todo[f]) \cup {g}
  <2>1. n \in todo[f] /\ n \in NetsOf[f] /\ g = UpGateway(f, n)
    BY <1>0 DEF IndInv, Phase
  <2> QED
    BY <2>1, NextGateway, Constants
<1>2. /\ dns' \subseteq Gateways /\ lost' \subseteq Gateways
      /\ \A x : x # g => (x \in dns' <=> x \in dns) /\ (x \in lost' <=> x \in lost)
  BY <1>0, <1>1 DEF IndInv, TypeOK, Serves, NotStarted, Spawn
<1>3. \/ /\ pc'[f] = "pid" /\ todo'[f] = todo[f] /\ net'[f] = n /\ g \in dns'
      \/ pc'[f] = "bridge" /\ todo'[f] = todo[f] \ {n}
  BY <1>0 DEF IndInv, TypeOK, Spawn
<1>4. Local(f)
  BY <1>0, <1>1, <1>2 DEF IndInv, TypeOK, Local
<1>5. TypeOK'
  <2>1. Gateways' = Gateways
    BY Constants
  <2>2. todo' \in [Files -> SUBSET Nets]
    <3>1. todo' = todo \/ todo' = [todo EXCEPT ![f] = @ \ {n}]
      BY <1>0
    <3> QED
      BY <3>1 DEF IndInv, TypeOK
  <2>4. net' \in [Files -> Nets \cup {NoNet}]
    BY <1>0 DEF IndInv, TypeOK
  <2>3. pc' \in [Files -> {"idle", "bridge", "dns", "pid", "stop", "link"}]
    BY <1>0 DEF IndInv, TypeOK
  <2> QED
    BY <1>0, <1>2, <2>1, <2>2, <2>3, <2>4 DEF IndInv, TypeOK, Nowhere
<1>6. Origins'
  BY <1>0, OriginsFrame DEF IndInv
<1>7. Phase(f)'
  <2>1. GatewaysOf(f)' = GatewaysOf(f)
    BY Constants
  <2>2. Phase(f)
    BY DEF IndInv
  <2>3. CASE pc'[f] = "pid" /\ todo'[f] = todo[f] /\ net'[f] = n
    <3>1. UpGateway(f, net[f])' = g
      BY <1>1, <2>3 DEF UpGateway, UpNumber, AutoNets
    <3> QED
      BY <1>0, <1>1, <2>1, <2>2, <2>3, <3>1 DEF Phase
  <2>4. CASE pc'[f] = "bridge" /\ todo'[f] = todo[f] \ {n}
    BY <1>0, <1>1, <2>1, <2>2, <2>4 DEF Phase
  <2> QED
    BY <1>3, <2>3, <2>4
<1>8. ASSUME Apart(f) PROVE Good(f)'
  <2>1. Good(f)
    BY <1>8 DEF IndInv
  <2>2. GatewaysOf(f)' = GatewaysOf(f)
    BY Constants
  <2>3. \A T : Passed(f, T)' = Passed(f, T)
    BY Constants
  <2>4. /\ dns \cup lost \subseteq dns' \cup lost'
        /\ pc'[f] = "bridge" => g \in dns' \cup lost'
    <3>1. pc[f] = "pid" => g \in dns
      BY <2>1 DEF Good, UpSoFar
    <3> QED
      BY <1>0, <3>1 DEF Serves, NotStarted, Spawn, IndInv, TypeOK
  <2>5. \A s \in ServicesOf[f] : Placed(s)' = Placed(s)
    BY <1>0 DEF Placed, Nowhere
  <2>6. Passed(f, todo[f])' \subseteq dns' \cup lost'
    <3>1. Passed(f, todo[f]) \subseteq dns' \cup lost'
      BY <1>0, <2>1, <2>4 DEF Good, UpSoFar
    <3>2. CASE todo'[f] = todo[f]
      <4>1. Passed(f, todo[f])' = Passed(f, todo[f])
        BY <2>3, <3>2
      <4> QED
        BY <3>1, <4>1
    <3>3. CASE pc'[f] = "bridge" /\ todo'[f] = todo[f] \ {n}
      <4>1. Passed(f, todo[f])' = Passed(f, todo[f] \ {n})
        BY <2>3, <3>3
      <4> QED
        BY <1>1, <2>4, <3>1, <3>3, <4>1
    <3> QED
      BY <1>3, <3>2, <3>3
  <2>7. UpSoFar(f)'
    <3>1. \A m \in NetsOf[f] : m \notin todo'[f] \/ (pc'[f] # "bridge" /\ m = net'[f]) =>
             m \in links' /\ got'[f][m] \in on'[m]
      BY <1>0, <1>1, <1>3, <2>1 DEF Good, UpSoFar
    <3>2. pc'[f] = "pid" => got'[f][net'[f]] \in dns'
      BY <1>0, <1>3
    <3>3. \A s \in ServicesOf[f] \ left'[f] : Placed(s)'
      BY <1>0, <2>1, <2>5 DEF Good, UpSoFar
    <3> QED
      BY <2>6, <3>1, <3>2, <3>3 DEF UpSoFar
  <2>8. UpDone(f)'
    BY <1>0, <2>1, <2>2, <2>4, <2>5 DEF Good, UpDone
  <2>9. DownSoFar(f)'
    BY <1>3 DEF DownSoFar
  <2>10. up[f] # "down"
    BY <1>0 DEF IndInv, Phase
  <2>11. DownDone(f)'
    BY <1>0, <2>10 DEF DownDone
  <2> QED
    BY <2>7, <2>8, <2>9, <2>11 DEF Good
<1> QED
  BY <1>4, <1>5, <1>6, <1>7, <1>8, Conclude

\* Up places a service on a network it has set up, or fails.
LEMMA CreateKeeps ==
    ASSUME IndInv, NEW f \in Files, NEW s \in Services, CreateService(f, s)
    PROVE  IndInv'
<1>0. /\ pc[f] = "bridge" /\ todo[f] = {} /\ s \in left[f] /\ s \in ServicesOf[f]
      /\ UNCHANGED <<links, on, dns, lost, kept, up>>
  BY DEF CreateService, host, IndInv, Phase
<1>1. CASE Return(f) /\ UNCHANGED <<svc, at>>
  BY <1>0, <1>1, FailKeeps
<1>2. CASE ~(Return(f) /\ UNCHANGED <<svc, at>>)
  <2>0. /\ svc' = [svc EXCEPT ![s] = "made"] /\ left' = [left EXCEPT ![f] = @ \ {s}]
        /\ UNCHANGED <<pc, todo, got, net>>
    BY <1>2 DEF CreateService
  <2>1. PICK j \in Joined(f, s) : at' = [at EXCEPT ![s] = j]
    BY <1>2 DEF CreateService
  <2>2. j # Nowhere => /\ j.net \in NetsOf[f] /\ j.net \in Nets
                       /\ j.gw = got[f][j.net] /\ j.gw \in GatewaysOf(f) /\ j.gw \in Gateways
                       /\ j = [net |-> j.net, gw |-> j.gw]
    <3> SUFFICES ASSUME j # Nowhere
                 PROVE  /\ j.net \in NetsOf[f] /\ j.gw = got[f][j.net]
                        /\ j = [net |-> j.net, gw |-> j.gw]
      <4>1. \A n \in NetsOf[f] : got[f][n] \in GatewaysOf(f)
        BY <1>0 DEF IndInv, Phase
      <4> QED
        BY <4>1, Constants
    <3>1. JoinOf[s] # {}
      BY <2>1 DEF Joined
    <3>2. PICK n \in JoinOf[s] : j = IF n \in NetsOf[f] THEN [net |-> n, gw |-> got[f][n]] ELSE Nowhere
      BY <2>1, <3>1 DEF Joined
    <3> QED
      BY <3>2
  <2>3. Local(f)
    BY <1>0, <2>0, <2>1 DEF IndInv, TypeOK, Local
  <2>4. TypeOK'
    <3>1. Gateways' = Gateways
      BY Constants
    <3>2. at' \in [Services -> [net : Nets, gw : Gateways] \cup {Nowhere}]
      BY <2>1, <2>2 DEF IndInv, TypeOK
    <3>3. svc' \in [Services -> {"none", "made", "runs"}] /\ left' \in [Files -> SUBSET Services]
      BY <2>0 DEF IndInv, TypeOK
    <3> QED
      BY <1>0, <2>0, <3>1, <3>2, <3>3 DEF IndInv, TypeOK, Nowhere
  <2>5. at'[s] = j /\ svc'[s] = "made" /\ left'[f] = left[f] \ {s}
        /\ \A t \in Services \ {s} : at'[t] = at[t] /\ svc'[t] = svc[t]
    BY <2>0, <2>1 DEF IndInv, TypeOK
  <2>6. Origins'
    <3>1. \A n, x : From(n, x)' = From(n, x)
      BY Constants
    <3>2. \A g \in Files : GatewaysOf(g)' = GatewaysOf(g)
      BY Constants
    <3> SUFFICES ASSUME NEW t \in Services, at'[t] # Nowhere
                 PROVE  \E g \in Files : /\ t \in ServicesOf[g] /\ at'[t].net \in NetsOf[g]
                                         /\ at'[t].gw \in GatewaysOf(g)
      BY <1>0, <3>1, <3>2 DEF IndInv, Origins, Nowhere
    <3>3. CASE t = s
      BY <1>0, <2>2, <2>5, <3>3
    <3>4. CASE t # s
      BY <2>5, <3>4 DEF IndInv, Origins
    <3> QED
      BY <3>3, <3>4
  <2>7. Phase(f)'
    <3>1. GatewaysOf(f)' = GatewaysOf(f)
      BY Constants
    <3>2. Phase(f)
      BY DEF IndInv
    <3> QED
      BY <1>0, <2>0, <2>5, <3>1, <3>2 DEF Phase
  <2>8. ASSUME Apart(f) PROVE Good(f)'
    <3>1. Good(f)
      BY <2>8 DEF IndInv
    <3>2. GatewaysOf(f)' = GatewaysOf(f) /\ ServicesOf[f] \subseteq Services
      BY Constants
    <3>3. \A T : Passed(f, T)' = Passed(f, T)
      BY Constants
    <3>4. Placed(s)'
      <4>1. j # Nowhere => j.gw \in on[j.net]
        BY <1>0, <2>2, <3>1 DEF Good, UpSoFar
      <4> QED
        BY <1>0, <2>5, <4>1 DEF Placed, Nowhere
    <3>5. \A t \in ServicesOf[f] : Placed(t) => Placed(t)'
      BY <1>0, <2>5, <3>2, <3>4 DEF Placed, Nowhere
    <3>6. UpSoFar(f)'
      <4>1. \A t \in ServicesOf[f] \ left'[f] : Placed(t)'
        BY <1>0, <2>5, <3>1, <3>4, <3>5 DEF Good, UpSoFar
      <4>2. Passed(f, todo[f])' = Passed(f, todo[f])
        BY <2>0, <3>3
      <4> QED
        BY <1>0, <2>0, <3>1, <4>1, <4>2 DEF Good, UpSoFar
    <3>7. UpDone(f)'
      BY <1>0, <3>1, <3>2, <3>5 DEF Good, UpDone
    <3>8. DownSoFar(f)'
      BY <1>0, <2>0 DEF DownSoFar
    <3>9. up[f] # "down"
      BY <1>0 DEF IndInv, Phase
    <3>10. DownDone(f)'
      BY <1>0, <3>9 DEF DownDone
    <3> QED
      BY <3>6, <3>7, <3>8, <3>10 DEF Good
  <2> QED
    BY <2>3, <2>4, <2>6, <2>7, <2>8, Conclude
<1> QED
  BY <1>1, <1>2

\* Up and Down end.
LEMMA OverKeeps ==
    ASSUME IndInv, NEW f \in Files, IsUp(f) \/ IsDown(f)
    PROVE  IndInv'
<1>0. /\ Return(f) /\ todo[f] = {} /\ left[f] = {}
      /\ UNCHANGED <<links, on, dns, lost, svc, at, kept>>
      /\ \/ pc[f] = "bridge" /\ up' = [up EXCEPT ![f] = "up"]
         \/ pc[f] = "stop" /\ up' = [up EXCEPT ![f] = "down"]
  BY DEF IsUp, IsDown, host, boxes
<1>1. Local(f)
  <2>1. \A g \in Files \ {f} : up'[g] = up[g]
    BY <1>0 DEF IndInv, TypeOK
  <2> QED
    BY <1>0, <2>1, ReturnFacts DEF Local
<1>2. TypeOK'
  <2>1. Gateways' = Gateways
    BY Constants
  <2>2. up' \in [Files -> {"down", "part", "up"}]
    BY <1>0 DEF IndInv, TypeOK
  <2> QED
    BY <1>0, <2>1, <2>2, ReturnFacts DEF IndInv, TypeOK
<1>3. Origins'
  BY <1>0, OriginsFrame DEF IndInv
<1>4. ASSUME Apart(f) PROVE Good(f)'
  <2>1. Good(f)
    BY <1>4 DEF IndInv
  <2>2. GatewaysOf(f)' = GatewaysOf(f)
    BY Constants
  <2>3. Passed(f, todo[f]) = GatewaysOf(f)
    <3>1. {} \in SUBSET NetsOf[f]
      OBVIOUS
    <3> QED
      BY <1>0, <3>1, PassedFacts
  <2>4. CASE pc[f] = "bridge" /\ up' = [up EXCEPT ![f] = "up"]
    <3>1. up'[f] = "up"
      BY <2>4 DEF IndInv, TypeOK
    <3>2. UpDone(f)'
      BY <1>0, <2>1, <2>2, <2>3, <2>4 DEF Good, UpSoFar, UpDone, Placed, Nowhere
    <3>3. DownDone(f)'
      BY <3>1 DEF DownDone
    <3> QED
      BY <1>0, <3>2, <3>3, ReturnFacts DEF Good
  <2>5. CASE pc[f] = "stop" /\ up' = [up EXCEPT ![f] = "down"]
    <3>1. up'[f] = "down"
      BY <2>5 DEF IndInv, TypeOK
    <3>2. UpDone(f)'
      BY <3>1 DEF UpDone
    <3>3. DownDone(f)'
      <4>1. /\ \A s \in ServicesOf[f] : svc[s] = "none" \/ s \in kept
            /\ \A n \in NetsOf[f] : n \notin links
            /\ \A g \in GatewaysOf(f) : g \in dns => g \in lost
        BY <1>0, <2>1, <2>3, <2>5 DEF Good, DownSoFar
      <4> QED
        BY <1>0, <2>2, <4>1 DEF DownDone
    <3> QED
      BY <1>0, <3>2, <3>3, ReturnFacts DEF Good
  <2> QED
    BY <1>0, <2>4, <2>5
<1> QED
  BY <1>0, <1>1, <1>2, <1>3, <1>4, ReturnFacts, Conclude

\* Down stops and deletes the services.
LEMMA RemoveKeeps ==
    ASSUME IndInv, NEW f \in Files, NEW s \in Services, StopService(f, s) \/ DeleteService(f, s)
    PROVE  IndInv'
<1>0. /\ UNCHANGED <<links, on, dns, lost, pc, todo, got, net, up>>
      /\ pc[f] = "stop" /\ s \in left[f] /\ s \in ServicesOf[f]
      /\ \/ svc' = [svc EXCEPT ![s] = "made"] /\ UNCHANGED <<at, kept, left>>
         \/ /\ svc' = [svc EXCEPT ![s] = "none"] /\ at' = [at EXCEPT ![s] = Nowhere]
            /\ left' = [left EXCEPT ![f] = @ \ {s}] /\ kept' = kept \ {s}
         \/ /\ UNCHANGED <<svc, at>>
            /\ left' = [left EXCEPT ![f] = @ \ {s}] /\ kept' = kept \cup {s}
  BY DEF StopService, DeleteService, host, req, IndInv, Phase
<1>1. /\ at'[s] \in {at[s], Nowhere}
      /\ \A t \in Services \ {s} : at'[t] = at[t] /\ svc'[t] = svc[t]
      /\ left'[f] \subseteq left[f]
      /\ \A t \in left[f] : t \in left'[f] \/ (t = s /\ (svc'[s] = "none" \/ s \in kept'))
      /\ \A t \in Services \ {s} : t \in kept' <=> t \in kept
      /\ s \in left'[f] \/ s \notin ServicesOf[f] \ left[f]
      /\ \A g \in Files \ {f} : left'[g] = left[g]
      /\ at' \in [Services -> [net : Nets, gw : Gateways] \cup {Nowhere}]
      /\ svc' \in [Services -> {"none", "made", "runs"}] /\ left' \in [Files -> SUBSET Services]
      /\ kept' \subseteq Services
  <2>1. CASE svc' = [svc EXCEPT ![s] = "made"] /\ UNCHANGED <<at, kept, left>>
    BY <1>0, <2>1 DEF IndInv, TypeOK
  <2>2. CASE /\ svc' = [svc EXCEPT ![s] = "none"] /\ at' = [at EXCEPT ![s] = Nowhere]
             /\ left' = [left EXCEPT ![f] = @ \ {s}] /\ kept' = kept \ {s}
    <3>1. at' \in [Services -> [net : Nets, gw : Gateways] \cup {Nowhere}]
      BY <2>2 DEF IndInv, TypeOK
    <3>2. left' \in [Files -> SUBSET Services] /\ svc' \in [Services -> {"none", "made", "runs"}]
      BY <2>2 DEF IndInv, TypeOK
    <3>3. /\ left'[f] = left[f] \ {s} /\ \A g \in Files \ {f} : left'[g] = left[g]
          /\ at'[s] = Nowhere /\ svc'[s] = "none"
          /\ \A t \in Services \ {s} : at'[t] = at[t] /\ svc'[t] = svc[t]
      BY <2>2 DEF IndInv, TypeOK
    <3>4. kept' \subseteq Services
      BY <2>2 DEF IndInv, TypeOK
    <3> QED
      BY <1>0, <2>2, <3>1, <3>2, <3>3, <3>4
  <2>3. CASE /\ UNCHANGED <<svc, at>>
             /\ left' = [left EXCEPT ![f] = @ \ {s}] /\ kept' = kept \cup {s}
    BY <1>0, <2>3 DEF IndInv, TypeOK
  <2> QED
    BY <1>0, <2>1, <2>2, <2>3
<1>2. Local(f)
  BY <1>0, <1>1 DEF Local
<1>3. TypeOK'
  <2>1. Gateways' = Gateways
    BY Constants
  <2> QED
    BY <1>0, <1>1, <2>1 DEF IndInv, TypeOK, Nowhere
<1>4. Origins'
  <2>1. \A n, x : From(n, x)' = From(n, x)
    BY Constants
  <2>2. \A g \in Files : GatewaysOf(g)' = GatewaysOf(g)
    BY Constants
  <2>3. \A t \in Services : at'[t] # Nowhere => at'[t] = at[t]
    BY <1>1
  <2> QED
    BY <1>0, <2>1, <2>2, <2>3 DEF IndInv, Origins, Nowhere
<1>5. Phase(f)'
  <2>1. GatewaysOf(f)' = GatewaysOf(f)
    BY Constants
  <2>2. Phase(f)
    BY DEF IndInv
  <2> QED
    BY <1>0, <1>1, <2>1, <2>2 DEF Phase
<1>6. ASSUME Apart(f) PROVE Good(f)'
  <2>1. Good(f) /\ up[f] = "part" /\ ServicesOf[f] \subseteq Services
    BY <1>0, <1>6, Constants DEF IndInv, Phase
  <2>2. \A T : Passed(f, T)' = Passed(f, T)
    BY Constants
  <2>3. DownSoFar(f)'
    <3>1. \A t \in ServicesOf[f] \ left'[f] : svc'[t] = "none" \/ t \in kept'
      BY <1>0, <1>1, <2>1 DEF Good, DownSoFar
    <3>2. Passed(f, todo[f])' = Passed(f, todo[f])
      BY <1>0, <2>2
    <3> QED
      BY <1>0, <2>1, <3>1, <3>2 DEF Good, DownSoFar
  <2>4. UpSoFar(f)' /\ UpDone(f)' /\ DownDone(f)'
    BY <1>0, <2>1 DEF UpSoFar, UpDone, DownDone
  <2> QED
    BY <2>3, <2>4 DEF Good
<1> QED
  BY <1>2, <1>3, <1>4, <1>5, <1>6, Conclude

\* Down kills the next server.
LEMMA KillKeeps ==
    ASSUME IndInv, NEW f \in Files, NEW n \in Nets, KillDNS(f, n)
    PROVE  IndInv'
<1>0. /\ UNCHANGED <<links, on, lost, svc, at, kept, left, got, up>>
      /\ pc[f] = "stop" /\ left[f] = {} /\ n \in todo[f]
      /\ dns' = dns \ ({UpGateway(f, n)} \ lost)
      /\ todo' = [todo EXCEPT ![f] = @ \ {n}]
      /\ net' = [net EXCEPT ![f] = n]
      /\ pc' = [pc EXCEPT ![f] = "link"]
  BY NextGateway DEF KillDNS, boxes, Goto
<1>1. /\ UpGateway(f, n) \in GatewaysOf(f) /\ n \in NetsOf[f]
      /\ Passed(f, todo[f] \ {n}) = Passed(f, todo[f]) \cup {UpGateway(f, n)}
  BY <1>0, NextGateway DEF IndInv, Phase
<1>2. pc'[f] = "link" /\ todo'[f] = todo[f] \ {n} /\ net'[f] = n
  BY <1>0 DEF IndInv, TypeOK
<1>3. Local(f)
  BY <1>0, <1>1 DEF IndInv, TypeOK, Local
<1>4. TypeOK'
  <2>1. Gateways' = Gateways
    BY Constants
  <2>2. todo' \in [Files -> SUBSET Nets] /\ net' \in [Files -> Nets \cup {NoNet}]
        /\ pc' \in [Files -> {"idle", "bridge", "dns", "pid", "stop", "link"}]
    BY <1>0 DEF IndInv, TypeOK
  <2> QED
    BY <1>0, <2>1, <2>2 DEF IndInv, TypeOK
<1>5. Origins'
  BY <1>0, OriginsFrame DEF IndInv
<1>6. Phase(f)'
  BY <1>0, <1>1, <1>2 DEF IndInv, Phase
<1>7. ASSUME Apart(f) PROVE Good(f)'
  <2>1. Good(f) /\ up[f] = "part"
    BY <1>0, <1>7 DEF IndInv, Phase
  <2>2. Passed(f, todo[f])' = Passed(f, todo[f]) \cup {UpGateway(f, n)}
    <3>1. \A T : Passed(f, T)' = Passed(f, T)
      BY Constants
    <3>2. Passed(f, todo[f])' = Passed(f, todo[f] \ {n})
      BY <1>2, <3>1
    <3> QED
      BY <1>1, <3>2
  <2>3. DownSoFar(f)'
    BY <1>0, <1>2, <2>1, <2>2 DEF Good, DownSoFar
  <2>4. UpSoFar(f)' /\ UpDone(f)' /\ DownDone(f)'
    BY <1>0, <1>2, <2>1 DEF UpSoFar, UpDone, DownDone
  <2> QED
    BY <2>3, <2>4 DEF Good
<1> QED
  BY <1>3, <1>4, <1>5, <1>6, <1>7, Conclude

\* Down deletes the bridge.
LEMMA DeleteLinkKeeps ==
    ASSUME IndInv, NEW f \in Files, DeleteLink(f)
    PROVE  IndInv'
<1> PICK n : n = net[f]
  OBVIOUS
<1>0. /\ UNCHANGED <<dns, lost, svc, at, kept, todo, left, got, up>>
      /\ pc[f] = "link"
      /\ links' = links \ {n} /\ on' = [on EXCEPT ![n] = {}]
      /\ net' = [net EXCEPT ![f] = NoNet]
      /\ pc' = [pc EXCEPT ![f] = "stop"]
  BY DEF DeleteLink, Remove, boxes, Goto
<1>1. n \in NetsOf[f] \ todo[f] /\ n \in Nets /\ up[f] = "part" /\ left[f] = {}
  BY <1>0, Constants DEF IndInv, Phase
<1>2. /\ pc'[f] = "stop" /\ on'[n] = {}
      /\ \A m \in Nets \ {n} : on'[m] = on[m]
  BY <1>0, <1>1 DEF IndInv, TypeOK
<1>3. Local(f)
  BY <1>0, <1>1, <1>2 DEF IndInv, TypeOK, Local
<1>4. TypeOK'
  <2>1. Gateways' = Gateways
    BY Constants
  <2>2. net' \in [Files -> Nets \cup {NoNet}] /\ pc' \in [Files -> {"idle", "bridge", "dns", "pid", "stop", "link"}]
    BY <1>0 DEF IndInv, TypeOK
  <2>3. on' \in [Nets -> SUBSET Gateways] /\ links' \subseteq Nets
    BY <1>0 DEF IndInv, TypeOK
  <2> QED
    BY <1>0, <2>1, <2>2, <2>3 DEF IndInv, TypeOK
<1>5. Origins'
  <2>1. \A m, x : From(m, x)' = From(m, x)
    BY Constants
  <2>2. \A g \in Files : GatewaysOf(g)' = GatewaysOf(g)
    BY Constants
  <2>3. \A m \in Nets : on'[m] \subseteq on[m]
    BY <1>2
  <2> QED
    BY <1>0, <2>1, <2>2, <2>3 DEF IndInv, Origins, Nowhere
<1>6. Phase(f)'
  BY <1>0, <1>1, <1>2 DEF IndInv, Phase
<1>7. ASSUME Apart(f) PROVE Good(f)'
  <2>1. Good(f)
    BY <1>7 DEF IndInv
  <2>2. Passed(f, todo[f])' = Passed(f, todo[f])
    <3>1. \A T : Passed(f, T)' = Passed(f, T)
      BY Constants
    <3> QED
      BY <1>0, <3>1
  <2>3. DownSoFar(f)'
    BY <1>0, <1>1, <1>2, <2>1, <2>2 DEF Good, DownSoFar
  <2>4. UpSoFar(f)' /\ UpDone(f)' /\ DownDone(f)'
    BY <1>0, <1>1, <1>2 DEF UpSoFar, UpDone, DownDone
  <2> QED
    BY <2>3, <2>4 DEF Good
<1> QED
  BY <1>3, <1>4, <1>5, <1>6, <1>7, Conclude

-----------------------------------------------------------------------------
\* A service starts, which may set up again what is its file's.
LEMMA StartKeeps ==
    ASSUME IndInv, NEW s \in Services, StartService(s)
    PROVE  IndInv'
<1>0. /\ UNCHANGED <<at, kept, pc, todo, left, got, net, up>>
      /\ svc[s] = "made" /\ svc' = [svc EXCEPT ![s] = "runs"] /\ Quiet(s)
      /\ \/ at[s] = Nowhere /\ UNCHANGED <<links, on, dns, lost>>
         \/ /\ at[s] # Nowhere
            /\ links' = links \cup {at[s].net}
            /\ on' = [on EXCEPT ![at[s].net] = @ \cup {at[s].gw}]
            /\ \/ Serves(at[s].gw) \/ NotStarted(at[s].gw) \/ Spawn(at[s].gw)
               \/ dns' = dns \cup {at[s].gw} /\ lost' = lost \ {at[s].gw}
  BY DEF StartService, AddAddress, host, req
<1>1. at[s] # Nowhere => /\ at[s].net \in Nets /\ at[s].gw \in Gateways
                         /\ \E g \in Files : /\ s \in ServicesOf[g] /\ at[s].net \in NetsOf[g]
                                             /\ at[s].gw \in GatewaysOf(g)
  BY DEF IndInv, TypeOK, Origins
<1>l. /\ dns' \subseteq Gateways /\ lost' \subseteq Gateways
      /\ dns \cup lost \subseteq dns' \cup lost'
      /\ \A x : x \notin {at[s].gw} \/ at[s] = Nowhere =>
            (x \in dns' <=> x \in dns) /\ (x \in lost' <=> x \in lost)
  <2>1. CASE at[s] = Nowhere
    BY <1>0, <2>1 DEF IndInv, TypeOK
  <2>2. CASE at[s] # Nowhere
    BY <1>0, <1>1, <2>2, LaunchFacts
  <2> QED
    BY <2>1, <2>2
<1>2. /\ links \subseteq links'
      /\ \A n \in Nets : on[n] \subseteq on'[n]
      /\ \A t \in Services : (svc'[t] = "none") = (svc[t] = "none")
      /\ \A t \in Services \ {s} : svc'[t] = svc[t]
  BY <1>0 DEF IndInv, TypeOK
<1>3. TypeOK'
  <2>1. Gateways' = Gateways
    BY Constants
  <2>2. links' \subseteq Nets /\ dns' \subseteq Gateways /\ lost' \subseteq Gateways
    BY <1>0, <1>1, <1>l DEF IndInv, TypeOK
  <2>3. on' \in [Nets -> SUBSET Gateways]
    <3>1. CASE at[s] = Nowhere
      BY <1>0, <3>1 DEF IndInv, TypeOK
    <3>2. CASE at[s] # Nowhere
      <4>1. on \in [Nets -> SUBSET Gateways]
        BY DEF IndInv, TypeOK
      <4>2. on' = [on EXCEPT ![at[s].net] = @ \cup {at[s].gw}]
        BY <1>0, <3>2
      <4>3. on[at[s].net] \cup {at[s].gw} \in SUBSET Gateways
        BY <1>1, <3>2, <4>1
      <4> QED
        BY <4>1, <4>2, <4>3
    <3> QED
      BY <3>1, <3>2
  <2>4. svc' \in [Services -> {"none", "made", "runs"}]
    BY <1>0 DEF IndInv, TypeOK
  <2> QED
    BY <1>0, <2>1, <2>2, <2>3, <2>4 DEF IndInv, TypeOK, Nowhere
<1>4. Origins'
  <2>1. \A n, x : From(n, x)' = From(n, x)
    BY Constants
  <2>2. \A g \in Files : GatewaysOf(g)' = GatewaysOf(g)
    BY Constants
  <2>3. \A n \in Nets : \A x \in on'[n] :
           x \in on[n] \/ (at[s] # Nowhere /\ n = at[s].net /\ x = at[s].gw)
    BY <1>0 DEF IndInv, TypeOK
  <2>4. at[s] # Nowhere => From(at[s].net, at[s].gw)
    BY <1>1 DEF From
  <2> QED
    BY <1>0, <2>1, <2>2, <2>3, <2>4 DEF IndInv, Origins, Nowhere
<1> SUFFICES ASSUME NEW f \in Files
             PROVE  Phase(f)' /\ (Apart(f) => Good(f)')
  <2>1. \A f \in Files : Apart(f)' = Apart(f)
    BY Constants
  <2> QED
    BY <1>3, <1>4, <2>1 DEF IndInv
<1>5. Phase(f)'
  BY <1>0, PhaseFrame DEF IndInv
<1>6. ASSUME Apart(f) PROVE Good(f)'
  <2>0. Good(f) /\ NetsOf[f] \subseteq Nets /\ ServicesOf[f] \subseteq Services
        /\ GatewaysOf(f)' = GatewaysOf(f)
    BY <1>6, Constants DEF IndInv
  <2>1. CASE s \in ServicesOf[f]
    <3>1. pc'[f] = "idle"
      BY <1>0, <2>1 DEF Quiet
    <3>2. \A t \in ServicesOf[f] : Placed(t) => Placed(t)'
      <4> SUFFICES ASSUME NEW t \in ServicesOf[f], Placed(t) PROVE Placed(t)'
        OBVIOUS
      <4>1. t \in Services
        BY <2>0
      <4>2. at[t] # Nowhere => at[t].net \in Nets
        BY <4>1 DEF IndInv, TypeOK
      <4> QED
        BY <1>0, <1>2, <4>1, <4>2 DEF Placed, Nowhere
    <3>3. UpDone(f)'
      <4> SUFFICES ASSUME up[f] = "up"
                   PROVE  /\ \A n \in NetsOf[f] : n \in links' /\ on'[n] # {}
                          /\ GatewaysOf(f) \subseteq dns' \cup lost'
                          /\ \A t \in ServicesOf[f] : Placed(t)'
        BY <1>0, <2>0 DEF UpDone
      <4>1. /\ \A n \in NetsOf[f] : n \in links /\ on[n] # {}
            /\ GatewaysOf(f) \subseteq dns \cup lost
            /\ \A t \in ServicesOf[f] : Placed(t)
        BY <2>0 DEF Good, UpDone
      <4>2. \A n \in NetsOf[f] : n \in links' /\ on'[n] # {}
        BY <1>2, <2>0, <4>1
      <4> QED
        BY <1>2, <1>l, <3>2, <4>1, <4>2
    <3>4. DownDone(f)'
      <4> SUFFICES ASSUME up[f] = "down"
                   PROVE  /\ \A t \in ServicesOf[f] : svc'[t] = "none" \/ t \in kept'
                          /\ \A n \in NetsOf[f] : n \in links' => OfService(f, n)'
                          /\ \A g \in GatewaysOf(f) : g \in dns' => g \in lost' \/ OfGateway(f, g)'
        BY <1>0, <2>0 DEF DownDone
      <4>1. DownDone(f)
        BY <2>0 DEF Good
      <4>2. \A n : OfService(f, n) => OfService(f, n)'
        BY <1>0, <1>2, <2>0 DEF OfService
      <4>3. \A g : OfGateway(f, g) => OfGateway(f, g)'
        BY <1>0, <1>2, <2>0 DEF OfGateway
      <4>4. svc'[s] # "none"
        BY <1>0 DEF IndInv, TypeOK
      <4>5. at[s] # Nowhere => OfService(f, at[s].net)' /\ OfGateway(f, at[s].gw)'
        BY <1>0, <2>1, <4>4 DEF OfService, OfGateway
      <4>6. \A t \in ServicesOf[f] : svc'[t] = "none" \/ t \in kept'
        BY <1>0, <1>2, <2>0, <4>1 DEF DownDone
      <4>7. \A n \in NetsOf[f] : n \in links' => OfService(f, n)'
        BY <1>0, <4>1, <4>2, <4>5 DEF DownDone
      <4>8. \A g \in GatewaysOf(f) : g \in dns' => g \in lost' \/ OfGateway(f, g)'
        <5> SUFFICES ASSUME NEW g \in GatewaysOf(f), g \in dns', ~OfGateway(f, g)' PROVE g \in lost'
          OBVIOUS
        <5>1. at[s] = Nowhere \/ g # at[s].gw
          BY <1>0, <4>5 DEF OfGateway
        <5>2. g \in dns /\ (g \in lost' <=> g \in lost)
          BY <1>l, <5>1
        <5>3. g \in lost \/ OfGateway(f, g)
          BY <4>1, <5>2 DEF DownDone
        <5> QED
          BY <4>3, <5>2, <5>3
      <4> QED
        BY <4>6, <4>7, <4>8
    <3> QED
      BY <3>1, <3>3, <3>4 DEF Good, UpSoFar, DownSoFar
  <2>2. CASE s \notin ServicesOf[f]
    <3>1. at[s] # Nowhere => at[s].net \notin NetsOf[f] /\ at[s].gw \notin GatewaysOf(f)
      BY <1>1, <1>6, <2>2, ApartFacts
    <3>2. /\ \A n \in NetsOf[f] : (n \in links' <=> n \in links) /\ on'[n] = on[n]
          /\ \A x \in GatewaysOf(f) : (x \in dns' <=> x \in dns) /\ (x \in lost' <=> x \in lost)
      BY <1>0, <1>l, <2>0, <3>1 DEF IndInv, TypeOK
    <3>3. \A t \in ServicesOf[f] : svc'[t] = svc[t] /\ at'[t] = at[t]
      BY <1>0, <1>2, <2>0, <2>2
    <3> QED
      BY <1>0, <1>6, <2>0, <3>2, <3>3, Frame
  <2> QED
    BY <2>1, <2>2
<1> QED
  BY <1>5, <1>6

\* A service ends, the daemon dies, or nothing happens.
LEMMA QuietKeeps ==
    ASSUME IndInv, UNCHANGED <<links, on, dns, lost, at, kept, up>>,
           \/ /\ UNCHANGED <<pc, todo, left, got, net>>
              /\ UNCHANGED svc \/ \E s \in Services : EndService(s)
           \/ Crash
    PROVE  IndInv'
<1>1. svc' \in [Services -> {"none", "made", "runs"}]
      /\ \A t \in Services : (svc'[t] = "none") = (svc[t] = "none")
  BY DEF EndService, Crash, boxes, IndInv, TypeOK
<1>2. TypeOK'
  <2>1. Gateways' = Gateways
    BY Constants
  <2>2. CASE Crash
    <3>1. /\ pc' \in [Files -> {"idle", "bridge", "dns", "pid", "stop", "link"}]
          /\ todo' \in [Files -> SUBSET Nets] /\ left' \in [Files -> SUBSET Services]
      BY <2>2 DEF Crash
    <3>2. /\ got' \in [Files -> [Nets -> Gateways \cup {NoGw}]] /\ net' \in [Files -> Nets \cup {NoNet}]
      BY <2>2 DEF Crash, Nothing
    <3> QED
      BY <1>1, <2>1, <3>1, <3>2 DEF IndInv, TypeOK, Nowhere
  <2>3. CASE UNCHANGED <<pc, todo, left, got, net>>
    BY <1>1, <2>1, <2>3 DEF IndInv, TypeOK, Nowhere
  <2> QED
    BY <2>2, <2>3
<1>3. Origins'
  BY OriginsFrame DEF IndInv
<1> SUFFICES ASSUME NEW f \in Files
             PROVE  Phase(f)' /\ (Apart(f) => Good(f)')
  <2>1. \A f \in Files : Apart(f)' = Apart(f)
    BY Constants
  <2> QED
    BY <1>2, <1>3, <2>1 DEF IndInv
<1>4. \/ UNCHANGED <<pc, todo, left, got, net>>
      \/ pc'[f] = "idle" /\ todo'[f] = {} /\ left'[f] = {}
  BY DEF Crash
<1>5. Phase(f)'
  <2>1. CASE UNCHANGED <<pc, todo, left, got, net>>
    BY <2>1, PhaseFrame DEF IndInv
  <2>2. CASE pc'[f] = "idle" /\ todo'[f] = {} /\ left'[f] = {}
    BY <2>2 DEF Phase
  <2> QED
    BY <1>4, <2>1, <2>2
<1>6. ASSUME Apart(f) PROVE Good(f)'
  <2>1. Good(f) /\ GatewaysOf(f)' = GatewaysOf(f) /\ ServicesOf[f] \subseteq Services
    BY <1>6, Constants DEF IndInv
  <2>2. \A t \in ServicesOf[f] : Placed(t)' = Placed(t)
    BY <1>1, <2>1 DEF Placed, Nowhere
  <2>3. UpDone(f)'
    BY <2>1, <2>2 DEF Good, UpDone
  <2>4. DownDone(f)'
    <3>1. /\ \A n : OfService(f, n)' = OfService(f, n)
          /\ \A g : OfGateway(f, g)' = OfGateway(f, g)
      BY <1>1, <2>1 DEF OfService, OfGateway
    <3> QED
      BY <1>1, <2>1, <3>1 DEF Good, DownDone
  <2>5. UpSoFar(f)' /\ DownSoFar(f)'
    <3>1. CASE UNCHANGED <<pc, todo, left, got, net>>
      <4>1. Passed(f, todo[f])' = Passed(f, todo[f])
        <5>1. \A T : Passed(f, T)' = Passed(f, T)
          BY Constants
        <5> QED
          BY <3>1, <5>1
      <4>2. UpSoFar(f)'
        BY <2>1, <2>2, <3>1, <4>1 DEF Good, UpSoFar
      <4>3. DownSoFar(f)'
        BY <1>1, <2>1, <3>1, <4>1 DEF Good, DownSoFar
      <4> QED
        BY <4>2, <4>3
    <3>2. CASE pc'[f] = "idle"
      BY <3>2 DEF UpSoFar, DownSoFar
    <3> QED
      BY <1>4, <3>1, <3>2
  <2> QED
    BY <2>3, <2>4, <2>5 DEF Good
<1> QED
  BY <1>5, <1>6

\* The user deletes a network of a file that is not up.
LEMMA NetworkDeleteKeeps ==
    ASSUME IndInv, NEW n \in Nets, NetworkDelete(n)
    PROVE  IndInv'
<1>0. /\ UNCHANGED <<dns, lost, svc, at, kept, pc, todo, left, got, net, up>>
      /\ \A f \in Files : n \in NetsOf[f] => pc[f] = "idle" /\ up[f] # "up"
      /\ links' = links \ {n} /\ on' = [on EXCEPT ![n] = {}]
  BY DEF NetworkDelete, Remove, boxes, req
<1>1. /\ on'[n] = {} /\ \A m \in Nets \ {n} : on'[m] = on[m]
  BY <1>0 DEF IndInv, TypeOK
<1>2. TypeOK'
  <2>1. Gateways' = Gateways
    BY Constants
  <2>2. on' \in [Nets -> SUBSET Gateways] /\ links' \subseteq Nets
    BY <1>0 DEF IndInv, TypeOK
  <2> QED
    BY <1>0, <2>1, <2>2 DEF IndInv, TypeOK, Nowhere
<1>3. Origins'
  <2>1. \A m, x : From(m, x)' = From(m, x)
    BY Constants
  <2>2. \A g \in Files : GatewaysOf(g)' = GatewaysOf(g)
    BY Constants
  <2> QED
    BY <1>0, <1>1, <2>1, <2>2 DEF IndInv, Origins, Nowhere
<1> SUFFICES ASSUME NEW f \in Files
             PROVE  Phase(f)' /\ (Apart(f) => Good(f)')
  <2>1. \A f \in Files : Apart(f)' = Apart(f)
    BY Constants
  <2> QED
    BY <1>2, <1>3, <2>1 DEF IndInv
<1>4. Phase(f)'
  BY <1>0, PhaseFrame DEF IndInv
<1>5. ASSUME Apart(f) PROVE Good(f)'
  <2>0. Good(f) /\ NetsOf[f] \subseteq Nets /\ GatewaysOf(f)' = GatewaysOf(f)
    BY <1>5, Constants DEF IndInv
  <2>1. CASE n \in NetsOf[f]
    <3>1. pc'[f] = "idle" /\ up'[f] # "up"
      BY <1>0, <2>1
    <3>2. DownDone(f)'
      <4>1. /\ \A m : OfService(f, m)' = OfService(f, m)
            /\ \A g : OfGateway(f, g)' = OfGateway(f, g)
        BY <1>0 DEF OfService, OfGateway
      <4> QED
        BY <1>0, <2>0, <4>1 DEF Good, DownDone
    <3> QED
      BY <3>1, <3>2 DEF Good, UpSoFar, UpDone, DownSoFar
  <2>2. CASE n \notin NetsOf[f]
    <3>1. \A m \in NetsOf[f] : (m \in links' <=> m \in links) /\ on'[m] = on[m]
      BY <1>0, <1>1, <2>0, <2>2
    <3> QED
      BY <1>0, <1>5, <2>0, <3>1, Frame
  <2> QED
    BY <2>1, <2>2
<1> QED
  BY <1>4, <1>5

-----------------------------------------------------------------------------
LEMMA StepsKeep == IndInv /\ [Next]_vars => IndInv'
<1> SUFFICES ASSUME IndInv, [Next]_vars PROVE IndInv'
  OBVIOUS
<1>1. CASE UNCHANGED vars
  <2>1. UNCHANGED <<links, on, dns, lost, svc, at, kept, pc, todo, left, got, net, up>>
    BY <1>1 DEF vars, host, boxes, req
  <2> QED
    BY <2>1, QuietKeeps
<1>2. CASE \E f \in Files : \/ Up(f) \/ StartEmbeddedDNS(f) \/ WritePid(f) \/ IsUp(f)
                            \/ Down(f) \/ DeleteLink(f) \/ IsDown(f)
  BY <1>2, BeginKeeps, LaunchKeeps, OverKeeps, DeleteLinkKeeps
<1>3. CASE \E f \in Files, n \in Nets : SetupNamedBridge(f, n) \/ KillDNS(f, n)
  BY <1>3, BridgeKeeps, KillKeeps
<1>4. CASE \E f \in Files, s \in Services : CreateService(f, s) \/ StopService(f, s) \/ DeleteService(f, s)
  BY <1>4, CreateKeeps, RemoveKeeps
<1>5. CASE \E s \in Services : EndService(s)
  <2>1. UNCHANGED <<links, on, dns, lost, at, kept, pc, todo, left, got, net, up>>
    BY <1>5 DEF EndService, host, req
  <2> QED
    BY <1>5, <2>1, QuietKeeps
<1>6. CASE Crash
  <2>1. UNCHANGED <<links, on, dns, lost, at, kept, up>>
    BY <1>6 DEF Crash, host, boxes
  <2> QED
    BY <1>6, <2>1, QuietKeeps
<1>7. CASE (\E s \in Services : StartService(s)) \/ \E n \in Nets : NetworkDelete(n)
  BY <1>7, StartKeeps, NetworkDeleteKeeps
<1> QED
  BY <1>1, <1>2, <1>3, <1>4, <1>5, <1>6, <1>7 DEF Next

LEMMA Inductive == Spec => []IndInv
BY StartsSound, StepsKeep, PTL DEF Spec

\* The types of the variables are invariant.
THEOREM ComposeTypes == Spec => []TypeOK
<1>1. IndInv => TypeOK
  BY DEF IndInv
<1> QED
  BY <1>1, Inductive, PTL

\* Down finds what Up has made, whatever the orders of their maps and whatever failed
\* between, for a file that shares nothing with another: what is left is a service
\* whose deletion failed, what that service sets up again, and a server whose pid was
\* never written down (engine.go:24-124, down.go:13-62).
THEOREM DownFindsAll == Spec => []DownUndoes
<1>1. IndInv => DownUndoes
  BY DEF IndInv, Good, DownDone, DownUndoes
<1> QED
  BY <1>1, Inductive, PTL

\* What an Up has made stays until its file is taken down, for a file that shares
\* nothing with another (engine.go:24-124).
THEOREM UpIsKept == Spec => []UpStays
<1>1. IndInv => UpStays
  <2> SUFFICES ASSUME IndInv, NEW f \in Files, up[f] = "up", Apart(f)
               PROVE  /\ NetsOf[f] \subseteq links
                      /\ \A n \in NetsOf[f] : on[n] # {} /\ on[n] \subseteq dns \cup lost
                      /\ \A s \in ServicesOf[f] : /\ svc[s] # "none"
                                                  /\ at[s] # Nowhere => at[s].gw \in on[at[s].net]
    BY DEF UpStays
  <2>1. UpDone(f) /\ NetsOf[f] \subseteq Nets
    BY Constants DEF IndInv, Good
  <2>2. \A n \in NetsOf[f] : \A x \in on[n] : x \in GatewaysOf(f)
    BY <2>1, ApartFacts DEF IndInv, Origins
  <2> QED
    BY <2>1, <2>2 DEF UpDone, Placed
<1> QED
  BY <1>1, Inductive, PTL
================================================================================
