--------------------------- MODULE ImageStoreProofs ---------------------------
(***************************************************************************)
(* The lower layer of a mounted overlay stays as it is, for any number of  *)
(* sessions, images and layers.                                            *)
(***************************************************************************)
EXTENDS ImageStore, TLAPS

LEMMA StoreSound == Init => IndInv
BY ImageAssumption
   DEF Init, IndInv, TypeOK, PullPcs, Layers, Busy, OnePull, UsersRun, Marked, BinInTime, Mounted

\* A session begins to pull.
LEMMA PullKeeps ==
    ASSUME IndInv, NEW t \in Threads, NEW i \in Images, Pull(t, i)
    PROVE  IndInv'
<1> USE ImageAssumption DEF IndInv, Pull, Goto, dir, TypeOK, PullPcs, Layers, Marked
<1>1. TypeOK' /\ \A u \in Threads : Busy(u)'
  BY DEF Busy
<1>2. OnePull'
  BY DEF OnePull, NotPulled
<1>3. UsersRun'
  BY DEF UsersRun
<1>4. BinInTime'
  BY DEF BinInTime, Busy
<1>5. Mounted'
  BY DEF Mounted
<1> QED
  BY <1>1, <1>2, <1>3, <1>4, <1>5

\* A session that gives up leaves its own variables in their types.
LEMMA FinishTypes ==
    ASSUME TypeOK, NEW t \in Threads, Finish(t)
    PROVE  /\ pc' \in [Threads -> PullPcs \cup {"idle", "run"}]
           /\ img' \in [Threads -> Images \cup {NoImage}]
           /\ next' \in [Threads -> Layers]
           /\ hurt' \in [Threads -> BOOLEAN]
<1>1. 1 \in Layers
  BY ImageAssumption DEF Layers
<1>2. pc' \in [Threads -> PullPcs \cup {"idle", "run"}]
  BY DEF TypeOK, Finish, Goto
<1>3. img' \in [Threads -> Images \cup {NoImage}]
  BY DEF TypeOK, Finish
<1>4. next' \in [Threads -> Layers]
  BY <1>1 DEF TypeOK, Finish
<1>5. hurt' \in [Threads -> BOOLEAN]
  BY DEF TypeOK, Finish
<1> QED
  BY <1>2, <1>3, <1>4, <1>5

\* The steps that may give up keep the types.
LEMMA FetchTypes ==
    ASSUME TypeOK, NEW t \in Threads, Fetch(t)
    PROVE  TypeOK'
<1>0. UNCHANGED <<layers, bin, users>>
  BY DEF Fetch, dir
<1>1. CASE Goto(t, "extract") /\ UNCHANGED <<img, next, hurt>>
  BY <1>0, <1>1 DEF TypeOK, Goto, PullPcs
<1>2. CASE Finish(t)
  BY <1>0, <1>2, FinishTypes DEF TypeOK
<1> QED
  BY <1>1, <1>2 DEF Fetch

LEMMA ExtractTypes ==
    ASSUME TypeOK, NEW t \in Threads, img[t] \in Images, Extract(t)
    PROVE  TypeOK'
<1>0. UNCHANGED <<bin, users>>
  BY DEF Extract
<1>1. CASE Finish(t) /\ UNCHANGED layers
  BY <1>0, <1>1, FinishTypes DEF TypeOK
<1>2. CASE ~(Finish(t) /\ UNCHANGED layers)
  <2>0. next[t] \in Layers
    BY DEF TypeOK
  <2>1. layers' \in [Images -> SUBSET Layers]
    BY <1>2, <2>0 DEF Extract, TypeOK
  <2>2. pc' \in [Threads -> PullPcs \cup {"idle", "run"}]
    BY <1>2 DEF Extract, Goto, PullPcs, TypeOK
  <2>3. next' \in [Threads -> Layers]
    <3>1. next[t] # Depth => next[t] + 1 \in Layers
      BY <2>0, ImageAssumption DEF Layers
    <3> QED
      BY <1>2, <3>1 DEF Extract, Last, TypeOK
  <2>4. hurt' \in [Threads -> BOOLEAN]
    BY <1>2 DEF Extract, TypeOK
  <2>5. img' = img
    BY <1>2 DEF Extract
  <2> QED
    BY <1>0, <2>1, <2>2, <2>3, <2>4, <2>5 DEF TypeOK
<1> QED
  BY <1>1, <1>2

LEMMA MountTypes ==
    ASSUME TypeOK, NEW t \in Threads, img[t] \in Images, Mount(t) \/ Unmount(t)
    PROVE  TypeOK'
<1>0. UNCHANGED <<layers, bin>>
  BY DEF Mount, Unmount, dir
<1>1. users' \in [Images -> SUBSET Threads]
  <2>1. CASE Mount(t)
    BY <2>1 DEF Mount, TypeOK
  <2>2. CASE Unmount(t)
    BY <2>2 DEF Unmount, TypeOK
  <2> QED
    BY <2>1, <2>2
<1>2. CASE Finish(t)
  BY <1>0, <1>1, <1>2, FinishTypes DEF TypeOK
<1>3. CASE ~Finish(t)
  <2>1. Goto(t, "run") /\ UNCHANGED <<img, next, hurt>>
    BY <1>3 DEF Mount, Unmount
  <2> QED
    BY <1>0, <1>1, <2>1 DEF Goto, TypeOK
<1> QED
  BY <1>2, <1>3

\* The steps of PullImage.
LEMMA PullStepKeeps ==
    ASSUME IndInv, NEW t \in Threads, Check(t) \/ Clean(t) \/ Fetch(t) \/ MakeBin(t) \/ Extract(t)
    PROVE  IndInv'
<1> USE ImageAssumption DEF IndInv, Goto, Finish, dir, TypeOK, PullPcs, Layers, Marked
<1>0. img[t] \in Images
  BY DEF Busy, Check, Clean, Fetch, MakeBin, Extract
<1>1. CASE Check(t)
  <2> USE <1>0, <1>1 DEF Check
  <2>0. 1 \in Layers
    OBVIOUS
  <2>1. TypeOK'
    BY <2>0
  <2>5. \A u \in Threads : Busy(u)'
    BY DEF Busy
  <2>2. OnePull' /\ UsersRun'
    BY DEF OnePull, UsersRun
  <2>3. BinInTime'
    BY DEF BinInTime
  <2>4. Mounted'
    BY DEF Mounted
  <2> QED
    BY <2>1, <2>5, <2>2, <2>3, <2>4
<1>2. CASE Clean(t)
  <2> USE <1>0, <1>2 DEF Clean
  <2>0. 1 \in Layers
    OBVIOUS
  <2>1. TypeOK'
    BY <2>0
  <2>5. \A u \in Threads : Busy(u)'
    BY DEF Busy
  <2>2. OnePull' /\ UsersRun'
    BY DEF OnePull, UsersRun
  <2>3. BinInTime'
    BY DEF BinInTime, OnePull
  <2>4. Mounted'
    BY DEF Mounted
  <2> QED
    BY <2>1, <2>5, <2>2, <2>3, <2>4
<1>3. CASE Fetch(t)
  <2> USE <1>0, <1>3 DEF Fetch
  <2>0. 1 \in Layers
    OBVIOUS
  <2>1. TypeOK'
    BY <1>3, FetchTypes
  <2>5. \A u \in Threads : Busy(u)'
    BY DEF Busy
  <2>2. OnePull' /\ UsersRun'
    BY DEF OnePull, UsersRun
  <2>3. BinInTime'
    BY DEF BinInTime
  <2>4. Mounted'
    BY DEF Mounted
  <2> QED
    BY <2>1, <2>5, <2>2, <2>3, <2>4
<1>4. CASE MakeBin(t)
  <2> USE <1>0, <1>4 DEF MakeBin
  <2>0. 1 \in Layers
    OBVIOUS
  <2>1. TypeOK'
    BY <2>0
  <2>5. \A u \in Threads : Busy(u)'
    BY DEF Busy
  <2>2. OnePull' /\ UsersRun'
    BY DEF OnePull, UsersRun
  <2>3. BinInTime'
    BY DEF BinInTime, OnePull
  <2>4. Mounted'
    BY DEF Mounted
  <2> QED
    BY <2>1, <2>5, <2>2, <2>3, <2>4
<1>5. CASE Extract(t)
  <2> USE <1>0, <1>5 DEF Extract, Last
  <2>0. 1 \in Layers
    OBVIOUS
  <2>1. TypeOK'
    BY <1>0, <1>5, ExtractTypes
  <2>5. \A u \in Threads : Busy(u)'
    BY DEF Busy
  <2>2. OnePull' /\ UsersRun'
    BY DEF OnePull, UsersRun
  <2>3. BinInTime'
    BY DEF BinInTime
  <2>4. Mounted'
    BY DEF Mounted
  <2> QED
    BY <2>1, <2>5, <2>2, <2>3, <2>4
<1> QED
  BY <1>1, <1>2, <1>3, <1>4, <1>5

\* The overlay comes and goes.
LEMMA MountKeeps ==
    ASSUME IndInv, NEW t \in Threads, Mount(t) \/ Unmount(t)
    PROVE  IndInv'
<1> USE ImageAssumption DEF IndInv, Goto, Finish, dir, TypeOK, PullPcs, Layers, Marked
<1>0. img[t] \in Images
  BY DEF Busy, Mount, Unmount
<1>1. CASE Mount(t)
  <2> USE <1>0, <1>1 DEF Mount
  <2>0. 1 \in Layers
    OBVIOUS
  <2>1. TypeOK'
    BY <1>0, <1>1, MountTypes
  <2>5. \A u \in Threads : Busy(u)'
    BY DEF Busy
  <2>2. OnePull' /\ UsersRun'
    BY DEF OnePull, UsersRun
  <2>3. BinInTime'
    BY DEF BinInTime
  <2>4. Mounted'
    BY DEF Mounted, BinInTime, OnePull
  <2> QED
    BY <2>1, <2>5, <2>2, <2>3, <2>4
<1>2. CASE Unmount(t)
  <2> USE <1>0, <1>2 DEF Unmount
  <2>0. 1 \in Layers
    OBVIOUS
  <2>1. TypeOK'
    BY <1>0, <1>2, MountTypes
  <2>5. \A u \in Threads : Busy(u)'
    BY DEF Busy
  <2>2. OnePull' /\ UsersRun'
    BY DEF OnePull, UsersRun
  <2>3. BinInTime'
    BY DEF BinInTime
  <2>4. Mounted'
    BY DEF Mounted
  <2> QED
    BY <2>1, <2>5, <2>2, <2>3, <2>4
<1> QED
  BY <1>1, <1>2

\* The end of the daemon ends the pulls.
LEMMA CrashKeeps == IndInv /\ Crash => IndInv'
<1> SUFFICES ASSUME IndInv, Crash PROVE IndInv'
  OBVIOUS
<1> USE ImageAssumption DEF IndInv, Crash, dir, TypeOK, PullPcs, Layers, Marked
<1>1. TypeOK' /\ \A u \in Threads : Busy(u)'
  BY DEF Busy
<1>2. OnePull' /\ UsersRun'
  BY DEF OnePull, UsersRun
<1>3. BinInTime' /\ Mounted'
  BY DEF BinInTime, Mounted
<1> QED
  BY <1>1, <1>2, <1>3

LEMMA StoreNextKeeps == IndInv /\ [Next]_vars => IndInv'
<1> SUFFICES ASSUME IndInv, [Next]_vars
             PROVE  IndInv'
  OBVIOUS
<1>1. CASE Next
  BY <1>1, CrashKeeps, PullKeeps, PullStepKeeps, MountKeeps DEF Next, Step
<1>2. CASE UNCHANGED vars
  BY <1>2 DEF vars, dir, IndInv, TypeOK, Busy, OnePull, UsersRun, Marked, BinInTime, Mounted
<1> QED
  BY <1>1, <1>2

LEMMA StoreInvariant == Spec => []IndInv
BY StoreSound, StoreNextKeeps, PTL DEF Spec

\* The types of the variables are invariant.
THEOREM StoreTypes == Spec => []TypeOK
<1>1. IndInv => TypeOK
  BY DEF IndInv
<1> QED
  BY <1>1, StoreInvariant, PTL

\* One step leaves the lower layer of a mounted overlay alone: who would change it
\* is past the test of rootfs/bin (image.go:61-67), and nobody is.
LEMMA StepLeavesLower ==
    ASSUME IndInv, Next, NEW i \in Serialised, users[i] # {}, BinLayer[i] # 0
    PROVE  layers'[i] = layers[i] /\ (i \in bin' <=> i \in bin)
<1> USE ImageAssumption DEF IndInv, TypeOK, Marked, dir
<1>0. /\ i \in Images
      /\ \A t \in Threads : img[t] = i => pc[t] \notin {"clean", "fetch", "extract"}
  BY DEF Mounted
<1>1. ASSUME NEW t \in Threads, Step(t)
      PROVE  layers'[i] = layers[i] /\ (i \in bin' <=> i \in bin)
  BY <1>0, <1>1 DEF Step, Check, Clean, Fetch, MakeBin, Extract, Mount, Unmount, Busy
<1>2. ASSUME NEW t \in Threads, NEW j \in Images, Pull(t, j)
      PROVE  layers'[i] = layers[i] /\ (i \in bin' <=> i \in bin)
  BY <1>2 DEF Pull
<1>3. CASE Crash
  BY <1>3 DEF Crash
<1> QED
  BY <1>1, <1>2, <1>3 DEF Next

\* The lower layer of a mounted overlay does not change, for an image with a bin that
\* is pulled by one session at a time, however the pulls of other images interleave,
\* wherever they fail and the daemon dies.
THEOREM LowerIsStable == Spec => LowerStays
<1> DEFINE Stays == \A i \in Serialised : users[i] # {} /\ BinLayer[i] # 0 =>
                        layers'[i] = layers[i] /\ (i \in bin' <=> i \in bin)
<1>1. IndInv /\ [Next]_vars => [Stays]_vars
  BY StepLeavesLower
<1> QED
  BY <1>1, StoreInvariant, PTL DEF Spec, LowerStays
=============================================================================
