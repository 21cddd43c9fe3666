------------------------------ MODULE ImageStore ------------------------------
(***************************************************************************)
(* The store of images: PullImage of internal/storage/image.go, and the    *)
(* sessions that mount what it returns as the lower layer of an overlay    *)
(* (manager.go:152-171, 448-465).                                          *)
(*                                                                         *)
(* An image is a directory.  There is no record of which layers have       *)
(* arrived: the presence of rootfs/bin stands for a finished image.        *)
(* Every session pulls in its own goroutine, without a lock.  The images   *)
(* in Serialised are those of which one session at a time happens to pull. *)
(***************************************************************************)
EXTENDS Naturals, FiniteSets

CONSTANTS
    Threads,   \* sessions
    Images,    \* image names
    Depth,     \* number of layers of an image
    BinLayer,  \* the layer that brings rootfs/bin, by image; 0: none does
    Serialised,\* images that are pulled by one session at a time
    NoImage    \* the image of an idle session

ASSUME ImageAssumption ==
    /\ Depth \in Nat \ {0}
    /\ BinLayer \in [Images -> 0..Depth]
    /\ Serialised \subseteq Images
    /\ NoImage \notin Images

VARIABLES
    layers,   \* the layers an image directory holds completely
    bin,      \* images with a rootfs/bin
    users,    \* sessions whose overlay has the image as its lower layer
    pc,       \* next step of each session
    img,      \* the image it wants
    next,     \* the layer it downloads or will download next
    hurt      \* the directory was removed while it extracted that layer

dir == <<layers, bin>>
vars == <<dir, users, pc, img, next, hurt>>

Layers == 1..Depth
Goto(t, l) == pc' = [pc EXCEPT ![t] = l]

Finish(t) == /\ Goto(t, "idle")
             /\ img' = [img EXCEPT ![t] = NoImage]
             /\ next' = [next EXCEPT ![t] = 1]
             /\ hurt' = [hurt EXCEPT ![t] = FALSE]

Init ==
    /\ layers = [i \in Images |-> {}]
    /\ bin = {}
    /\ users = [i \in Images |-> {}]
    /\ pc = [t \in Threads |-> "idle"]
    /\ img = [t \in Threads |-> NoImage]
    /\ next = [t \in Threads |-> 1]
    /\ hurt = [t \in Threads |-> FALSE]

-----------------------------------------------------------------------------
PullPcs == {"check", "clean", "fetch", "extract", "mount"}
NotPulled(i) == \A u \in Threads : img[u] = i => pc[u] \notin PullPcs

\* A session of a container whose image is no directory of the host
Pull(t, i) ==
    /\ pc[t] = "idle"
    /\ i \in Serialised => NotPulled(i)
    /\ Goto(t, "check")
    /\ img' = [img EXCEPT ![t] = i]
    /\ UNCHANGED <<dir, users, next, hurt>>

\* Fault: what is there is always pulled again.
CheckNever(t) ==
    /\ pc[t] = "check"
    /\ Goto(t, "clean")
    /\ UNCHANGED <<dir, users, img, next, hurt>>

\* os.Stat of rootfs/bin: an image that has one is used as it is
Check(t) ==
    /\ pc[t] = "check"
    /\ Goto(t, IF img[t] \in bin THEN "mount" ELSE "clean")
    /\ UNCHANGED <<dir, users, img, next, hurt>>

\* os.RemoveAll, also under the feet of those who extract
Clean(t) ==
    /\ pc[t] = "clean"
    /\ layers' = [layers EXCEPT ![img[t]] = {}]
    /\ bin' = bin \ {img[t]}
    /\ hurt' = [u \in Threads |-> hurt[u] \/ (img[u] = img[t] /\ pc[u] = "extract")]
    /\ Goto(t, "fetch")
    /\ UNCHANGED <<users, img, next>>

\* token, manifest and the download of a blob: an error leaves what is there (one that
\* has no response is in Crash)
Fetch(t) ==
    /\ pc[t] = "fetch"
    /\ \/ Goto(t, "extract") /\ UNCHANGED <<img, next, hurt>>
       \/ Finish(t)
    /\ UNCHANGED <<dir, users>>

\* extractTarGz of the layer that has it makes the directory bin ...
MakeBin(t) ==
    /\ pc[t] = "extract" /\ next[t] = BinLayer[img[t]]
    /\ bin' = bin \cup {img[t]}
    /\ UNCHANGED <<layers, users, pc, img, next, hurt>>

\* Fault: one layer too many.
LastPassed(t) == next[t] > Depth

Last(t) == next[t] = Depth

\* ... and ends with all files of its layer written, or fails in the middle;
\* part of the layer is missing when the directory was removed meanwhile
Extract(t) ==
    /\ pc[t] = "extract"
    /\ \/ /\ next[t] = BinLayer[img[t]] => img[t] \in bin \/ hurt[t]
          /\ layers' = [layers EXCEPT ![img[t]] = IF hurt[t] THEN @ ELSE @ \cup {next[t]}]
          /\ IF Last(t)
             THEN Goto(t, "mount") /\ UNCHANGED next
             ELSE Goto(t, "fetch") /\ next' = [next EXCEPT ![t] = @ + 1]
          /\ hurt' = [hurt EXCEPT ![t] = FALSE]
          /\ UNCHANGED img
       \/ Finish(t) /\ UNCHANGED layers
    /\ UNCHANGED <<bin, users>>

\* OverlayDriver.Mount with the directory PullImage returned, or its failure
Mount(t) ==
    /\ pc[t] = "mount"
    /\ \/ /\ users' = [users EXCEPT ![img[t]] = @ \cup {t}]
          /\ Goto(t, "run")
          /\ UNCHANGED <<img, next, hurt>>
       \/ Finish(t) /\ UNCHANGED users
    /\ UNCHANGED dir

\* the session, or after a crash the next start or delete, unmounts its overlay
Unmount(t) ==
    /\ pc[t] = "run"
    /\ users' = [users EXCEPT ![img[t]] = @ \ {t}]
    /\ Finish(t)
    /\ UNCHANGED dir

\* The daemon dies, as it does when a start's download has no response (the error
\* formats its status); pulls end where they are, and what is mounted stays mounted
\* until a start or a delete of its container.
Crash ==
    /\ pc' = [t \in Threads |-> IF pc[t] = "run" THEN "run" ELSE "idle"]
    /\ img' = [t \in Threads |-> IF pc[t] = "run" THEN img[t] ELSE NoImage]
    /\ next' = [t \in Threads |-> 1]
    /\ hurt' = [t \in Threads |-> FALSE]
    /\ UNCHANGED <<dir, users>>

Step(t) == \/ Check(t) \/ Clean(t) \/ Fetch(t) \/ MakeBin(t) \/ Extract(t)
           \/ Mount(t) \/ Unmount(t)

Next == Crash \/ \E t \in Threads : Step(t) \/ \E i \in Images : Pull(t, i)

Spec == Init /\ [][Next]_vars

-----------------------------------------------------------------------------
\* The variables have their types.
TypeOK ==
    /\ layers \in [Images -> SUBSET Layers]
    /\ bin \subseteq Images
    /\ users \in [Images -> SUBSET Threads]
    /\ pc \in [Threads -> PullPcs \cup {"idle", "run"}]
    /\ img \in [Threads -> Images \cup {NoImage}]
    /\ next \in [Threads -> Layers]
    /\ hurt \in [Threads -> BOOLEAN]

\* The lower layer of a mounted overlay does not change: no pull adds to or
\* removes from an image that a session runs from (image.go:61-67), as long as
\* its pulls do not overlap, which nothing in the code ensures, and it has a bin,
\* whatever happens to other images and wherever the daemon dies.
LowerStays ==
    [][\A i \in Serialised : users[i] # {} /\ BinLayer[i] # 0 =>
          layers'[i] = layers[i] /\ (i \in bin' <=> i \in bin)]_vars

\* Not so: a session runs from the complete image.  A pull that fails after the layer
\* with bin leaves what the next session takes for the image.
RunsComplete == \A i \in Serialised : users[i] # {} => layers[i] = Layers
-----------------------------------------------------------------------------
(***************************************************************************)
(* What makes LowerStays true: while an image is mounted nobody who wants  *)
(* it is past the test of rootfs/bin, because the test succeeds.           *)
(***************************************************************************)
Busy(t) == IF pc[t] = "idle" THEN next[t] = 1 /\ ~hurt[t] ELSE img[t] \in Images

OnePull ==
    \A t, u \in Threads :
        img[t] = img[u] /\ img[t] \in Serialised /\ {pc[t], pc[u]} \subseteq PullPcs => t = u

UsersRun == \A i \in Images : \A t \in users[i] : pc[t] = "run" /\ img[t] = i

Marked(i) == i \in Serialised /\ BinLayer[i] # 0

\* A pull that is past the layer with bin has put it there, and nobody removed it.
BinInTime ==
    \A t \in Threads : Marked(img[t]) =>
        /\ ~hurt[t]
        /\ pc[t] \in {"check", "clean"} => next[t] = 1
        /\ pc[t] = "clean" => img[t] \notin bin
        /\ pc[t] \in {"fetch", "extract"} /\ next[t] > BinLayer[img[t]] => img[t] \in bin
        /\ pc[t] = "mount" => img[t] \in bin

Mounted ==
    \A i \in Images : Marked(i) /\ users[i] # {} =>
        /\ i \in bin
        /\ \A t \in Threads : img[t] = i => pc[t] \notin {"clean", "fetch", "extract"}

IndInv == TypeOK /\ (\A t \in Threads : Busy(t)) /\ OnePull /\ UsersRun /\ BinInTime /\ Mounted
=============================================================================
