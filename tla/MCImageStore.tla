---------------------------- MODULE MCImageStore ----------------------------
(* Three images of Depth layers: bin comes with the first, with the last, and *)
(* with the first again; the last image is pulled concurrently.               *)
EXTENDS ImageStore, TLC

CONSTANTS i1, i2, i3

MCBinLayer == (i1 :> 1) @@ (i2 :> Depth) @@ (i3 :> 1)
Symmetry == Permutations(Threads)
=============================================================================
