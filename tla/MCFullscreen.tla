---------------------------- MODULE MCFullscreen ----------------------------
(* Values of Fullscreen's constants that a .cfg cannot write. *)
EXTENDS Fullscreen, TLC
CONSTANTS left, right
MCEdges == (left :> 0) @@ (right :> 20)
MCFloats == {NoGeo, [x |-> 14, w |-> 4]}
MCRequests == {[bw |-> 2, w |-> 30]}
=============================================================================
