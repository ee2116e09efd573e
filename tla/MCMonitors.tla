----------------------------- MODULE MCMonitors -----------------------------
(* Values of Monitors' constants that a .cfg cannot write.                 *)
EXTENDS Monitors, TLC
A == [x |-> 0, y |-> 0, w |-> 101, h |-> 60]
B == [x |-> 101, y |-> 0, w |-> 80, h |-> 61]
C == [x |-> 181, y |-> 0, w |-> 80, h |-> 60]
MCSetups == {<<A>>, <<B>>, <<A, B>>, <<A, A, C>>, <<A, B, C>>}
MCSplitOf == 0 :> 2 @@ 1 :> 1 @@ 2 :> 0
Symmetry == Permutations(Clients)
=============================================================================
