------------------------------ MODULE MCTiling ------------------------------
(* Values of Tiling's constants that a .cfg cannot write. *)
EXTENDS Tiling
MCGaps == [oh |-> 1, ov |-> 2, ih |-> 3, iv |-> 2]
MCMfactArgs == {-20, 15, 0, 115}
MCGapSteps == {-3}

(* The bound of the instance: cfacts, mfact and the gaps are not all       *)
(* changed at once, the gaps not in a mirrored layout either, and all stay *)
(* as they are with the layouts that use none of them and with more than   *)
(* four clients.                                                           *)
Usual == mfact = 65 /\ \A i \in DOMAIN cf : cf[i] = 4
Bounded ==
  /\ lt \in {"gaplessgrid", "grid", "nrowgrid", "horizgrid"} \/ Len(cf) > 4 => Usual
  /\ gaps # DefGaps => Usual /\ enablegaps /\ ~mirror
  /\ ~enablegaps => Usual
=============================================================================
