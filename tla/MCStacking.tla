----------------------------- MODULE MCStacking -----------------------------
(***************************************************************************)
(* Instances of Stacking for TLC: clients of class "a" and "b", and a      *)
(* floating dialog d of a1.                                                *)
(***************************************************************************)
EXTENDS Stacking, TLC

CONSTANTS a1, a2, b1, d1, m1    \* clients and the monitor

MCClass == a1 :> "a" @@ a2 :> "a" @@ b1 :> "b" @@ d1 :> "d"
MCParent == a1 :> None @@ a2 :> None @@ b1 :> None @@ d1 :> a1
=============================================================================
