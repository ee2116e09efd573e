-------------------------------- MODULE Sums --------------------------------
(***************************************************************************)
(* Sums of numbers, as getfacts of vanitygaps.c takes them: one after the  *)
(* other, up to a client.  Written as a recursive function and not with a  *)
(* fold, so that Orders_proof can reason about it.                         *)
(***************************************************************************)
EXTENDS Integers, Sequences

Least(a, b) == IF a < b THEN a ELSE b

(* The sum of the first k numbers of q. *)
Total(q, k) ==
  LET upto[i \in 0..Len(q)] == IF i = 0 THEN 0 ELSE upto[i - 1] + q[i] IN upto[k]
SumOf(q) == Total(q, Len(q))
=============================================================================
