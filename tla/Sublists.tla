------------------------------ MODULE Sublists ------------------------------
(***************************************************************************)
(* The elements of a sequence that are in a set, in their order: what is   *)
(* left of a list when the others are unlinked, and the messages of one    *)
(* kind in a stream of several.  Written as a recursive function and not   *)
(* with SelectSeq, so that Orders_proof can reason about it.               *)
(***************************************************************************)
EXTENDS Integers, Sequences

Only(q, S) ==
    LET upto[i \in 0..Len(q)] ==
            IF i = 0 THEN <<>>
            ELSE IF q[i] \in S THEN Append(upto[i - 1], q[i]) ELSE upto[i - 1]
    IN  upto[Len(q)]
=============================================================================
