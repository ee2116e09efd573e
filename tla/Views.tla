-------------------------------- MODULE Views --------------------------------
(***************************************************************************)
(* What a dwm-dunc monitor shows, as a user sees it: the tags in view and  *)
(* those of the view before, that view(0) returns to.  This is the         *)
(* monitor's view in Handlers; TagView implements it with two slots and an *)
(* index into them.                                                        *)
(***************************************************************************)
CONSTANTS ViewMasks, ToggleMasks, Start

VARIABLES cur, alt

Init == cur = Start /\ alt = Start

\* view: a mask replaces the view, the empty one brings the last one back.
View ==
    \E mask \in ViewMasks :
        /\ mask # cur
        /\ cur' = IF mask = {} THEN alt ELSE mask
        /\ alt' = cur

\* toggleview never leaves nothing in view, and is not undone by view(0).
Toggle ==
    \E mask \in ToggleMasks :
        /\ cur' = (cur \ mask) \cup (mask \ cur)
        /\ cur' # {}
        /\ UNCHANGED alt

Next == View \/ Toggle

Spec == Init /\ [][Next]_<<cur, alt>>
=============================================================================
