------------------------------ MODULE MCTagView ------------------------------
(***************************************************************************)
(* Instances of TagView for TLC.                                           *)
(***************************************************************************)
EXTENDS TagView

Default ==
    [nmaster |-> 1, mfact |-> 50, mfact_def |-> 50, sellt |-> 0, lt |-> [i \in {0, 1} |-> i + 1],
     showbar |-> TRUE, class_stacking |-> FALSE, cursorautohide |-> FALSE]

\* Every tag as the monitor, and tag 2 with settings of its own.
Plain == [t \in 0..NTags |-> Default]
Second ==
    [Plain EXCEPT ![2] = [Default EXCEPT !.nmaster = 2, !.mfact = 57, !.mfact_def = 57,
                                         !.showbar = FALSE, !.cursorautohide = TRUE]]
TwoConfigs == {Plain, Second}

AllMasks == SUBSET Tag
\* The arguments of the keys of config.def.h, and one that sets mfact.
KeyArgs == {-5, -1, 0, 5, 105}

OneTagMasks == {{t} : t \in Tag}
=============================================================================
