------------------------------ MODULE MCAltTab ------------------------------
(* Values of AltTab's constants that a .cfg cannot write.                  *)
EXTENDS AltTab
CONSTANTS c1, c2, c3, c4
MCMonOf == c1 :> 0 @@ c2 :> 0 @@ c3 :> 0 @@ c4 :> 1
MCTagsOf == c1 :> {1} @@ c2 :> {2} @@ c3 :> {1} @@ c4 :> {1, 2}
MCClassOf == c1 :> "a" @@ c2 :> "a" @@ c3 :> "b" @@ c4 :> "b"
MCNameRank == c1 :> 3 @@ c2 :> 1 @@ c3 :> 2 @@ c4 :> 0
MCMons == <<0, 1>>
MCModes ==
    {{"selmon"}, {"selmon", "reverse"}, {"selmon", "same_class", "all_tags"},
     {"selmon", "all_tags", "all_monitors", "sorted_by_monitor"},
     {"all_tags", "sorted"},
     {"selmon", "mouse", "offset_menu"},
     {"selmon", "mouse", "all_tags", "same_class", "hidden"},
     {"selmon", "mouse", "all_tags", "all_monitors", "hidden"}}
=============================================================================
