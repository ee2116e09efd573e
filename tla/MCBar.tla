-------------------------------- MODULE MCBar --------------------------------
(* Values of Bar's constants that a .cfg cannot write.                     *)
EXTENDS Bar
CONSTANTS c1, c2
MCTexts == {<<1, 2>>, <<2, 0, 3>>}
MCLow == {1, 2}
MCTaggings == {{}, {3}, {1, 2}, {1, 2, 3}}
MCBarLayout == <<"TagBar", "LtSymbol", "WinTitle", "StatusText", "ShowDesktop">>
=============================================================================
