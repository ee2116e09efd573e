---------------------------- MODULE MCLifecycle ----------------------------
(* Values of Lifecycle's constants that a .cfg cannot write. *)
EXTENDS Lifecycle, TLC
CONSTANTS term, prog, dialog
(* A terminal, a program started in it, and the program's dialog. *)
MCProc == (term :> 1) @@ (prog :> 2) @@ (dialog :> 2)
MCDesc == {<< 1, 2 >>}
MCTransient == (term :> None) @@ (prog :> None) @@ (dialog :> prog)
Symmetric == Permutations(Ids)
=============================================================================
