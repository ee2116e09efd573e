----------------------------- MODULE MCHandlers -----------------------------
(***************************************************************************)
(* Instances of Handlers for TLC.                                          *)
(***************************************************************************)
EXTENDS Handlers, TLC

CONSTANTS c1, c2, c3, m1, m2    \* clients and monitors

\* A bound: while every client is there, none of them has all tags.
FewToggled == Managed(wm) = Client => \A c \in Client : wm.tags[c] # Tag

\* Clients that no constant tells apart.
AlikeSymmetry == Permutations({c2, c3})
=============================================================================
