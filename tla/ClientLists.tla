----------------------------- MODULE ClientLists -----------------------------
(***************************************************************************)
(* The client lists of dwm-dunc (dwm.c).  Every managed window is a Client *)
(* on two singly linked chains of its monitor: m->clients (through next),  *)
(* the layout order, and m->stack (through snext, sprev), the focus order. *)
(* The attach*/detach* functions edit them; most handlers call several.    *)
(*                                                                         *)
(* A chain is a sequence here.  The state of the window manager is one     *)
(* record, and every C function is an operator from that record to the     *)
(* record it leaves, so that a handler is their composition in the order   *)
(* of the code.  The record's fields:                                      *)
(*   clients[m], stack[m]  the two chains of monitor m                     *)
(*   mon[c]                the client's monitor; None: not managed         *)
(*   tags[c]               the client's tag mask, a set of tags            *)
(*   floating, hidden      the clients with isfloating, ishidden set       *)
(*   sel[m]                the selected client of monitor m, or None       *)
(*   selmon                the selected monitor                            *)
(*   view[m]               tagset[seltags] (cur) and the other slot (alt)  *)
(*   focusontag[m][t]      the client to select when tag t is viewed       *)
(*   xfocus                the window with the X input focus, None: root   *)
(* No client here is a desktop, panel, ignored, game, modal, sticky,       *)
(* fullscreen or dormant one, and no two share a window class.             *)
(***************************************************************************)
EXTENDS Integers, Sequences, FiniteSets, SequencesExt

CONSTANTS
    Client,       \* the windows that may be mapped
    Monitor,      \* the monitors
    Tag,          \* tag indices, 1..LENGTH(tags)
    NeverFocus,   \* the clients with neverfocus set
    Monocle,      \* the monitors whose layout is monocle, the rest tile
    NMaster,      \* pertag->nmasters, the same for every tag
    None          \* NULL

ASSUME NoneAssumption == None \notin Client /\ None \notin Monitor
ASSUME MonitorAssumption == Monitor # {}
ASSUME TagAssumption == Tag # {} /\ Tag \subseteq Nat
ASSUME FlagAssumption == NeverFocus \subseteq Client /\ Monocle \subseteq Monitor
ASSUME NMasterAssumption == NMaster \in Nat

Mask == SUBSET Tag

\* The record the operators work on.
WmState ==
    [clients : [Monitor -> Seq(Client)],
     stack : [Monitor -> Seq(Client)],
     mon : [Client -> Monitor \cup {None}],
     tags : [Client -> Mask],
     floating : SUBSET Client,
     hidden : SUBSET Client,
     sel : [Monitor -> Client \cup {None}],
     selmon : Monitor,
     view : [Monitor -> [cur : Mask, alt : Mask]],
     focusontag : [Monitor -> [Tag -> Client \cup {None}]],
     xfocus : Client \cup {None}]

-----------------------------------------------------------------------------
(* Sequences as chains.                                                    *)

\* q holds each element of S once, and nothing else.
IsChain(q, S) == IsInjective(q) /\ ToSet(q) = S

\* The first element of q that is in S, None when there is none.
FirstIn(q, S) ==
    LET at == {i \in DOMAIN q : q[i] \in S}
    IN  IF at = {} THEN None ELSE q[CHOOSE i \in at : \A j \in at : i <= j]

\* The last one.
LastIn(q, S) ==
    LET at == {i \in DOMAIN q : q[i] \in S}
    IN  IF at = {} THEN None ELSE q[CHOOSE i \in at : \A j \in at : j <= i]

Position(q, c) == CHOOSE i \in DOMAIN q : q[i] = c

\* x stands before y in q.
Ahead(q, x, y) == \E i, j \in DOMAIN q : i < j /\ q[i] = x /\ q[j] = y

\* The part of the chain after c, and the part before it.
After(q, c) == SubSeq(q, Position(q, c) + 1, Len(q))
Before(q, c) == SubSeq(q, 1, Position(q, c) - 1)

Without(q, c) == RemoveAt(q, Position(q, c))

\* c inserted next to an element d of q.
PutAfter(q, d, c) == InsertAt(q, Position(q, d) + 1, c)
PutBefore(q, d, c) == InsertAt(q, Position(q, d), c)

\* The element of q in S a walk of n steps ends on: the n-th, or the last
\* when there are fewer; None when there is none.
NthIn(q, S, n) ==
    LET at == {i \in DOMAIN q : q[i] \in S}
        reached == {i \in at : Cardinality({j \in at : j <= i}) <= n}
    IN  IF reached = {} THEN None ELSE q[CHOOSE i \in reached : \A j \in reached : j <= i]

-----------------------------------------------------------------------------
(* The macros and predicates on clients.                                   *)

Managed(s) == {c \in Client : s.mon[c] # None}

\* The clients of monitor m.
On(s, m) == {c \in Client : s.mon[c] = m}


\* ISVISIBLEONTAG
VisibleOnTag(s, c, mask) == s.tags[c] \cap mask # {}

\* ISVISIBLE: desktopvalid with show-desktop off.
Visible(s, c) ==
    /\ s.mon[c] # None
    /\ VisibleOnTag(s, c, s.view[s.mon[c]].cur)

\* The clients of monitor m that are on the screen.
Shown(s, m) == {c \in On(s, m) : Visible(s, c) /\ c \notin s.hidden}

\* The clients of m a fallback may select.
Usable(s, m) == Shown(s, m) \ NeverFocus

\* The clients nexttiled and prevtiled stop at.
Tiled(s, m) == Shown(s, m) \ s.floating

\* tagtoindex: the lowest tag of a non-empty mask.
TagToIndex(mask) == CHOOSE t \in mask : \A u \in mask : t <= u

-----------------------------------------------------------------------------
(* attach*, detach*.                                                       *)

Attach(s, c) == [s EXCEPT !.clients[s.mon[c]] = <<c>> \o @]

\* The walks of attachBelow and attachstackBelow stop at these.
TiledOnTagsOf(s, c) ==
    {d \in Client \ (s.floating \cup s.hidden) : VisibleOnTag(s, d, s.tags[c])}

AttachBelow(s, c) ==
    LET m == s.mon[c]
        sel == s.sel[m]
        last == NthIn(s.clients[m], TiledOnTagsOf(s, c), NMaster)
        at == IF sel = None \/ sel \in s.floating \/ ~Visible(s, c) THEN last ELSE sel
    IN  IF at = None
        THEN Attach(s, c)
        ELSE [s EXCEPT !.clients[m] = PutAfter(@, at, c)]

\* Mutant: the stack of the selected monitor, not of the client's.
AttachStackExOnSelmon(s, c) == [s EXCEPT !.stack[s.selmon] = <<c>> \o @]

\* The head of the stack, whatever the client.
AttachStackEx(s, c) == [s EXCEPT !.stack[s.mon[c]] = <<c>> \o @]

\* A floating client goes on top, a tiled one under the leading floating
\* ones; a floating one put on a monitor that is not selected becomes its
\* selected client.
AttachStack(s, c) ==
    LET m == s.mon[c]
        f == IF c \in s.floating
             THEN None
             ELSE FirstIn(s.stack[m], Client \ s.floating)
        becomesSel ==
            /\ m # s.selmon
            /\ c \in s.floating
            /\ c \in Usable(s, m)
    IN  IF f = None \/ f = Head(s.stack[m])
        THEN [AttachStackEx(s, c) EXCEPT !.sel[m] = IF becomesSel THEN c ELSE @]
        ELSE [s EXCEPT !.stack[m] = PutBefore(@, f, c)]

AttachStackBelow(s, c) ==
    LET m == s.mon[c]
        sel == s.sel[m]
        S == TiledOnTagsOf(s, c)
        last == IF NMaster = 0 THEN LastIn(s.stack[m], S) ELSE NthIn(s.stack[m], S, NMaster)
        below == (sel # None /\ sel \notin s.floating) \/ ~Visible(s, c)
    IN  IF below /\ last # None
        THEN [s EXCEPT !.stack[m] = PutAfter(@, last, c)]
        ELSE AttachStack(s, c)

Detach(s, c) == [s EXCEPT !.clients[s.mon[c]] = Without(@, c)]

DetachStackEx(s, c) == [s EXCEPT !.stack[s.mon[c]] = Without(@, c)]

\* Mutant: only the tags in view are searched.
ForgetOnTagInView(s, c) ==
    LET m == s.mon[c]
        kept == [t \in Tag |-> IF s.focusontag[m][t] = c /\ t \in s.view[m].cur
                               THEN None ELSE s.focusontag[m][t]]
    IN  [s EXCEPT !.focusontag[m] = kept]

\* The entries of focusontag that hold c are cleared.
ForgetOnTag(s, c) ==
    LET m == s.mon[c]
        kept == [t \in Tag |-> IF s.focusontag[m][t] = c THEN None ELSE s.focusontag[m][t]]
    IN  [s EXCEPT !.focusontag[m] = kept]

\* A monitor that loses its selected client selects the first shown one of
\* its stack.
DetachStack(s, c) ==
    LET m == s.mon[c]
        r == ForgetOnTag(DetachStackEx(s, c), c)
    IN  IF s.sel[m] = c
        THEN [r EXCEPT !.sel[m] = FirstIn(r.stack[m], Shown(r, m))]
        ELSE r
=============================================================================
