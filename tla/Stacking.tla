------------------------------ MODULE Stacking ------------------------------
(***************************************************************************)
(* Class stacking and modal clients in dwm-dunc (dwm.c): the two features  *)
(* that regroup the client chains behind the handlers' backs.              *)
(*                                                                         *)
(* With class stacking on, arrangemon makes one client of each window      *)
(* class the stack head and moves the others of its class behind it on     *)
(* both chains; they share its tile.  attach_stackhead puts a new client   *)
(* in front of its class.  A modal client is focused in the place of any   *)
(* relative that it is younger than, and pulls its relatives up the focus  *)
(* stack.  All of this follows and relinks raw pointers, so the record of  *)
(* ClientLists gets these fields:                                          *)
(*   head[c]     c->stackhead, None, or Away for one on another monitor    *)
(*   heads       the clients with isstackhead set                          *)
(*   modal       the clients with ismodal set                              *)
(*   index[c]    c->index, the age of c in its family                      *)
(*   stacking[t] pertag->class_stacking, in force while t is in view       *)
(*   fault       what broke the chains: "lost", a client bypassed by the   *)
(*               focus stack; "join", a NULL link followed; or "none"      *)
(* Nothing is modelled past a fault: the program then walks broken chains. *)
(***************************************************************************)
EXTENDS Focus

CONSTANTS
    Class,         \* the window class of each client (or stackclass)
    Parent,        \* c->parent, None for a root
    Floating,      \* the floating clients
    MayBeModal     \* the clients that may say they are modal

ASSUME StackingAssumption ==
    /\ DOMAIN Class = Client
    /\ Parent \in [Client -> Client \cup {None}]
    /\ MayBeModal \subseteq Floating
    /\ \A c \in MayBeModal : Parent[c] # None

VARIABLE wm

Away == "away"

\* ultparent
Ult[c \in Client] == IF Parent[c] = None THEN c ELSE Ult[Parent[c]]

StackState(s) ==
    /\ s.head \in [Client -> Client \cup {None, Away}]
    /\ s.heads \subseteq Managed(s) /\ s.modal \subseteq Managed(s)
    /\ s.index \in [Client -> Nat]
    /\ s.stacking \in [Tag -> BOOLEAN]
    /\ s.fault \in {"none", "lost", "join"}

\* The only client not on the stack of its monitor is one that a fault lost.
Whole(s) ==
    \A m \in Monitor : /\ IsChain(s.clients[m], On(s, m))
                       /\ s.fault = "none" => IsChain(s.stack[m], On(s, m))

ClassOn(s, m) == s.stacking[TagToIndex(s.view[m].cur)]

-----------------------------------------------------------------------------
(* Class stacking.                                                         *)

\* The clients of the chain q that c, a head, gathers.
Followers(s, c, q) ==
    {d \in ToSet(q) \cap Tiled(s, s.mon[c]) : s.head[d] = None /\ Class[d] = Class[c]}

\* arrangemon_process_classstack(c, added): the followers are looked for
\* below c, or on the whole stack when c is not on it yet.
ProcessClassStack(s, c, added) ==
    LET m == s.mon[c]
        found == Followers(s, c, IF added THEN After(s.stack[m], c) ELSE s.stack[m])
        led == [d \in Client |-> IF d \in found THEN c ELSE s.head[d]]
    IN  IF c \notin Tiled(s, m) \/ s.head[c] # None \/ found = {} THEN s
        ELSE [s EXCEPT !.head = led, !.heads = @ \cup {c}]

\* Each member of q followed by the clients it leads, in their order on q.
Gathered(s, q) ==
    LET led(h) == SelectSeq(q, LAMBDA d : s.head[d] = h)
    IN  FoldLeft(LAMBDA r, h : IF s.head[h] = None THEN r \o <<h>> \o led(h) ELSE r, <<>>, q)

\* groupallclassstacks: both chains get the order of the focus stack inside
\* a class; what is detached on the way is forgotten and unselected.
GroupAllClassStacks(s, m) ==
    LET members == SelectSeq(s.stack[m], LAMBDA c : s.head[c] # None /\ c \notin s.heads)
        off == FoldLeft(LAMBDA r, c : Detach(DetachStack(r, c), c), s, members)
        put(q) == Gathered(s, q \o members)
    IN  [off EXCEPT !.clients[m] = put(@), !.stack[m] = put(@)]

\* The marks of m's clients are taken off.
Cleared(s, m) ==
    LET kept == [c \in Client |-> IF c \in On(s, m) THEN None ELSE s.head[c]]
    IN  [s EXCEPT !.head = kept, !.heads = @ \ On(s, m)]

\* arrangemon, in what it does to the chains.
Arrange(s, m) ==
    LET marked == FoldLeft(LAMBDA r, c : ProcessClassStack(r, c, TRUE),
                           Cleared(s, m), s.stack[m])
    IN  IF ClassOn(s, m) THEN GroupAllClassStacks(marked, m) ELSE Cleared(s, m)

\* c takes the lead from sh.
HeadFor(s, c, sh) ==
    [s EXCEPT !.head[sh] = c, !.heads = (@ \ {sh}) \cup {c}, !.head[c] = None]

\* c goes in front of sh on the focus stack. Below the top the links are
\* taken from sh itself, which leaves the chain.
StackBefore(s, c, sh) ==
    LET m == s.mon[c]
    IN  IF sh = Head(s.stack[m]) THEN AttachStack(s, c)
        ELSE [s EXCEPT !.stack[m][Position(s.stack[m], sh)] = c, !.fault = "lost"]

\* attach_stackhead: a tiled client in view that has its class on the monitor
\* goes in front of the first tiled client of the stack, whatever its class.
\* did is what it returns.
AttachStackHead(s, c) ==
    LET m == s.mon[c]
        r == IF s.head[c] = None THEN ProcessClassStack(s, c, FALSE) ELSE s
        sh == IF r.head[c] # None THEN r.head[c] ELSE FirstIn(r.stack[m], Tiled(r, m))
        led == HeadFor(r, c, sh)
        top == AttachStack(Attach(led, c), c)
        inside == StackBefore([led EXCEPT !.clients[m] = PutBefore(@, sh, c)], c, sh)
        fails == \/ c \notin Tiled(s, m)
                 \/ c \notin r.heads
                 \/ sh = None
                 \/ sh \notin ToSet(r.clients[m])
                 \/ Len(r.clients[m]) = 1
    IN  IF fails THEN [did |-> FALSE, s |-> r]
        ELSE [did |-> TRUE, s |-> IF sh = Head(r.clients[m]) THEN top ELSE inside]

\* The chains as manage and sendmon leave them; below is what the tests for
\* attaching below the selection came to.
Attached(s, c, below) ==
    LET r == AttachStackHead(s, c)
    IN  IF r.did THEN r.s
        ELSE IF below THEN AttachStackBelow(AttachBelow(r.s, c), c)
        ELSE AttachStack(Attach(r.s, c), c)

-----------------------------------------------------------------------------
(* Modal clients.                                                          *)

\* The modal relatives that stand in for c.
ModalOver(s, c) ==
    {d \in s.modal : s.mon[d] = s.mon[c] /\ Ult[d] = Ult[c] /\ s.index[d] > s.index[c]}

\* The client focus turns to when asked for c: the first modal client over c
\* on the stack, unless that one is out of view.
StandIn(s, c) ==
    LET d == FirstIn(s.stack[s.mon[c]], ModalOver(s, c))
    IN  IF d \in Shown(s, s.mon[c]) THEN GetFocusable(s, s.mon[c], d, FALSE) ELSE c

\* focus calls itself with the stand-in until there is none.
FocusTarget(s, m, arg, force) ==
    LET c == GetFocusable(s, m, arg, force)
    IN  IF c = None THEN None
        ELSE FoldLeft(LAMBDA d, i : StandIn(s, d), c, [i \in 1..Cardinality(Client) |-> i])

\* The family of c is in more than one piece of the stack. A modal client at
\* the top is taken for grouped when only the last of the stack is apart.
Dirty(s, c) ==
    LET q == s.stack[s.mon[c]]
    IN  IF Head(q) # c THEN TRUE
        ELSE \E i, j \in 1..(Len(q) - 1) : i < j /\ Ult[q[i]] # Ult[c] /\ Ult[q[j]] = Ult[c]

\* The relatives of c that are in view.
Family(s, c) == {d \in On(s, s.mon[c]) : Ult[d] = Ult[c] /\ Visible(s, d)}

\* modalgroupclients: the family goes on top in the order it has. The rest of
\* the stack is joined on behind it; when nothing is left, through NULL.
ModalGroupClients(s, c) ==
    LET m == s.mon[c]
        up == SelectSeq(s.stack[m], LAMBDA d : d \in Family(s, c))
        rest == SelectSeq(s.stack[m], LAMBDA d : d \notin Family(s, c))
    IN  IF c \notin s.modal \/ ~Dirty(s, c) THEN s
        ELSE [s EXCEPT !.stack[m] = up \o rest, !.fault = IF rest = <<>> THEN "join" ELSE @]

\* Mutant: the others still follow the old head.
ReheadAlone(s, c) ==
    IF s.head[c] = None THEN s
    ELSE [s EXCEPT !.head[c] = None, !.heads = @ \cup {c}]

\* The focused client becomes the head of its class.
Rehead(s, c) ==
    LET old == s.head[c]
        led == [d \in Client |-> CASE d = c -> None
                                   [] d # c /\ (d = old \/ s.head[d] = old) -> c
                                   [] OTHER -> s.head[d]]
    IN  IF old = None THEN s ELSE [s EXCEPT !.head = led, !.heads = @ \cup {c}]

\* Mutant: no client stands in for the one asked for.
FocusOnDirect(s, m, arg, force) ==
    LET c == GetFocusable(s, m, arg, force)
    IN  IF c = None THEN Focus(s, None, force) ELSE Focus(Rehead(s, c), c, TRUE)

\* focus(arg, force) on monitor m, with the modal and class stacking parts.
FocusOn(s, m, arg, force) ==
    LET c == FocusTarget(s, m, arg, force)
    IN  IF c = None THEN Focus(s, None, force)
        ELSE Focus(Rehead(ModalGroupClients(s, c), c), c, TRUE)

-----------------------------------------------------------------------------
(* The handlers.                                                           *)

\* viewmontag on the selected monitor: the client remembered for the tag is
\* focused after the arrangement, any other one before it.
ViewStack(s, m, mask) ==
    LET cur == s.view[m].cur
        leaving == [s EXCEPT !.focusontag[m][TagToIndex(cur)] = s.sel[m]]
        r == [leaving EXCEPT !.view[m] = [cur |-> mask, alt |-> cur]]
        c == r.focusontag[m][TagToIndex(mask)]
        known == c # None /\ r.mon[c] = m /\ Visible(r, c)
    IN  IF known THEN FocusOn(Arrange(r, m), m, c, TRUE)
        ELSE Arrange(FocusOn(r, m, None, FALSE), m)

Init ==
    wm = [clients |-> [m \in Monitor |-> <<>>], stack |-> [m \in Monitor |-> <<>>],
          mon |-> [c \in Client |-> None], tags |-> [c \in Client |-> {}],
          floating |-> {}, hidden |-> {}, sel |-> [m \in Monitor |-> None],
          selmon |-> CHOOSE m \in Monitor : TRUE,
          view |-> [m \in Monitor |-> [cur |-> {1}, alt |-> {1}]],
          focusontag |-> [m \in Monitor |-> [t \in Tag |-> None]], xfocus |-> None,
          head |-> [c \in Client |-> None], heads |-> {}, modal |-> {},
          index |-> [c \in Client |-> 0], stacking |-> [t \in Tag |-> FALSE],
          fault |-> "none"]

\* c as it comes to monitor m, before it is on the chains.
Placed(s, c, m) ==
    [s EXCEPT !.mon[c] = m, !.tags[c] = s.view[m].cur,
              !.floating = @ \cup (Floating \cap {c})]

\* MapRequest, manage: a new client is younger than its family and takes
\* ismodal from its parent or from its own window state. One put in front of
\* its class is always focused, any other one when it takes the focus.
Map(c, isModal, below, takes) ==
    LET m == wm.selmon
        older == {wm.index[d] : d \in {e \in Managed(wm) : Ult[e] = Ult[c]}}
        s == [Placed(wm, c, m) EXCEPT
                 !.index[c] = CHOOSE i \in 0..Cardinality(Client) :
                     older \subseteq 0..(i - 1) /\ (i = 0 \/ i - 1 \in older),
                 !.modal = @ \cup IF isModal THEN {c} ELSE {}]
        r == Arrange(Attached(s, c, below), m)
    IN  /\ wm.mon[c] = None
        /\ Parent[c] # None => Parent[c] \in Managed(wm)
        /\ isModal => c \in MayBeModal \/ Parent[c] \in wm.modal
        /\ wm' = IF takes \/ AttachStackHead(s, c).did THEN FocusOn(r, m, c, TRUE) ELSE r

\* sendmon: a client comes from another monitor, with the marks that one left
\* on it; it is focused when it was the selection and viewontag is set.
Arrive(c, was, takes) ==
    LET m == wm.selmon
        s == [Placed(wm, c, m) EXCEPT
                 !.head[c] = IF was = "follower" THEN Away ELSE None,
                 !.heads = @ \cup IF was = "head" THEN {c} ELSE {}]
        r == Attached(s, c, TRUE)
        led == Arrange([r EXCEPT !.sel[m] = c], m)
    IN  /\ wm.mon[c] = None /\ Ult[c] = c
        /\ wm' = IF takes THEN FocusOn(led, m, c, TRUE) ELSE Arrange(r, m)

\* unmanage, or sendmon to another monitor: after the arrangement the focus
\* goes to one of the clients guessnextfocus may pick.
Leave(c) ==
    LET m == wm.selmon
        off == [DetachStack(Detach(wm, c), c) EXCEPT
                    !.mon[c] = None, !.tags[c] = {}, !.floating = @ \ {c},
                    !.head[c] = None, !.heads = @ \ {c}, !.modal = @ \ {c}, !.index[c] = 0]
        r == Arrange(off, m)
    IN  /\ c \in Managed(wm)
        /\ \A d \in Managed(wm) : Parent[d] # c
        /\ IF Visible(wm, c) /\ c = wm.sel[m]
           THEN \E d \in GuessNextFocus(r, c, m, m) : wm' = FocusOn(r, m, d, FALSE)
           ELSE wm' = r

\* The pointer or a key asks for c.
FocusClient(c) ==
    /\ c \in Shown(wm, wm.selmon)
    /\ wm' = FocusOn(wm, wm.selmon, c, FALSE)

ViewTag(t) ==
    /\ {t} # wm.view[wm.selmon].cur
    /\ wm' = ViewStack(wm, wm.selmon, {t})

\* togglestacking
ToggleStacking ==
    LET t == TagToIndex(wm.view[wm.selmon].cur)
    IN  wm' = Arrange([wm EXCEPT !.stacking[t] = ~@], wm.selmon)

\* PropertyNotify, updatewindowstate: the program changes its modal state.
SetModal(c) ==
    /\ c \in MayBeModal \cap Managed(wm)
    /\ wm' = [wm EXCEPT !.modal = IF c \in @ THEN @ \ {c} ELSE @ \cup {c}]

Handler ==
    \/ \E c \in Client, isModal, below, takes \in BOOLEAN : Map(c, isModal, below, takes)
    \/ \E c \in Client, takes \in BOOLEAN :
           \E was \in {"head", "follower", "neither"} : Arrive(c, was, takes)
    \/ \E c \in Client : Leave(c)
    \/ \E c \in Client : FocusClient(c)
    \/ \E t \in Tag : ViewTag(t)
    \/ ToggleStacking
    \/ \E c \in Client : SetModal(c)

Next == wm.fault = "none" /\ Handler

Spec == Init /\ [][Next]_wm

-----------------------------------------------------------------------------
(* Properties.                                                             *)

\* A client can be selected only while it is managed, the marks are those of
\* the code, and every client is on both chains once, except for the one that
\* a fault took off the focus stack.
TypeOK ==
    /\ StackState(wm)
    /\ Whole(wm)
    /\ \A m \in Monitor : wm.sel[m] \in On(wm, m) \cup {None}

\* One client of each class has the tile (README.md:239): with class stacking
\* on, the tiled clients in view that are of one class have one head among
\* them, on the same monitor and of their class; with it off no client is
\* kept from its tile.
OneTileIn(s, m) ==
    \A c \in Tiled(s, m) :
        LET kin == {d \in Tiled(s, m) : Class[d] = Class[c]}
        IN  IF ClassOn(s, m)
            THEN Cardinality({d \in kin : s.head[d] = None}) = 1 /\ s.head[c] \in kin \cup {None}
            ELSE s.head[c] = None

\* As OneTileIn, while no fault has broken the chains.
OneTile == wm.fault = "none" => \A m \in Monitor : OneTileIn(wm, m)

\* The state keeps its type, both chains included, and each class its tile
\* (TypeOK, OneTile).
Stacked == TypeOK /\ OneTile

\* README.md:239: visible tiled clients of the same class occupy one tile.
SameTile == \A m \in Monitor : OneTileIn(wm, m)

\* A modal client in view stands in for its family: a client that a step
\* gives the X input focus has no younger modal relative in view (the comment
\* at dwm.c:8179).
ModalFirst ==
    [][wm'.fault = "none" =>
       LET c == wm'.xfocus
       IN  c \in Managed(wm') /\ c # wm.xfocus =>
               ModalOver(wm', c) \cap Shown(wm', wm'.mon[c]) = {}]_wm
=============================================================================
